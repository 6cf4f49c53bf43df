---------------------------- MODULE WorkerProofs ----------------------------
(***************************************************************************)
(* Proofs about Worker for every set of messages and rows, every prefetch  *)
(* window and any number of failures: type correctness, the ack after the  *)
(* pushes, the records, and the bound on second pushes.                    *)
(***************************************************************************)
EXTENDS Worker, TLAPS

-----------------------------------------------------------------------------
(* Frames in a buffer                                                      *)

\* x is in q at most once.
Once(q, x) == \A i, j \in DOMAIN q : q[i] = x /\ q[j] = x => i = j

LEMMA AppendFrame ==
  ASSUME NEW S, NEW q \in Seq(S), NEW e \in S
  PROVE  /\ Append(q, e) \in Seq(S)
         /\ Range(Append(q, e)) = Range(q) \cup {e}
         /\ \A x : Once(q, x) /\ (x = e => x \notin Range(q)) => Once(Append(q, e), x)
<1>. DEFINE r == Append(q, e)
<1>1. /\ r \in Seq(S) /\ Len(r) = Len(q) + 1
      /\ \A i \in 1 .. Len(q) : r[i] = q[i]
      /\ r[Len(q) + 1] = e
  OBVIOUS
<1>2. DOMAIN r = 1 .. Len(q) + 1 /\ DOMAIN q = 1 .. Len(q) /\ Len(q) \in Nat
  BY <1>1
<1>. HIDE DEF r
<1>3. Range(r) = Range(q) \cup {e}
  BY <1>1, <1>2 DEF Range
<1>4. ASSUME NEW x, Once(q, x), x = e => x \notin Range(q)  PROVE Once(r, x)
  BY <1>1, <1>2, <1>4 DEF Range, Once
<1>. QED  BY <1>1, <1>3, <1>4 DEF r

LEMMA TailFrame ==
  ASSUME NEW S, NEW q \in Seq(S), q # <<>>
  PROVE  /\ Head(q) \in S /\ Tail(q) \in Seq(S)
         /\ Range(q) = {Head(q)} \cup Range(Tail(q))
         /\ \A x : Once(q, x) =>
              Once(Tail(q), x) /\ (x = Head(q) => x \notin Range(Tail(q)))
<1>. DEFINE r == Tail(q)
<1>1. /\ r \in Seq(S) /\ Len(r) = Len(q) - 1 /\ Len(q) \in Nat \ {0}
      /\ \A i \in 1 .. Len(r) : r[i] = q[i + 1]
      /\ Head(q) = q[1] /\ Head(q) \in S
  OBVIOUS
<1>2. DOMAIN r = 1 .. Len(q) - 1 /\ DOMAIN q = 1 .. Len(q)
  BY <1>1
<1>. HIDE DEF r
<1>3. Range(q) = {Head(q)} \cup Range(r)
  <2>1. ASSUME NEW x \in Range(q), x # q[1]  PROVE x \in Range(r)
    <3>1. PICK i \in 1 .. Len(q) : x = q[i]  BY <1>2 DEF Range
    <3>2. i - 1 \in 1 .. Len(r) /\ r[i - 1] = q[i]  BY <1>1, <2>1, <3>1
    <3>. QED  BY <1>1, <1>2, <3>1, <3>2 DEF Range
  <2>2. ASSUME NEW x \in Range(r)  PROVE x \in Range(q)
    <3>1. PICK i \in 1 .. Len(r) : x = r[i]  BY <1>1, <1>2 DEF Range
    <3>. QED  BY <1>1, <1>2, <3>1 DEF Range
  <2>3. q[1] \in Range(q)  BY <1>1, <1>2 DEF Range
  <2>. QED  BY <1>1, <2>1, <2>2, <2>3
<1>4. ASSUME NEW x, Once(q, x)  PROVE Once(r, x) /\ (x = Head(q) => x \notin Range(r))
  <2>1. \A i \in 1 .. Len(r) : i \in Nat /\ i + 1 \in DOMAIN q /\ r[i] = q[i + 1]
    BY <1>1, <1>2
  <2>2. \A i, j \in 1 .. Len(r) : r[i] = x /\ r[j] = x => i + 1 = j + 1
    BY <1>4, <2>1 DEF Once
  <2>3. 1 \in DOMAIN q  BY <1>1, <1>2
  <2>4. \A i \in 1 .. Len(r) : r[i] = x /\ q[1] = x => i + 1 = 1
    BY <1>4, <2>1, <2>3 DEF Once
  <2>. QED  BY <1>1, <1>2, <2>1, <2>2, <2>4 DEF Range, Once
<1>. QED  BY <1>1, <1>3, <1>4 DEF r

-----------------------------------------------------------------------------
(* The inductive invariant                                                 *)

\* The rows of a lookup: until the loop is over, a good row it found is queued
\* or still to be processed.
RowsInv ==
  /\ pc \in {"row", "push", "ack"} => frame \in Messages
  /\ pc = "push" => row \in res
  /\ res # {} => pc \in {"row", "push"}
  /\ pc \in {"row", "push", "ack"} /\ frame \notin Garbage \cup AckOnly =>
       found \ BadTokens \subseteq queued \cup res

\* Where the copies of a message can be.
LinkInv ==
  /\ pending \subseteq published /\ unacked \subseteq published
  /\ pending \cap unacked = {}
  /\ link => connected
  /\ pc = "connect" => ~connected
  /\ ~link => unacked = {}
  /\ link => Range(inflight) \cap Messages \subseteq unacked
  /\ link /\ frame \in Messages => frame \in unacked \ Range(inflight)
  /\ unacked \subseteq Range(inflight) \cup {frame}
  /\ \A m \in Messages : Once(inflight, m)

\* No copy of an acknowledged message is left anywhere.
AckedInv ==
  /\ acked \subseteq published \ (pending \cup unacked)
  /\ acked \cap (Range(inflight) \cup {frame}) = {}

\* What has become of the messages that are at an end.
FateInv ==
  /\ published = pending \cup unacked \cup acked \cup missed
  /\ missed \cap (pending \cup unacked \cup acked) = {}

One(b) == IF b THEN 1 ELSE 0

\* A copy of m that is not on a link, one in the buffer, one in hand.
Waiting(m) == One(m \notin published \/ m \in pending)
Buffered(m) == One(m \in Range(inflight))
InHand(m, r) == One(frame = m /\ (pc = "usable" \/ r \in res))

\* The pushes of a message to a row, those its copies can still lead to
\* included.
Potential(m, r) == pushes[m][r] + Waiting(m) + Buffered(m) + InHand(m, r)

PotentialInv ==
  \A m \in Messages, r \in Rows : Potential(m, r) <= 1 + drops + crashes

-----------------------------------------------------------------------------
(* What the parts of the actions do                                        *)

LEMMA EmptyBuffer == <<>> \in Seq(Frames) /\ Range(<<>>) = {}
  BY DEF Range

LEMMA NoFrames == NoFrame \notin Frames /\ Noise \notin Messages
  BY MessageAssumption DEF Frames

LEMMA CountOne ==
  ASSUME NEW f \in [Messages -> [Rows -> Nat]], NEW m \in Messages, NEW r \in Rows
  PROVE  LET g == [f EXCEPT ![m][r] = @ + 1] IN
         /\ g \in [Messages -> [Rows -> Nat]]
         /\ g[m][r] = f[m][r] + 1
         /\ \A n \in Messages, s \in Rows : n # m \/ s # r => g[n][s] = f[n][s]
<1>. DEFINE h == [f[m] EXCEPT ![r] = @ + 1]
            g == [f EXCEPT ![m] = h]
<1>1. f[m] \in [Rows -> Nat] /\ f[m][r] \in Nat
  OBVIOUS
<1>2. h \in [Rows -> Nat] /\ h[r] = f[m][r] + 1 /\ \A s \in Rows : s # r => h[s] = f[m][s]
  BY <1>1
<1>3. [f EXCEPT ![m][r] = @ + 1] = g
  OBVIOUS
<1>. HIDE DEF h
<1>4. g \in [Messages -> [Rows -> Nat]] /\ g[m] = h /\ \A n \in Messages : n # m => g[n] = f[n]
  BY <1>2
<1>. HIDE DEF g
<1>. QED  BY <1>2, <1>3, <1>4

LEMMA HangupTypes ==
  ASSUME TypeOK, Hangup
  PROVE  /\ link' = FALSE /\ unacked' = {}
         /\ pending \subseteq pending' /\ pending' \subseteq pending \cup unacked
         /\ missed' \subseteq Messages /\ pending' \subseteq Messages
         /\ published' = published /\ acked' = acked
<1>1. PICK K \in SUBSET unacked :
        /\ pending' = pending \cup K
        /\ missed' = missed \cup (unacked \ K)
  BY DEF Hangup
<1>. QED  BY <1>1 DEF Hangup, TypeOK

-----------------------------------------------------------------------------
(* Type correctness                                                        *)

LEMMA InitTypeOK == Init => TypeOK
<1>. SUFFICES ASSUME Init  PROVE TypeOK
  OBVIOUS
<1>. USE DEF Init
<1>1. records \in [Messages -> [Rows -> Nat]] /\ pushes \in [Messages -> [Rows -> Nat]]
  BY DEF NoCalls
<1>2. /\ noises \in 0 .. MaxNoise /\ drops \in 0 .. MaxDrops
      /\ crashes \in 0 .. MaxCrashes /\ stops \in 0 .. MaxStops
      /\ fails \in 0 .. MaxFails
  BY BoundAssumption
<1>. QED  BY <1>1, <1>2, EmptyBuffer DEF TypeOK

LEMMA TypeStep ==
  TypeOK /\ RowsInv /\ [Next]_vars => TypeOK'
<1>. SUFFICES ASSUME TypeOK, RowsInv, [Next]_vars  PROVE TypeOK'
  OBVIOUS
<1>. USE DEF TypeOK, Goto, broker, process, history, counts
<1>1. ASSUME NEW m \in Messages, Publish(m)  PROVE TypeOK'  BY <1>1 DEF Publish
<1>2. ASSUME NEW m \in Messages, Send(m)  PROVE TypeOK'
  <2>1. inflight' \in Seq(Frames)  BY <1>2, AppendFrame DEF Send, Frames
  <2>. QED  BY <1>2, <2>1 DEF Send
<1>3. CASE SendNoise
  <2>1. inflight' \in Seq(Frames)  BY <1>3, AppendFrame DEF SendNoise, Frames
  <2>2. noises' \in 0 .. MaxNoise  BY <1>3, BoundAssumption DEF SendNoise
  <2>. QED  BY <1>3, <2>1, <2>2 DEF SendNoise
<1>4. CASE Drop
  <2>1. drops' \in 0 .. MaxDrops  BY <1>4, BoundAssumption DEF Drop
  <2>. QED  BY <1>4, <2>1, HangupTypes DEF Drop
<1>5. CASE Sigint
  BY <1>5, BoundAssumption DEF Sigint
<1>6. CASE Crash
  <2>1. crashes' \in 0 .. MaxCrashes  BY <1>6, BoundAssumption DEF Crash, Die
  <2>. QED  BY <1>6, <2>1, HangupTypes, EmptyBuffer DEF Crash, Die
<1>7. CASE Exit
  BY <1>7, HangupTypes, EmptyBuffer DEF Exit, Die
<1>8. CASE Start  BY <1>8 DEF Start
<1>9. CASE Run  BY <1>9 DEF Run
<1>10. CASE Subscribe
  BY <1>10, EmptyBuffer DEF Subscribe
<1>11. CASE SubscribeFails  BY <1>11 DEF SubscribeFails
<1>12. CASE Read
  <2>1. Head(inflight) \in Frames /\ Tail(inflight) \in Seq(Frames)
    BY <1>12, TailFrame DEF Read
  <2>. QED  BY <1>12, <2>1, NoFrames DEF Read
<1>13. CASE ReadNothing  BY <1>13 DEF ReadNothing
<1>14. CASE ReadThrows
  BY <1>14, EmptyBuffer DEF ReadThrows
<1>15. CASE Release  BY <1>15 DEF Release
<1>16. CASE Ignore  BY <1>16 DEF Ignore
<1>17. ASSUME NEW S \in SUBSET Rows, Lookup(S)  PROVE TypeOK'  BY <1>17 DEF Lookup
<1>18. ASSUME NEW r \in Rows, Record(r)  PROVE TypeOK'
  <2>1. frame \in Messages  BY <1>18 DEF Record, RowsInv
  <2>2. [records EXCEPT ![frame][r] = @ + 1] \in [Messages -> [Rows -> Nat]]
    BY <2>1, CountOne
  <2>3. records' \in [Messages -> [Rows -> Nat]]  BY <1>18, <2>2 DEF Record
  <2>4. fails' \in 0 .. MaxFails  BY <1>18, BoundAssumption DEF Record
  <2>. QED  BY <1>18, <2>3, <2>4, RowAssumption DEF Record
<1>19. CASE Reject  BY <1>19 DEF Reject, PopRow
<1>20. CASE Push
  <2>1. frame \in Messages /\ row \in Rows  BY <1>20 DEF Push, PopRow, RowsInv
  <2>2. pushes' \in [Messages -> [Rows -> Nat]]  BY <1>20, <2>1, CountOne DEF Push, PopRow
  <2>. QED  BY <1>20, <2>2 DEF Push, PopRow
<1>21. CASE Ack  BY <1>21 DEF Ack
<1>22. CASE UNCHANGED vars  BY <1>22 DEF vars
<1>. QED
  BY <1>1, <1>2, <1>3, <1>4, <1>5, <1>6, <1>7, <1>8, <1>9, <1>10, <1>11,
     <1>12, <1>13, <1>14, <1>15, <1>16, <1>17, <1>18, <1>19, <1>20, <1>21,
     <1>22
  DEF Next, WorkerStep, Environment

-----------------------------------------------------------------------------
(* The ack comes after the pushes                                          *)

LEMMA InitRowsInv == Init => RowsInv
  BY DEF Init, RowsInv

LEMMA RowsStep ==
  TypeOK /\ RowsInv /\ [Next]_vars => RowsInv'
<1>. SUFFICES ASSUME TypeOK, RowsInv, [Next]_vars  PROVE RowsInv'
  OBVIOUS
<1>. USE DEF RowsInv, Goto, broker, process, history, counts
<1>1. ASSUME NEW m \in Messages, Publish(m)  PROVE RowsInv'  BY <1>1 DEF Publish
<1>2. ASSUME NEW m \in Messages, Send(m)  PROVE RowsInv'  BY <1>2 DEF Send
<1>3. CASE SendNoise  BY <1>3 DEF SendNoise
<1>4. CASE Drop  BY <1>4 DEF Drop
<1>5. CASE Sigint  BY <1>5 DEF Sigint
<1>6. CASE Crash  BY <1>6 DEF Crash, Die
<1>7. CASE Exit  BY <1>7 DEF Exit, Die
<1>8. CASE Start  BY <1>8 DEF Start
<1>9. CASE Run  BY <1>9 DEF Run
<1>10. CASE Subscribe  BY <1>10 DEF Subscribe
<1>11. CASE SubscribeFails  BY <1>11 DEF SubscribeFails
<1>12. CASE Read  BY <1>12 DEF Read
<1>13. CASE ReadNothing  BY <1>13 DEF ReadNothing
<1>14. CASE ReadThrows  BY <1>14 DEF ReadThrows
<1>15. CASE Release  BY <1>15 DEF Release
<1>16. CASE Ignore
  BY <1>16, MessageAssumption DEF Ignore
<1>17. ASSUME NEW S \in SUBSET Rows, Lookup(S)  PROVE RowsInv'  BY <1>17 DEF Lookup
<1>18. ASSUME NEW r \in Rows, Record(r)  PROVE RowsInv'  BY <1>18 DEF Record
<1>19. CASE Reject  BY <1>19 DEF Reject, PopRow
<1>20. CASE Push  BY <1>20 DEF Push, PopRow
<1>21. CASE Ack  BY <1>21 DEF Ack
<1>22. CASE UNCHANGED vars  BY <1>22 DEF vars
<1>. QED
  BY <1>1, <1>2, <1>3, <1>4, <1>5, <1>6, <1>7, <1>8, <1>9, <1>10, <1>11,
     <1>12, <1>13, <1>14, <1>15, <1>16, <1>17, <1>18, <1>19, <1>20, <1>21,
     <1>22
  DEF Next, WorkerStep, Environment

-----------------------------------------------------------------------------
(* The records match the pushes                                            *)

\* One pair of RecordsMatchPushes.
Between(m, r) == IF frame = m /\ row = r THEN 1 ELSE 0

Matches(m, r) ==
  /\ pushes[m][r] + Between(m, r) <= records[m][r] + fails
  /\ records[m][r] <= pushes[m][r] + Between(m, r) + crashes

LEMMA MatchesAll ==
  RecordsMatchPushes <=> \A m \in Messages, r \in Rows \ BadTokens : Matches(m, r)
  BY DEF RecordsMatchPushes, Matches, Between

LEMMA InitRecords == Init => RecordsMatchPushes
  BY RowAssumption DEF Init, RecordsMatchPushes, NoCalls

\* The steps that have nothing to do with the tables or a row.
QuietStep ==
  /\ UNCHANGED <<records, pushes, crashes, fails>>
  /\ (pc # "push" /\ pc' # "push") \/ UNCHANGED <<row, frame>>

LEMMA QuietOrNot ==
  [Next]_vars =>
    QuietStep \/ Push \/ Reject \/ Crash \/ \E r \in Rows : Record(r)
<1>. SUFFICES ASSUME [Next]_vars  PROVE QuietStep \/ Push \/ Reject \/ Crash \/ \E r \in Rows : Record(r)
  OBVIOUS
<1>. USE DEF QuietStep, Goto, broker, process, history, counts
<1>1. CASE Environment
  BY <1>1 DEF Environment, Publish, Send, SendNoise, Drop, Sigint
<1>2. CASE Start \/ Subscribe \/ SubscribeFails \/ Exit
  BY <1>2 DEF Start, Subscribe, SubscribeFails, Exit, Die
<1>3. CASE Run \/ Read \/ ReadNothing \/ ReadThrows \/ Release \/ Ignore \/ Ack
  BY <1>3 DEF Run, Read, ReadNothing, ReadThrows, Release, Ignore, Ack
<1>4. ASSUME NEW S \in SUBSET Rows, Lookup(S)  PROVE QuietStep
  BY <1>4 DEF Lookup
<1>5. CASE UNCHANGED vars  BY <1>5 DEF vars
<1>. QED  BY <1>1, <1>2, <1>3, <1>4, <1>5 DEF Next, WorkerStep

LEMMA RecordsStep ==
  TypeOK /\ TypeOK' /\ RowsInv /\ RecordsMatchPushes /\ [Next]_vars
    => RecordsMatchPushes'
<1>. SUFFICES ASSUME TypeOK, TypeOK', RowsInv, [Next]_vars,
                     NEW m \in Messages, NEW r \in Rows \ BadTokens, Matches(m, r)
              PROVE  Matches(m, r)'
  BY MatchesAll, MatchesAll' DEF RecordsMatchPushes, Matches, Between
<1>. USE DEF Goto, history, counts
<1>1. /\ pushes[m][r] \in Nat /\ records[m][r] \in Nat
      /\ crashes \in Nat /\ crashes' \in Nat
      /\ fails \in Nat /\ fails' \in Nat
      /\ Between(m, r) \in {0, 1} /\ Between(m, r)' \in {0, 1}
  BY BoundAssumption DEF TypeOK, Between
<1>2. /\ pc # "push" => Between(m, r) = 0
      /\ pc' # "push" => Between(m, r)' = 0
  BY RowAssumption DEF TypeOK, Between
<1>3. CASE QuietStep
  <2>1. Between(m, r)' = Between(m, r)
    BY <1>2, <1>3 DEF QuietStep, Between
  <2>. QED  BY <1>1, <1>3, <2>1 DEF QuietStep, Matches
<1>4. CASE Push
  <2>1. frame \in Messages /\ row \in Rows  BY <1>4 DEF Push, RowsInv
  <2>2. /\ pushes'[frame][row] = pushes[frame][row] + 1
        /\ frame # m \/ row # r => pushes'[m][r] = pushes[m][r]
    BY <1>4, <2>1, CountOne DEF Push, TypeOK
  <2>3. Between(m, r)' = 0 /\ UNCHANGED <<records, crashes, fails>>
    BY <1>2, <1>4 DEF Push, PopRow
  <2>4. Between(m, r) = IF frame = m /\ row = r THEN 1 ELSE 0
    BY DEF Between
  <2>. QED  BY <1>1, <2>2, <2>3, <2>4 DEF Matches
<1>5. CASE Reject
  <2>1. Between(m, r) = 0 /\ Between(m, r)' = 0
    BY <1>2, <1>5 DEF Reject, PopRow, Between
  <2>2. UNCHANGED <<records, pushes, crashes, fails>>  BY <1>5 DEF Reject
  <2>. QED  BY <1>1, <2>1, <2>2 DEF Matches
<1>6. CASE Crash
  <2>1. /\ Between(m, r)' = 0 /\ crashes' = crashes + 1
        /\ UNCHANGED <<records, pushes, fails>>
    BY <1>2, <1>6 DEF Crash, Die
  <2>. QED  BY <1>1, <2>1 DEF Matches
<1>7. ASSUME NEW s \in Rows, Record(s)  PROVE Matches(m, r)'
  <2>1. frame \in Messages /\ pc = "row"  BY <1>7 DEF Record, RowsInv
  <2>2. Between(m, r)' = IF frame = m /\ s = r THEN 1 ELSE 0
    BY <1>7 DEF Record, Between
  <2>3. Between(m, r) = 0 /\ UNCHANGED <<pushes, crashes>>
    BY <1>2, <1>7, <2>1 DEF Record
  <2>4. CASE /\ records' = [records EXCEPT ![frame][s] = @ + 1]
             /\ UNCHANGED fails
    <3>1. /\ records'[frame][s] = records[frame][s] + 1
          /\ frame # m \/ s # r => records'[m][r] = records[m][r]
      BY <2>1, <2>4, CountOne DEF TypeOK
    <3>. QED  BY <1>1, <2>2, <2>3, <2>4, <3>1 DEF Matches
  <2>5. CASE fails' = fails + 1 /\ UNCHANGED records
    BY <1>1, <2>2, <2>3, <2>5 DEF Matches
  <2>. QED  BY <1>7, <2>4, <2>5 DEF Record
<1>. QED  BY <1>3, <1>4, <1>5, <1>6, <1>7, QuietOrNot

-----------------------------------------------------------------------------
(* Where the copies of a message are                                       *)

LEMMA InitLinkInv == Init => LinkInv
<1>. SUFFICES ASSUME Init  PROVE LinkInv
  OBVIOUS
<1>1. inflight = <<>> /\ Range(inflight) = {}  BY EmptyBuffer DEF Init
<1>2. \A m \in Messages : Once(inflight, m)  BY <1>1 DEF Once
<1>. QED  BY <1>1, <1>2 DEF Init, LinkInv

LEMMA LinkStep ==
  TypeOK /\ RowsInv /\ LinkInv /\ [Next]_vars => LinkInv'
<1>. SUFFICES ASSUME TypeOK, RowsInv, LinkInv, [Next]_vars  PROVE LinkInv'
  OBVIOUS
<1>. USE DEF LinkInv, Goto, broker, process, history, counts
<1>1. ASSUME NEW m \in Messages, Publish(m)  PROVE LinkInv'  BY <1>1 DEF Publish
<1>2. ASSUME NEW m \in Messages, Send(m)  PROVE LinkInv'
  <2>0. /\ inflight' = Append(inflight, m)
        /\ inflight \in Seq(Frames) /\ m \in Frames
    BY <1>2 DEF Send, TypeOK, Frames
  <2>1. /\ Range(inflight') = Range(inflight) \cup {m}
        /\ \A n \in Messages : Once(inflight, n) /\ (n = m => n \notin Range(inflight))
                                 => Once(inflight', n)
    BY <2>0, AppendFrame
  <2>2. m \notin Range(inflight)  BY <1>2 DEF Send
  <2>. QED  BY <1>2, <2>1, <2>2 DEF Send
<1>3. CASE SendNoise
  <2>0. /\ inflight' = Append(inflight, Noise)
        /\ inflight \in Seq(Frames) /\ Noise \in Frames
    BY <1>3 DEF SendNoise, TypeOK, Frames
  <2>1. /\ Range(inflight') = Range(inflight) \cup {Noise}
        /\ \A n \in Messages : Once(inflight, n) /\ (n = Noise => n \notin Range(inflight))
                                 => Once(inflight', n)
    BY <2>0, AppendFrame
  <2>. QED  BY <1>3, <2>1, NoFrames DEF SendNoise
<1>4. CASE Drop
  BY <1>4, HangupTypes DEF Drop
<1>5. CASE Sigint  BY <1>5 DEF Sigint
<1>6. CASE Crash
  <2>1. inflight' = <<>> /\ Range(inflight') = {}  BY <1>6, EmptyBuffer DEF Crash, Die
  <2>2. \A m \in Messages : Once(inflight', m)  BY <2>1 DEF Once
  <2>. QED  BY <1>6, <2>1, <2>2, HangupTypes DEF Crash, Die
<1>7. CASE Exit
  <2>1. inflight' = <<>> /\ Range(inflight') = {}  BY <1>7, EmptyBuffer DEF Exit, Die
  <2>2. \A m \in Messages : Once(inflight', m)  BY <2>1 DEF Once
  <2>. QED  BY <1>7, <2>1, <2>2, HangupTypes DEF Exit, Die
<1>8. CASE Start
  BY <1>8 DEF Start, TypeOK
<1>9. CASE Run  BY <1>9 DEF Run
<1>10. CASE Subscribe
  <2>1. inflight' = <<>> /\ Range(inflight') = {}  BY <1>10, EmptyBuffer DEF Subscribe
  <2>2. \A m \in Messages : Once(inflight', m)  BY <2>1 DEF Once
  <2>3. frame = NoFrame /\ NoFrame \notin Messages
    BY <1>10, NoFrames DEF Subscribe, TypeOK, Frames
  <2>4. unacked = {}  BY <1>10 DEF Subscribe
  <2>. QED  BY <1>10, <2>1, <2>2, <2>3, <2>4 DEF Subscribe
<1>11. CASE SubscribeFails  BY <1>11 DEF SubscribeFails
<1>12. CASE Read
  <2>1. /\ Range(inflight) = {frame'} \cup Range(inflight')
        /\ \A n : Once(inflight, n) =>
             Once(inflight', n) /\ (n = frame' => n \notin Range(inflight'))
    BY <1>12, TailFrame DEF Read, TypeOK
  <2>2. unacked \subseteq Messages /\ frame = NoFrame  BY <1>12 DEF Read, TypeOK
  <2>. QED  BY <1>12, <2>1, <2>2, NoFrames DEF Read, Frames
<1>13. CASE ReadNothing  BY <1>13 DEF ReadNothing
<1>14. CASE ReadThrows
  <2>1. inflight' = <<>> /\ Range(inflight') = {}  BY <1>14, EmptyBuffer DEF ReadThrows
  <2>2. \A m \in Messages : Once(inflight', m)  BY <2>1 DEF Once
  <2>. QED  BY <1>14, <2>1, <2>2 DEF ReadThrows
<1>15. CASE Release
  BY <1>15, NoFrames DEF Release, TypeOK, Frames
<1>16. CASE Ignore  BY <1>16 DEF Ignore
<1>17. ASSUME NEW S \in SUBSET Rows, Lookup(S)  PROVE LinkInv'  BY <1>17 DEF Lookup
<1>18. ASSUME NEW r \in Rows, Record(r)  PROVE LinkInv'  BY <1>18 DEF Record
<1>19. CASE Reject  BY <1>19 DEF Reject, PopRow
<1>20. CASE Push  BY <1>20 DEF Push, PopRow
<1>21. CASE Ack
  <2>1. frame \in Messages  BY <1>21 DEF Ack, RowsInv
  <2>2. link => unacked' = unacked \ {frame}  BY <1>21 DEF Ack
  <2>. QED  BY <1>21, <2>1, <2>2, NoFrames DEF Ack, Frames
<1>22. CASE UNCHANGED vars  BY <1>22 DEF vars
<1>. QED
  BY <1>1, <1>2, <1>3, <1>4, <1>5, <1>6, <1>7, <1>8, <1>9, <1>10, <1>11,
     <1>12, <1>13, <1>14, <1>15, <1>16, <1>17, <1>18, <1>19, <1>20, <1>21,
     <1>22
  DEF Next, WorkerStep, Environment

LEMMA AckedStep ==
  TypeOK /\ RowsInv /\ LinkInv /\ AckedInv /\ [Next]_vars => AckedInv'
<1>. SUFFICES ASSUME TypeOK, RowsInv, LinkInv, AckedInv, [Next]_vars  PROVE AckedInv'
  OBVIOUS
<1>. USE DEF AckedInv, Goto, broker, process, history, counts
<1>0. acked \subseteq Messages /\ Noise \notin acked /\ NoFrame \notin acked
  BY MessageAssumption DEF TypeOK
<1>1. ASSUME NEW m \in Messages, Publish(m)  PROVE AckedInv'  BY <1>1 DEF Publish
<1>2. ASSUME NEW m \in Messages, Send(m)  PROVE AckedInv'
  <2>1. Range(inflight') = Range(inflight) \cup {m}
    <3>1. inflight \in Seq(Frames) /\ m \in Frames  BY DEF TypeOK, Frames
    <3>. QED  BY <1>2, <3>1, AppendFrame DEF Send
  <2>. QED  BY <1>2, <2>1 DEF Send
<1>3. CASE SendNoise
  <2>1. Range(inflight') = Range(inflight) \cup {Noise}
    <3>1. inflight \in Seq(Frames) /\ Noise \in Frames  BY DEF TypeOK, Frames
    <3>. QED  BY <1>3, <3>1, AppendFrame DEF SendNoise
  <2>. QED  BY <1>3, <1>0, <2>1 DEF SendNoise
<1>4. CASE Drop
  BY <1>4 DEF Drop, Hangup
<1>5. CASE Crash \/ Exit
  <2>1. Range(inflight') = {} /\ frame' = NoFrame
    BY <1>5, EmptyBuffer DEF Crash, Exit, Die
  <2>. QED  BY <1>5, <1>0, <2>1 DEF Crash, Exit, Die, Hangup
<1>6. CASE Subscribe \/ ReadThrows
  <2>1. Range(inflight') = {}  BY <1>6, EmptyBuffer DEF Subscribe, ReadThrows
  <2>. QED  BY <1>6, <2>1 DEF Subscribe, ReadThrows
<1>7. CASE Read
  <2>1. Range(inflight) = {frame'} \cup Range(inflight')
    BY <1>7, TailFrame DEF Read, TypeOK
  <2>. QED  BY <1>7, <2>1 DEF Read
<1>8. CASE Release
  BY <1>8, <1>0 DEF Release
<1>9. CASE Ack
  <2>1. frame \in Messages  BY <1>9 DEF Ack, RowsInv
  <2>2. CASE link
    <3>1. /\ frame \in unacked \ Range(inflight) /\ frame \notin pending
          /\ frame \in published
      BY <2>1, <2>2 DEF LinkInv
    <3>2. /\ acked' \subseteq acked \cup {frame} /\ unacked' = unacked \ {frame}
          /\ frame' = NoFrame /\ UNCHANGED <<published, pending, inflight>>
      BY <1>9, <2>2 DEF Ack
    <3>3. NoFrame \notin acked'  BY <1>0, <2>1, <3>2, NoFrames DEF Frames
    <3>. QED  BY <3>1, <3>2, <3>3
  <2>3. CASE ~link
    BY <1>9, <1>0, <2>3 DEF Ack
  <2>. QED  BY <2>2, <2>3
<1>10. CASE Sigint \/ Start \/ Run \/ SubscribeFails \/ ReadNothing \/ Ignore \/ Reject \/ Push
  BY <1>10 DEF Sigint, Start, Run, SubscribeFails, ReadNothing, Ignore, Reject, Push, PopRow
<1>11. ASSUME NEW S \in SUBSET Rows, Lookup(S)  PROVE AckedInv'  BY <1>11 DEF Lookup
<1>12. ASSUME NEW r \in Rows, Record(r)  PROVE AckedInv'  BY <1>12 DEF Record
<1>13. CASE UNCHANGED vars  BY <1>13 DEF vars
<1>. QED
  BY <1>1, <1>2, <1>3, <1>4, <1>5, <1>6, <1>7, <1>8, <1>9, <1>10, <1>11, <1>12, <1>13
  DEF Next, WorkerStep, Environment

LEMMA FateStep ==
  TypeOK /\ LinkInv /\ AckedInv /\ FateInv /\ [Next]_vars => FateInv'
<1>. SUFFICES ASSUME TypeOK, LinkInv, AckedInv, FateInv, [Next]_vars  PROVE FateInv'
  OBVIOUS
<1>. USE DEF FateInv, Goto, broker, process, history, counts
<1>1. ASSUME NEW m \in Messages, Publish(m)  PROVE FateInv'  BY <1>1 DEF Publish
<1>2. ASSUME NEW m \in Messages, Send(m)  PROVE FateInv'  BY <1>2 DEF Send
<1>3. CASE SendNoise \/ Sigint  BY <1>3 DEF SendNoise, Sigint
<1>4. CASE Drop \/ Crash \/ Exit
  <2>1. Hangup  BY <1>4 DEF Drop, Crash, Exit, Die
  <2>. QED  BY <2>1 DEF Hangup, LinkInv, AckedInv
<1>5. CASE Ack
  BY <1>5 DEF Ack
<1>6. CASE Start \/ Run \/ Subscribe \/ SubscribeFails \/ Read \/ ReadNothing \/ ReadThrows
  BY <1>6 DEF Start, Run, Subscribe, SubscribeFails, Read, ReadNothing, ReadThrows
<1>7. CASE Release \/ Ignore \/ Reject \/ Push
  BY <1>7 DEF Release, Ignore, Reject, Push, PopRow
<1>8. ASSUME NEW S \in SUBSET Rows, Lookup(S)  PROVE FateInv'  BY <1>8 DEF Lookup
<1>9. ASSUME NEW r \in Rows, Record(r)  PROVE FateInv'  BY <1>9 DEF Record
<1>10. CASE UNCHANGED vars  BY <1>10 DEF vars
<1>. QED
  BY <1>1, <1>2, <1>3, <1>4, <1>5, <1>6, <1>7, <1>8, <1>9, <1>10
  DEF Next, WorkerStep, Environment

-----------------------------------------------------------------------------
(* Second pushes                                                           *)

LEMMA InitPotential == Init => PotentialInv
<1>. SUFFICES ASSUME Init, NEW m \in Messages, NEW r \in Rows
              PROVE  Potential(m, r) <= 1 + drops + crashes
  BY DEF PotentialInv
<1>1. pushes[m][r] = 0 /\ drops = 0 /\ crashes = 0  BY DEF Init, NoCalls
<1>2. Waiting(m) = 1 /\ Buffered(m) = 0 /\ InHand(m, r) = 0
  BY EmptyBuffer DEF Init, Waiting, Buffered, InHand, One
<1>. QED  BY <1>1, <1>2 DEF Potential

LEMMA PotentialStep ==
  TypeOK /\ TypeOK' /\ RowsInv /\ LinkInv /\ PotentialInv /\ [Next]_vars => PotentialInv'
<1>. SUFFICES ASSUME TypeOK, TypeOK', RowsInv, LinkInv, [Next]_vars,
                     NEW m \in Messages, NEW r \in Rows,
                     Potential(m, r) <= 1 + drops + crashes
              PROVE  Potential(m, r)' <= 1 + drops' + crashes'
  BY DEF PotentialInv
<1>. USE DEF Potential, Waiting, Buffered, InHand, One, Goto, broker, process, history, counts
<1>a. /\ pushes[m][r] \in Nat /\ pushes'[m][r] \in Nat
      /\ drops \in Nat /\ drops' \in Nat /\ crashes \in Nat /\ crashes' \in Nat
  BY BoundAssumption DEF TypeOK
<1>1. ASSUME NEW n \in Messages, Publish(n)  PROVE Potential(m, r)' <= 1 + drops' + crashes'
  BY <1>1, <1>a DEF Publish, RowsInv
<1>2. ASSUME NEW n \in Messages, Send(n)  PROVE Potential(m, r)' <= 1 + drops' + crashes'
  <2>1. Range(inflight') = Range(inflight) \cup {n}
    <3>1. inflight \in Seq(Frames) /\ n \in Frames  BY DEF TypeOK, Frames
    <3>. QED  BY <1>2, <3>1, AppendFrame DEF Send
  <2>. QED  BY <1>2, <1>a, <2>1 DEF Send, LinkInv
<1>3. CASE SendNoise
  <2>1. Range(inflight') = Range(inflight) \cup {Noise}
    <3>1. inflight \in Seq(Frames) /\ Noise \in Frames  BY DEF TypeOK, Frames
    <3>. QED  BY <1>3, <3>1, AppendFrame DEF SendNoise
  <2>. QED  BY <1>3, <1>a, <2>1, NoFrames DEF SendNoise
<1>4. CASE Drop
  <2>1. drops' = drops + 1 /\ UNCHANGED <<published, inflight, frame, pc, res, pushes, crashes>>
    BY <1>4, HangupTypes DEF Drop
  <2>2. Waiting(m)' <= Waiting(m) + 1  OBVIOUS
  <2>. QED  BY <1>a, <2>1, <2>2
<1>5. CASE Sigint
  BY <1>5, <1>a DEF Sigint, RowsInv
<1>6. CASE Crash
  <2>1. /\ crashes' = crashes + 1 /\ UNCHANGED <<pushes, drops>>
        /\ Range(inflight') = {} /\ frame' = NoFrame
    BY <1>6, EmptyBuffer DEF Crash, Die
  <2>2. Buffered(m)' = 0 /\ InHand(m, r)' = 0  BY <2>1, NoFrames DEF Frames
  <2>3. Waiting(m)' <= Waiting(m) + 1  OBVIOUS
  <2>. QED  BY <1>a, <2>1, <2>2, <2>3
<1>7. CASE Exit
  <2>1. /\ UNCHANGED <<published, pushes, drops, crashes>>
        /\ Range(inflight') = {} /\ frame' = NoFrame
        /\ pending' \subseteq pending \cup unacked
    BY <1>7, EmptyBuffer, HangupTypes DEF Exit, Die
  <2>2. Buffered(m)' = 0 /\ InHand(m, r)' = 0  BY <2>1, NoFrames DEF Frames
  <2>3. frame = NoFrame  BY <1>7 DEF Exit, Die, TypeOK
  <2>4. m \in unacked => m \in Range(inflight)
    BY <2>3, NoFrames DEF LinkInv, Frames
  <2>5. Waiting(m)' <= Waiting(m) + Buffered(m)  BY <2>1, <2>4
  <2>. QED  BY <1>a, <2>1, <2>2, <2>5
<1>8. CASE Start
  BY <1>8, <1>a DEF Start, RowsInv
<1>9. CASE Run
  BY <1>9, <1>a DEF Run, RowsInv
<1>10. CASE Subscribe
  <2>1. Range(inflight') = {}  BY <1>10, EmptyBuffer DEF Subscribe
  <2>. QED  BY <1>10, <1>a, <2>1 DEF Subscribe, TypeOK
<1>11. CASE SubscribeFails
  BY <1>11, <1>a DEF SubscribeFails, RowsInv
<1>12. CASE Read
  <2>1. /\ Range(inflight) = {frame'} \cup Range(inflight')
        /\ m = frame' => m \notin Range(inflight')
    BY <1>12, TailFrame DEF Read, TypeOK, LinkInv
  <2>2. Buffered(m)' + InHand(m, r)' <= Buffered(m) + InHand(m, r)
    BY <1>12, <2>1 DEF Read, RowsInv
  <2>. QED  BY <1>12, <1>a, <2>2 DEF Read
<1>13. CASE ReadNothing
  BY <1>13, <1>a DEF ReadNothing, RowsInv
<1>14. CASE ReadThrows
  <2>1. Range(inflight') = {}  BY <1>14, EmptyBuffer DEF ReadThrows
  <2>. QED  BY <1>14, <1>a, <2>1 DEF ReadThrows, TypeOK
<1>15. CASE Release
  <2>1. InHand(m, r)' = 0  BY <1>15, NoFrames DEF Release, Frames
  <2>. QED  BY <1>15, <1>a, <2>1 DEF Release
<1>16. CASE Ignore
  BY <1>16, <1>a DEF Ignore, RowsInv
<1>17. ASSUME NEW S \in SUBSET Rows, Lookup(S)  PROVE Potential(m, r)' <= 1 + drops' + crashes'
  BY <1>17, <1>a DEF Lookup, RowsInv
<1>18. ASSUME NEW s \in Rows, Record(s)  PROVE Potential(m, r)' <= 1 + drops' + crashes'
  BY <1>18, <1>a DEF Record, RowsInv
<1>19. CASE Reject
  BY <1>19, <1>a DEF Reject, PopRow, RowsInv
<1>20. CASE Push
  <2>1. frame \in Messages /\ row \in res /\ row \in Rows  BY <1>20 DEF Push, PopRow, RowsInv
  <2>2. /\ pushes'[frame][row] = pushes[frame][row] + 1
        /\ frame # m \/ row # r => pushes'[m][r] = pushes[m][r]
    BY <1>20, <2>1, CountOne DEF Push, PopRow, TypeOK
  <2>3. /\ UNCHANGED <<published, pending, inflight, frame, drops, crashes>>
        /\ res' = res \ {row} /\ pc' # "usable"
    BY <1>20 DEF Push, PopRow
  <2>4. InHand(m, r)' + (IF frame = m /\ row = r THEN 1 ELSE 0) <= InHand(m, r)
    BY <2>1, <2>3
  <2>. QED  BY <1>a, <2>2, <2>3, <2>4
<1>21. CASE Ack
  <2>1. InHand(m, r)' = 0  BY <1>21, NoFrames DEF Ack, Frames
  <2>. QED  BY <1>21, <1>a, <2>1 DEF Ack
<1>22. CASE UNCHANGED vars  BY <1>22, <1>a DEF vars
<1>. QED
  BY <1>1, <1>2, <1>3, <1>4, <1>5, <1>6, <1>7, <1>8, <1>9, <1>10, <1>11,
     <1>12, <1>13, <1>14, <1>15, <1>16, <1>17, <1>18, <1>19, <1>20, <1>21,
     <1>22
  DEF Next, WorkerStep, Environment

LEMMA PotentialBounds ==
  TypeOK /\ PotentialInv => DuplicatesNeedFailure
<1>. SUFFICES ASSUME TypeOK, PotentialInv, NEW m \in Messages, NEW r \in Rows
              PROVE  pushes[m][r] <= 1 + drops + crashes
  BY DEF DuplicatesNeedFailure
<1>1. pushes[m][r] \in Nat /\ drops \in Nat /\ crashes \in Nat
  BY BoundAssumption DEF TypeOK
<1>2. Waiting(m) \in Nat /\ Buffered(m) \in Nat /\ InHand(m, r) \in Nat
  BY DEF Waiting, Buffered, InHand, One
<1>3. Potential(m, r) <= 1 + drops + crashes  BY DEF PotentialInv
<1>. QED  BY <1>1, <1>2, <1>3 DEF Potential

-----------------------------------------------------------------------------
(* The theorems                                                            *)

IInv ==
  /\ TypeOK /\ RowsInv /\ RecordsMatchPushes /\ LinkInv /\ PotentialInv
  /\ AckedInv /\ FateInv

LEMMA InitIInv == Init => IInv
<1>1. Init => AckedInv /\ FateInv  BY DEF Init, AckedInv, FateInv
<1>. QED
  BY <1>1, InitTypeOK, InitRowsInv, InitRecords, InitLinkInv, InitPotential DEF IInv

LEMMA IInvStep == IInv /\ [Next]_vars => IInv'
  BY TypeStep, RowsStep, RecordsStep, LinkStep, PotentialStep, AckedStep, FateStep DEF IInv

LEMMA Inductive == Spec => []IInv
  BY InitIInv, IInvStep, PTL DEF Spec

\* The variables have their types, and the locals of run() are alive exactly
\* where the code uses them, for any topic, register and number of failures.
THEOREM TypeCorrect == Spec => []TypeOK
<1>1. IInv => TypeOK  BY DEF IInv
<1>. QED  BY <1>1, Inductive, PTL

LEMMA OnlyAckAcks == IInv /\ Next /\ acked' # acked => Ack
<1>. SUFFICES ASSUME IInv, Next, acked' # acked  PROVE Ack
  OBVIOUS
<1>. USE DEF broker, process, history, counts
<1>1. ~Environment /\ ~Start /\ ~Subscribe
  BY DEF Environment, Publish, Send, SendNoise, Drop, Sigint, Crash, Die, Hangup,
         Start, Subscribe
<1>2. ~Exit /\ ~Run /\ ~Read /\ ~ReadNothing /\ ~ReadThrows
  BY DEF Exit, Die, Hangup, Run, Read, ReadNothing, ReadThrows
<1>3. ~Release /\ ~Ignore /\ ~Reject /\ ~Push /\ ~SubscribeFails
  BY DEF Release, Ignore, Reject, Push, SubscribeFails
<1>4. (\A S \in SUBSET Rows : ~Lookup(S)) /\ (\A r \in Rows : ~Record(r))
  BY DEF Lookup, Record
<1>. QED  BY <1>1, <1>2, <1>3, <1>4 DEF Next, WorkerStep

\* A message is acknowledged only after a push was queued for every good row
\* its lookup found (Worker.cpp:232-235, 310-347).
THEOREM AcksAfterQueueing == Spec => AckAfterQueue
<1>. DEFINE Good == \A m \in acked' \ acked :
                      /\ m = frame
                      /\ m \notin Garbage \cup AckOnly =>
                           pc = "ack" /\ found \ BadTokens \subseteq queued
<1>1. ASSUME IInv, [Next]_vars  PROVE [Good]_vars
  <2>1. CASE UNCHANGED vars  BY <2>1
  <2>2. CASE Next /\ acked' = acked  BY <2>2
  <2>3. CASE Next /\ acked' # acked
    <3>1. Ack  BY <1>1, <2>3, OnlyAckAcks
    <3>2. pc = "ack" /\ acked' \subseteq acked \cup {frame} /\ res = {}
      BY <1>1, <3>1 DEF Ack, IInv, RowsInv
    <3>. QED  BY <1>1, <3>2 DEF IInv, RowsInv
  <2>. QED  BY <1>1, <2>1, <2>2, <2>3
<1>. QED  BY <1>1, Inductive, PTL DEF Spec, AckAfterQueue

\* Rows of apns_push and pushes queued differ only by the INSERTs that failed,
\* by one row per crash and by the one in progress, for any number of crashes
\* and of failed INSERTs, and in any order (Worker.cpp:303, 334).
THEOREM RecordsAndPushes == Spec => []RecordsMatchPushes
<1>1. IInv => RecordsMatchPushes  BY DEF IInv
<1>. QED  BY <1>1, Inductive, PTL

\* Each broken link and each crash costs at most one more push per message and
\* row, whatever the prefetch window and however often the program is stopped.
THEOREM DuplicatesBounded == Spec => []DuplicatesNeedFailure
<1>1. IInv => DuplicatesNeedFailure  BY PotentialBounds DEF IInv
<1>. QED  BY <1>1, Inductive, PTL

\* Every message has one fate, and the prefetch window holds only what is in
\* the buffer or in hand, whatever breaks or stops how often.
THEOREM NothingVanishes == Spec => []OneFate
<1>1. IInv => OneFate  BY DEF IInv, LinkInv, AckedInv, FateInv, OneFate
<1>. QED  BY <1>1, Inductive, PTL
=============================================================================
