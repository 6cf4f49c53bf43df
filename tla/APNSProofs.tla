----------------------------- MODULE APNSProofs -----------------------------
(***************************************************************************)
(* Proofs about APNS for every set of threads and messages and every       *)
(* maxqueue: type correctness, then one inductive invariant from which the *)
(* safety properties and the refinement of PushChannel follow.             *)
(***************************************************************************)
EXTENDS APNS, TLAPS, FiniteSetTheorems, SequenceTheorems

\* Appending to or taking the head off a sequence without repetitions.
LEMMA AppendRange ==
  ASSUME NEW S, NEW q \in Seq(S), NEW e \in S
  PROVE  /\ Range(Append(q, e)) = Range(q) \cup {e}
         /\ NoRepeats(q) /\ e \notin Range(q) => NoRepeats(Append(q, e))
<1>. DEFINE r == Append(q, e)
<1>1. /\ r \in Seq(S) /\ Len(r) = Len(q) + 1
      /\ \A i \in 1 .. Len(q) : r[i] = q[i]
      /\ r[Len(q) + 1] = e
  OBVIOUS
<1>2. DOMAIN r = 1 .. Len(q) + 1 /\ DOMAIN q = 1 .. Len(q) /\ Len(q) \in Nat
  BY <1>1
<1>. HIDE DEF r
<1>3. Range(r) = Range(q) \cup {e}
  BY <1>1, <1>2 DEF Range
<1>4. ASSUME NoRepeats(q), e \notin Range(q)  PROVE NoRepeats(r)
  BY <1>1, <1>2, <1>4 DEF Range, NoRepeats
<1>. QED  BY <1>3, <1>4 DEF r

LEMMA TailRange ==
  ASSUME NEW S, NEW q \in Seq(S), q # <<>>
  PROVE  /\ Head(q) \in S /\ Tail(q) \in Seq(S)
         /\ Range(q) = {Head(q)} \cup Range(Tail(q))
         /\ NoRepeats(q) => NoRepeats(Tail(q)) /\ Head(q) \notin Range(Tail(q))
<1>. DEFINE r == Tail(q)
<1>1. /\ r \in Seq(S) /\ Len(r) = Len(q) - 1 /\ Len(q) \in Nat \ {0}
      /\ \A i \in 1 .. Len(r) : r[i] = q[i + 1]
      /\ Head(q) = q[1] /\ Head(q) \in S
  OBVIOUS
<1>2. DOMAIN r = 1 .. Len(q) - 1 /\ DOMAIN q = 1 .. Len(q)
  BY <1>1
<1>. HIDE DEF r
<1>3. Range(q) = {Head(q)} \cup Range(r)
  <2>1. ASSUME NEW x \in Range(q), x # q[1]  PROVE x \in Range(r)
    <3>1. PICK i \in 1 .. Len(q) : x = q[i]  BY <1>2 DEF Range
    <3>2. i - 1 \in 1 .. Len(r) /\ r[i - 1] = q[i]  BY <1>1, <2>1, <3>1
    <3>. QED  BY <1>1, <1>2, <3>1, <3>2 DEF Range
  <2>2. ASSUME NEW x \in Range(r)  PROVE x \in Range(q)
    <3>1. PICK i \in 1 .. Len(r) : x = r[i]  BY <1>1, <1>2 DEF Range
    <3>. QED  BY <1>1, <1>2, <3>1 DEF Range
  <2>3. q[1] \in Range(q)  BY <1>1, <1>2 DEF Range
  <2>. QED  BY <1>1, <2>1, <2>2, <2>3
<1>4. ASSUME NoRepeats(q)  PROVE NoRepeats(r) /\ Head(q) \notin Range(r)
  <2>1. \A i \in 1 .. Len(r) : i \in Nat /\ i + 1 \in DOMAIN q /\ r[i] = q[i + 1]
    BY <1>1, <1>2
  <2>2. \A i, j \in 1 .. Len(r) : r[i] = r[j] => i + 1 = j + 1
    BY <1>4, <2>1 DEF NoRepeats
  <2>3. NoRepeats(r)  BY <1>1, <1>2, <2>1, <2>2 DEF NoRepeats
  <2>4. 1 \in DOMAIN q  BY <1>1, <1>2
  <2>5. \A i \in 1 .. Len(r) : r[i] = q[1] => i + 1 = 1
    BY <1>4, <2>1, <2>4 DEF NoRepeats
  <2>6. Head(q) \notin Range(r)
    BY <1>1, <1>2, <2>1, <2>5 DEF Range
  <2>. QED  BY <2>3, <2>6
<1>. QED  BY <1>1, <1>3, <1>4 DEF r

-----------------------------------------------------------------------------
(* The inductive invariant                                                 *)

\* How far the owner got, what that means for _done and for the threads.
Lifecycle ==
  /\ done <=> phase \in {"stop", "gone"}
  /\ phase # "start" => \A t \in Threads : pc[t] # "unborn"
  /\ phase = "gone" => sslThreads = {}
  /\ \A t \in Threads :
       /\ pc[t] \notin {"unborn", "exited"} => t \in sslThreads
       /\ pc[t] \in {"quit", "exited"} => done

\* The local set of the feedback thread is empty outside its copy loop.
FeedbackLocal ==
  EnableFeedback /\ removeRegisterQueue # {} => pc[Feedbacker] = "drain"

IInv ==
  /\ TypeOK /\ Lifecycle /\ InOnePlace /\ Backpressure
  /\ FeedbackLocal /\ FeedbackConserved

LEMMA InitIInv == Init => IInv
<1>. SUFFICES ASSUME Init  PROVE IInv
  OBVIOUS
<1>. USE DEF Init
<1>1. Range(<<>>) = {} /\ NoRepeats(<<>>) /\ <<>> \in Seq(Messages) /\ <<>> \in Seq(Feedbacks)
  BY DEF Range, NoRepeats
<1>2. TypeOK  BY <1>1 DEF TypeOK
<1>3. Lifecycle  BY DEF Lifecycle
<1>4. InOnePlace  BY <1>1 DEF InOnePlace
<1>5. Backpressure  BY FS_EmptySet, QueueAssumption DEF Backpressure
<1>6. FeedbackLocal /\ FeedbackConserved
  BY <1>1 DEF FeedbackLocal, FeedbackConserved
<1>. QED  BY <1>2, <1>3, <1>4, <1>5, <1>6 DEF IInv

LEMMA TypeStep == TypeOK /\ [Next]_vars => TypeOK'
<1>. SUFFICES ASSUME TypeOK, [Next]_vars  PROVE TypeOK'
  OBVIOUS
<1>. USE DEF TypeOK, Goto, ownerVars, pushVars, feedbackVars, Threads
<1>1. ASSUME NEW t \in Threads, StartThread(t)  PROVE TypeOK'
  BY <1>1 DEF StartThread
<1>2. ASSUME NEW t \in Threads, Join(t)  PROVE TypeOK'
  BY <1>2 DEF Join
<1>3. ASSUME NEW m \in Messages, Push(m)  PROVE TypeOK'
  BY <1>3 DEF Push
<1>4. CASE Started  BY <1>4 DEF Started
<1>5. CASE Stop  BY <1>5 DEF Stop
<1>6. CASE Delete
  <2>1. Range(message_q) \subseteq Messages  BY DEF Range
  <2>. QED  BY <1>6, <2>1 DEF Delete
<1>7. ASSUME NEW t \in Threads, Check(t)  PROVE TypeOK'
  BY <1>7 DEF Check
<1>8. ASSUME NEW t \in SslThreads, Dequeue(t)  PROVE TypeOK'
  <2>1. Head(message_q) \in Messages /\ Tail(message_q) \in Seq(Messages)
    BY <1>8, TailRange DEF Dequeue
  <2>. QED  BY <1>8, <2>1 DEF Dequeue
<1>9. ASSUME NEW t \in SslThreads, EndDrain(t)  PROVE TypeOK'
  BY <1>9 DEF EndDrain
<1>10. ASSUME NEW t \in SslThreads, EndRun(t)  PROVE TypeOK'
  BY <1>10 DEF EndRun
<1>11. ASSUME NEW t \in SslThreads, Quit(t)  PROVE TypeOK'
  BY <1>11 DEF Quit
<1>12. ASSUME NEW t \in SslThreads, NEW m \in Messages, Deliver(t, m)  PROVE TypeOK'
  BY <1>12 DEF Deliver
<1>13. CASE EnableFeedback /\ EndFeedback  BY <1>13 DEF EndFeedback
<1>14. CASE EnableFeedback /\ QuitFeedback  BY <1>14 DEF QuitFeedback
<1>15. ASSUME NEW S \in SUBSET Feedbacks, FetchFeedback(S)  PROVE TypeOK'
  BY <1>15 DEF FetchFeedback
<1>16. ASSUME NEW f \in Feedbacks, EnqueueFeedback(f)  PROVE TypeOK'
  BY <1>16 DEF EnqueueFeedback
<1>17. CASE UNCHANGED vars  BY <1>17 DEF vars
<1>. QED
  BY <1>1, <1>2, <1>3, <1>4, <1>5, <1>6, <1>7, <1>8, <1>9, <1>10, <1>11,
     <1>12, <1>13, <1>14, <1>15, <1>16, <1>17
  DEF Next, Owner, SslThread, FeedbackThread

LEMMA LifecycleStep == TypeOK /\ Lifecycle /\ [Next]_vars => Lifecycle'
<1>. SUFFICES ASSUME TypeOK, Lifecycle, [Next]_vars  PROVE Lifecycle'
  OBVIOUS
<1>. USE DEF TypeOK, Lifecycle, Goto, ownerVars, pushVars, feedbackVars
<1>0. EnableFeedback => Feedbacker \in Threads  BY DEF Threads
<1>1. ASSUME NEW t \in Threads, StartThread(t)  PROVE Lifecycle'
  BY <1>1 DEF StartThread
<1>2. ASSUME NEW t \in Threads, Join(t)  PROVE Lifecycle'
  BY <1>2 DEF Join
<1>3. ASSUME NEW m \in Messages, Push(m)  PROVE Lifecycle'
  BY <1>3 DEF Push
<1>4. CASE Started  BY <1>4 DEF Started
<1>5. CASE Stop  BY <1>5 DEF Stop
<1>6. CASE Delete  BY <1>6 DEF Delete
<1>7. ASSUME NEW t \in Threads, Check(t)  PROVE Lifecycle'
  BY <1>7 DEF Check
<1>8. ASSUME NEW t \in Threads, EndDrain(t) \/ EndRun(t) \/ Quit(t)  PROVE Lifecycle'
  BY <1>8 DEF EndDrain, EndRun, Quit
<1>9. ASSUME NEW t \in SslThreads,
             Dequeue(t) \/ (\E m \in Messages : Deliver(t, m))  PROVE Lifecycle'
  BY <1>9 DEF Dequeue, Deliver
<1>10. CASE EnableFeedback /\ (EndFeedback \/ QuitFeedback)
  BY <1>0, <1>10 DEF EndFeedback, QuitFeedback
<1>11. ASSUME NEW S \in SUBSET Feedbacks, EnableFeedback, FetchFeedback(S)  PROVE Lifecycle'
  BY <1>0, <1>11 DEF FetchFeedback
<1>12. ASSUME NEW f \in Feedbacks, EnqueueFeedback(f)  PROVE Lifecycle'
  BY <1>12 DEF EnqueueFeedback
<1>13. CASE UNCHANGED vars  BY <1>13 DEF vars
<1>14. SslThreads \subseteq Threads  BY DEF Threads
<1>. QED
  BY <1>0, <1>1, <1>2, <1>3, <1>4, <1>5, <1>6, <1>7, <1>8, <1>9, <1>10,
     <1>11, <1>12, <1>13, <1>14
  DEF Next, Owner, SslThread, FeedbackThread

\* A message the owner has not pushed yet is nowhere.
LEMMA PlaceStep == TypeOK /\ InOnePlace /\ [Next]_vars => InOnePlace'
<1>. SUFFICES ASSUME TypeOK, InOnePlace, [Next]_vars  PROVE InOnePlace'
  OBVIOUS
<1>. USE DEF Goto, ownerVars, pushVars, feedbackVars
<1>0. ASSUME UNCHANGED pushVars  PROVE InOnePlace'
  BY <1>0 DEF InOnePlace, NoRepeats
<1>1. ASSUME NEW m \in Messages, Push(m)  PROVE InOnePlace'
  <2>1. /\ m \notin Range(message_q) /\ m \notin gateway /\ m \notin dropped
        /\ \A t \in SslThreads : m \notin sendq[t]
    BY <1>1 DEF Push, Accepted, Held
  <2>2. /\ Range(message_q') = Range(message_q) \cup {m}
        /\ NoRepeats(message_q')
    BY <1>1, <2>1, AppendRange DEF Push, TypeOK, InOnePlace
  <2>. QED  BY <1>1, <2>1, <2>2 DEF Push, InOnePlace, NoRepeats
<1>2. CASE Delete
  <2>1. Range(message_q') = {} /\ NoRepeats(message_q')
    BY <1>2 DEF Delete, Range, NoRepeats
  <2>. QED  BY <1>2, <2>1 DEF Delete, InOnePlace, NoRepeats
<1>3. ASSUME NEW t \in SslThreads, Dequeue(t)  PROVE InOnePlace'
  <2>. DEFINE m == Head(message_q)
  <2>1. /\ Range(message_q) = {m} \cup Range(message_q')
        /\ NoRepeats(message_q') /\ m \notin Range(message_q')
    BY <1>3, TailRange DEF Dequeue, TypeOK, InOnePlace
  <2>2. /\ sendq'[t] = sendq[t] \cup {m}
        /\ \A u \in SslThreads \ {t} : sendq'[u] = sendq[u]
    BY <1>3 DEF Dequeue, TypeOK
  <2>. HIDE DEF m
  <2>. QED  BY <1>3, <2>1, <2>2 DEF Dequeue, InOnePlace, NoRepeats
<1>4. ASSUME NEW t \in SslThreads, NEW m \in Messages, Deliver(t, m)
      PROVE InOnePlace'
  <2>1. /\ sendq'[t] = sendq[t] \ {m}
        /\ \A u \in SslThreads \ {t} : sendq'[u] = sendq[u]
    BY <1>4 DEF Deliver, TypeOK
  <2>. QED  BY <1>4, <2>1 DEF Deliver, InOnePlace, NoRepeats
<1>5. ASSUME NEW t \in SslThreads, Quit(t)  PROVE InOnePlace'
  <2>1. /\ sendq'[t] = {}
        /\ \A u \in SslThreads \ {t} : sendq'[u] = sendq[u]
    BY <1>5 DEF Quit, TypeOK
  <2>. QED  BY <1>5, <2>1 DEF Quit, InOnePlace, NoRepeats
<1>6. CASE UNCHANGED vars  BY <1>0, <1>6 DEF vars
<1>. QED
  BY <1>0, <1>1, <1>2, <1>3, <1>4, <1>5, <1>6
  DEF Next, Owner, SslThread, FeedbackThread, StartThread, Join, Started,
      Stop, Check, EndDrain, EndRun, EndFeedback, QuitFeedback,
      FetchFeedback, EnqueueFeedback

LEMMA BackpressureStep == TypeOK /\ Backpressure /\ [Next]_vars => Backpressure'
<1>. SUFFICES ASSUME TypeOK, Backpressure, [Next]_vars, NEW u \in SslThreads
              PROVE IsFiniteSet(sendq'[u]) /\ Cardinality(sendq'[u]) <= MaxQueue
  BY DEF Backpressure
<1>. USE DEF Goto, ownerVars, pushVars, feedbackVars
<1>0. /\ IsFiniteSet(sendq[u]) /\ Cardinality(sendq[u]) \in Nat
      /\ Cardinality(sendq[u]) <= MaxQueue /\ MaxQueue \in Nat
  BY FS_CardinalityType, QueueAssumption DEF Backpressure
<1>1. CASE sendq'[u] = sendq[u]  BY <1>0, <1>1
<1>2. ASSUME NEW t \in SslThreads, Dequeue(t)
      PROVE IsFiniteSet(sendq'[u]) /\ Cardinality(sendq'[u]) <= MaxQueue
  <2>1. CASE u = t
    <3>1. sendq'[u] = sendq[u] \cup {Head(message_q)}
      BY <1>2, <2>1 DEF Dequeue, TypeOK
    <3>2. Cardinality(sendq[u]) < MaxQueue
      BY <1>2, <2>1 DEF Dequeue, HasRoom
    <3>3. /\ IsFiniteSet(sendq'[u])
          /\ \/ Cardinality(sendq'[u]) = Cardinality(sendq[u])
             \/ Cardinality(sendq'[u]) = Cardinality(sendq[u]) + 1
      BY <1>0, <3>1, FS_AddElement
    <3>. QED  BY <1>0, <3>2, <3>3
  <2>2. CASE u # t
    BY <1>1, <1>2, <2>2 DEF Dequeue, TypeOK
  <2>. QED  BY <2>1, <2>2
<1>3. ASSUME NEW t \in SslThreads, NEW m \in Messages, Deliver(t, m)
      PROVE IsFiniteSet(sendq'[u]) /\ Cardinality(sendq'[u]) <= MaxQueue
  <2>1. sendq'[u] \subseteq sendq[u]
    BY <1>3 DEF Deliver, TypeOK
  <2>2. /\ IsFiniteSet(sendq'[u]) /\ Cardinality(sendq'[u]) \in Nat
        /\ Cardinality(sendq'[u]) <= Cardinality(sendq[u])
    BY <1>0, <2>1, FS_Subset, FS_CardinalityType
  <2>. QED  BY <1>0, <2>2
<1>4. ASSUME NEW t \in SslThreads, Quit(t)
      PROVE IsFiniteSet(sendq'[u]) /\ Cardinality(sendq'[u]) <= MaxQueue
  <2>1. sendq'[u] = {} \/ sendq'[u] = sendq[u]
    BY <1>4 DEF Quit, TypeOK
  <2>. QED  BY <1>0, <1>1, <2>1, FS_EmptySet
<1>5. ASSUME UNCHANGED sendq
      PROVE IsFiniteSet(sendq'[u]) /\ Cardinality(sendq'[u]) <= MaxQueue
  BY <1>1, <1>5
<1>. QED
  BY <1>2, <1>3, <1>4, <1>5
  DEF Next, Owner, SslThread, FeedbackThread, StartThread, Join, Started,
      Stop, Check, EndDrain, EndRun, EndFeedback, QuitFeedback, Delete, Push,
      FetchFeedback, EnqueueFeedback, vars

LEMMA FeedbackStep ==
  TypeOK /\ Lifecycle /\ FeedbackLocal /\ FeedbackConserved /\ [Next]_vars
    => FeedbackLocal' /\ FeedbackConserved'
<1>. SUFFICES ASSUME TypeOK, Lifecycle, FeedbackLocal, FeedbackConserved, [Next]_vars
              PROVE FeedbackLocal' /\ FeedbackConserved'
  OBVIOUS
<1>. USE DEF Goto, ownerVars, pushVars, feedbackVars
<1>0. EnableFeedback => Feedbacker \in Threads  BY DEF Threads
<1>1. ASSUME UNCHANGED feedbackVars, phase # "gone" \/ phase' = phase,
             EnableFeedback => \/ pc'[Feedbacker] = pc[Feedbacker]
                               \/ removeRegisterQueue = {}
      PROVE FeedbackLocal' /\ FeedbackConserved'
  BY <1>1 DEF FeedbackLocal, FeedbackConserved, NoRepeats
<1>2. CASE Delete
  BY <1>2 DEF Delete, FeedbackLocal, FeedbackConserved
<1>3. ASSUME NEW S \in SUBSET Feedbacks, EnableFeedback, FetchFeedback(S)
      PROVE FeedbackLocal' /\ FeedbackConserved'
  <2>1. removeRegisterQueue = {}  BY <1>3 DEF FetchFeedback, FeedbackLocal
  <2>2. pc'[Feedbacker] = "drain"  BY <1>0, <1>3 DEF FetchFeedback, TypeOK
  <2>. QED  BY <1>3, <2>1, <2>2 DEF FetchFeedback, FeedbackLocal, FeedbackConserved, NoRepeats
<1>4. ASSUME NEW f \in Feedbacks, EnableFeedback, EnqueueFeedback(f)
      PROVE FeedbackLocal' /\ FeedbackConserved'
  <2>1. FeedbackLocal'  BY <1>4 DEF EnqueueFeedback, FeedbackLocal
  <2>2. Range(feedback_q') = Range(feedback_q) \cup {f}
    BY <1>4, AppendRange DEF EnqueueFeedback, TypeOK
  <2>3. CASE phase # "gone"
    <3>1. NoRepeats(feedback_q')
      BY <1>4, <2>3, AppendRange DEF EnqueueFeedback, TypeOK, FeedbackConserved
    <3>. QED  BY <1>4, <2>1, <2>2, <2>3, <3>1 DEF EnqueueFeedback, FeedbackConserved
  <2>4. CASE phase = "gone"
    BY <1>4, <2>1, <2>4 DEF EnqueueFeedback, FeedbackConserved
  <2>. QED  BY <2>3, <2>4
<1>5. ASSUME EnableFeedback, EndFeedback \/ QuitFeedback \/ Check(Feedbacker)
      PROVE FeedbackLocal' /\ FeedbackConserved'
  <2>1. removeRegisterQueue = {}
    BY <1>5 DEF EndFeedback, QuitFeedback, Check, FeedbackLocal
  <2>. QED  BY <1>1, <1>5, <2>1 DEF EndFeedback, QuitFeedback, Check
<1>6. ASSUME NEW t \in Threads, StartThread(t)
      PROVE FeedbackLocal' /\ FeedbackConserved'
  <2>1. CASE ~EnableFeedback
    BY <1>1, <1>6, <2>1 DEF StartThread
  <2>2. CASE EnableFeedback /\ t = Feedbacker
    BY <1>1, <1>6, <2>2 DEF StartThread, FeedbackLocal
  <2>3. CASE t # Feedbacker
    BY <1>0, <1>1, <1>6, <2>3 DEF StartThread, TypeOK
  <2>. QED  BY <2>1, <2>2, <2>3
<1>7. ASSUME NEW t \in SslThreads, SslThread(t)
      PROVE FeedbackLocal' /\ FeedbackConserved'
  <2>1. /\ EnableFeedback => pc'[Feedbacker] = pc[Feedbacker]
        /\ phase' = phase /\ UNCHANGED feedbackVars
    BY <1>0, <1>7, ThreadAssumption DEF SslThread, Check, Dequeue, EndDrain, EndRun,
       Quit, Deliver, TypeOK
  <2>. QED  BY <1>1, <2>1
<1>8. ASSUME UNCHANGED <<feedbackVars, pc>>, phase # "gone" \/ phase' = phase
      PROVE FeedbackLocal' /\ FeedbackConserved'
  BY <1>1, <1>8
<1>9. CASE UNCHANGED vars  BY <1>8, <1>9 DEF vars
<1>10. CASE Owner
  BY <1>2, <1>6, <1>8, <1>10 DEF Owner, Join, Started, Stop, Push
<1>11. CASE EnableFeedback /\ FeedbackThread
  BY <1>3, <1>4, <1>5, <1>11 DEF FeedbackThread
<1>. QED  BY <1>7, <1>9, <1>10, <1>11 DEF Next

-----------------------------------------------------------------------------
(* The theorems                                                            *)

LEMMA IInvStep == IInv /\ [Next]_vars => IInv'
  BY TypeStep, LifecycleStep, PlaceStep, BackpressureStep, FeedbackStep DEF IInv

LEMMA Invariance == Spec => []IInv
  BY InitIInv, IInvStep, PTL DEF Spec

\* Type correctness: every variable stays in its domain.
THEOREM TypeCorrect == Spec => []TypeOK
<1>1. IInv => TypeOK  BY DEF IInv
<1>. QED  BY <1>1, Invariance, PTL

\* A message is in the queue, in one controller, at the gateway or dropped,
\* and nowhere twice, for any number of threads (APNS.cpp:247).
THEOREM AtMostOnce == Spec => []InOnePlace
<1>1. IInv => InOnePlace  BY DEF IInv
<1>. QED  BY <1>1, Invariance, PTL

\* No controller ever holds more than maxqueue messages (APNS.cpp:247).
THEOREM QueueBound == Spec => []Backpressure
<1>1. IInv => Backpressure  BY DEF IInv
<1>. QED  BY <1>1, Invariance, PTL

\* stop() joins every thread before the object is deleted (APNS.cpp:198-208).
THEOREM JoinBeforeDelete == Spec => []NoUseAfterDelete
<1>1. IInv => NoUseAfterDelete
  BY DEF IInv, Lifecycle, NoUseAfterDelete, TypeOK
<1>. QED  BY <1>1, Invariance, PTL

\* Feedback messages are neither lost nor duplicated before the delete
\* (APNS.cpp:286-293).
THEOREM FeedbackKept == Spec => []FeedbackConserved
<1>1. IInv => FeedbackConserved  BY DEF IInv
<1>. QED  BY <1>1, Invariance, PTL

-----------------------------------------------------------------------------
(* APNS implements PushChannel                                             *)

LEMMA InitChannel == Init => Channel!Init
  BY DEF Init, Channel!Init, Accepted, Held, Range

\* What each step that shows is to the channel.
LEMMA PushAccepts ==
  ASSUME IInv, NEW m \in Messages, Push(m)  PROVE Channel!Accept(m)
<1>1. TypeOK /\ Lifecycle  BY DEF IInv
<1>2. Range(message_q') = Range(message_q) \cup {m}
  BY <1>1, AppendRange DEF Push, TypeOK
<1>. QED
  BY <1>1, <1>2 DEF Push, ownerVars, Accepted, Held, Lifecycle, Channel!Accept

LEMMA StopCloses == ASSUME IInv, Stop  PROVE Channel!Close
  BY DEF IInv, Stop, pushVars, Accepted, Held, Lifecycle, Channel!Close

LEMMA DeleteDiscards ==
  ASSUME IInv, Delete
  PROVE  Range(message_q) \in SUBSET Messages /\ Channel!Discard(Range(message_q))
<1>1. TypeOK /\ Lifecycle /\ InOnePlace  BY DEF IInv
<1>2. Range(message_q') = {} /\ Range(message_q) \in SUBSET Messages
  BY <1>1 DEF Delete, TypeOK, Range
<1>3. Channel!Discard(Range(message_q))
  BY <1>1, <1>2 DEF Delete, Accepted, Held, Lifecycle, InOnePlace,
     Channel!Discard, Channel!InTransit
<1>. QED  BY <1>2, <1>3

LEMMA DequeueHides ==
  ASSUME IInv, NEW t \in SslThreads, Dequeue(t)  PROVE UNCHANGED Channel!chanVars
<1>. DEFINE m == Head(message_q)
<1>0. TypeOK  BY DEF IInv
<1>1. Range(message_q) = {m} \cup Range(message_q')
  BY <1>0, TailRange DEF Dequeue, TypeOK
<1>2. /\ sendq'[t] = sendq[t] \cup {m}
      /\ \A u \in SslThreads \ {t} : sendq'[u] = sendq[u]
  BY <1>0 DEF Dequeue, TypeOK
<1>. HIDE DEF m
<1>3. Held' = Held \cup {m}  BY <1>2 DEF Held
<1>. QED  BY <1>1, <1>3 DEF Dequeue, ownerVars, Accepted, Channel!chanVars

LEMMA DeliverDelivers ==
  ASSUME IInv, NEW t \in SslThreads, NEW m \in Messages, Deliver(t, m)
  PROVE  Channel!Deliver(m)
<1>0. TypeOK /\ InOnePlace  BY DEF IInv
<1>1. /\ sendq'[t] = sendq[t] \ {m}
      /\ \A u \in SslThreads \ {t} : sendq'[u] = sendq[u]
  BY <1>0 DEF Deliver, TypeOK
<1>2. m \in Held /\ Held' \cup {m} = Held
  BY <1>1 DEF Held, Deliver
<1>3. Accepted' = Accepted
  BY <1>2 DEF Accepted, Deliver
<1>4. m \notin gateway /\ m \notin dropped
  BY <1>0 DEF InOnePlace, Deliver
<1>. QED
  BY <1>2, <1>3, <1>4
  DEF Deliver, ownerVars, Accepted, Channel!Deliver, Channel!InTransit

LEMMA QuitDiscards ==
  ASSUME IInv, NEW t \in SslThreads, Quit(t)
  PROVE  sendq[t] \in SUBSET Messages /\ Channel!Discard(sendq[t])
<1>0. TypeOK /\ Lifecycle /\ InOnePlace  BY DEF IInv
<1>1. /\ sendq'[t] = {}
      /\ \A u \in SslThreads \ {t} : sendq'[u] = sendq[u]
  BY <1>0 DEF Quit, TypeOK
<1>2. Held = Held' \cup sendq[t]
  BY <1>1 DEF Held
<1>3. Accepted' = Accepted
  BY <1>2 DEF Accepted, Quit
<1>4. done /\ done' = done
  BY <1>0 DEF Quit, ownerVars, Lifecycle, Threads
<1>5. sendq[t] \in SUBSET Messages /\ sendq[t] \subseteq Channel!InTransit
  BY <1>0, <1>2 DEF TypeOK, InOnePlace, Channel!InTransit, Accepted
<1>6. Channel!Discard(sendq[t])
  BY <1>3, <1>4, <1>5 DEF Quit, Channel!Discard
<1>. QED  BY <1>5, <1>6

\* The steps of which nothing shows.
LEMMA NothingShows ==
  ASSUME UNCHANGED <<done, pushVars>>  PROVE UNCHANGED Channel!chanVars
  BY DEF pushVars, Accepted, Held, Channel!chanVars

LEMMA ChannelStep == IInv /\ [Next]_vars => [Channel!Next]_(Channel!chanVars)
<1>. SUFFICES ASSUME IInv, [Next]_vars
              PROVE [Channel!Next]_(Channel!chanVars)
  OBVIOUS
<1>. USE DEF ownerVars
<1>1. ASSUME NEW m \in Messages, Push(m)  PROVE Channel!Next
  BY <1>1, PushAccepts DEF Channel!Next
<1>2. CASE Stop  BY <1>2, StopCloses DEF Channel!Next
<1>3. CASE Delete  BY <1>3, DeleteDiscards DEF Channel!Next
<1>4. ASSUME NEW t \in SslThreads, NEW m \in Messages, Deliver(t, m)
      PROVE Channel!Next
  BY <1>4, DeliverDelivers DEF Channel!Next
<1>5. ASSUME NEW t \in SslThreads, Quit(t)  PROVE Channel!Next
  BY <1>5, QuitDiscards DEF Channel!Next
<1>6. CASE UNCHANGED vars  BY <1>6, NothingShows DEF vars, pushVars
<1>7. CASE Owner
  BY <1>1, <1>2, <1>3, <1>7, NothingShows DEF Owner, StartThread, Join, Started
<1>8. ASSUME NEW t \in SslThreads, SslThread(t)
      PROVE [Channel!Next]_(Channel!chanVars)
  BY <1>4, <1>5, <1>8, DequeueHides, NothingShows DEF SslThread, Check, EndDrain, EndRun
<1>9. CASE EnableFeedback /\ FeedbackThread
  BY <1>9, NothingShows DEF FeedbackThread, Check, EndFeedback, QuitFeedback,
     FetchFeedback, EnqueueFeedback
<1>. QED  BY <1>6, <1>7, <1>8, <1>9 DEF Next

\* The threads, the queue and the controllers together behave as one volatile
\* at-most-once channel: nothing is sent twice or from nowhere, nothing is
\* lost before stop(), nothing is accepted after it.
THEOREM ImplementsChannel == Spec => ChannelSpec
  BY InitChannel, ChannelStep, Invariance, PTL DEF Spec, ChannelSpec, Channel!Spec

-----------------------------------------------------------------------------
(* The shutdown takes a finite number of steps                             *)

LEMMA WindsDownParts ==
  ASSUME /\ ToCome' \subseteq ToCome /\ DOMAIN message_q' \subseteq DOMAIN message_q
         /\ ToHandOver' \subseteq ToHandOver /\ ToCopy' \subseteq ToCopy
         /\ sslThreads' \subseteq sslThreads /\ ToDelete' \subseteq ToDelete,
         \/ ToCome' # ToCome \/ DOMAIN message_q' # DOMAIN message_q
         \/ ToHandOver' # ToHandOver \/ ToCopy' # ToCopy
         \/ sslThreads' # sslThreads \/ ToDelete' # ToDelete
  PROVE  WindsDown
<1>1. /\ DOMAIN Left = 1 .. 6 /\ Left[1] = ToCome /\ Left[2] = DOMAIN message_q
      /\ Left[3] = ToHandOver /\ Left[4] = ToCopy /\ Left[5] = sslThreads
      /\ Left[6] = ToDelete
  BY DEF Left
<1>2. /\ Left'[1] = ToCome' /\ Left'[2] = DOMAIN message_q' /\ Left'[3] = ToHandOver'
      /\ Left'[4] = ToCopy' /\ Left'[5] = sslThreads' /\ Left'[6] = ToDelete'
  BY DEF Left
<1>3. Left' # Left  BY <1>1, <1>2
<1>4. ASSUME NEW i \in 1 .. 6  PROVE Left'[i] \subseteq Left[i]
  <2>1. i = 1 \/ i = 2 \/ i = 3 \/ i = 4 \/ i = 5 \/ i = 6  OBVIOUS
  <2>. QED  BY <1>1, <1>2, <2>1
<1>. QED  BY <1>1, <1>3, <1>4 DEF WindsDown

\* A thread that moves on leaves a stage behind.
LEMMA ComesOut ==
  ASSUME TypeOK, NEW t \in Threads, NEW p, Goto(t, p),
         Stage(t, p) \in 1 .. 4, Stage(t, pc[t]) < Stage(t, p)
  PROVE  ToCome' \subseteq ToCome /\ ToCome' # ToCome
<1>1. pc'[t] = p /\ \A u \in Threads : u # t => pc'[u] = pc[u]
  BY DEF TypeOK, Goto
<1>2. \A u \in Threads : Stage(u, pc[u]) \in 0 .. 4  BY DEF Stage
<1>3. ASSUME NEW e \in ToCome'  PROVE e \in ToCome
  <2>1. e \in Threads \X (1 .. 4) /\ e[2] > Stage(e[1], pc'[e[1]])
    BY <1>3 DEF ToCome
  <2>2. e[1] \in Threads /\ e[2] \in 1 .. 4  BY <2>1
  <2>3. e[2] > Stage(e[1], pc[e[1]])
    <3>1. CASE e[1] = t  BY <1>1, <1>2, <2>1, <2>2, <3>1
    <3>2. CASE e[1] # t  BY <1>1, <2>1, <2>2, <3>2
    <3>. QED  BY <3>1, <3>2
  <2>. QED  BY <2>1, <2>3 DEF ToCome
<1>4. <<t, Stage(t, p)>> \in ToCome /\ <<t, Stage(t, p)>> \notin ToCome'
  <2>1. <<t, Stage(t, p)>> \in Threads \X (1 .. 4)  OBVIOUS
  <2>2. <<t, Stage(t, p)>>[1] = t /\ <<t, Stage(t, p)>>[2] = Stage(t, p)  OBVIOUS
  <2>3. ~(Stage(t, p) > Stage(t, p))  OBVIOUS
  <2>. QED  BY <1>1, <2>1, <2>2, <2>3 DEF ToCome
<1>. QED  BY <1>3, <1>4

LEMMA StopAdvances == IInv /\ done /\ Next => WindsDown
<1>. SUFFICES ASSUME IInv, done, Next  PROVE WindsDown
  OBVIOUS
<1>. USE DEF Goto, ownerVars, pushVars, feedbackVars
<1>0. /\ TypeOK /\ Lifecycle /\ InOnePlace /\ FeedbackConserved
      /\ phase \in {"stop", "gone"} /\ SslThreads \subseteq Threads
      /\ EnableFeedback => Feedbacker \in Threads
      /\ Feedbacker \notin SslThreads
  BY ThreadAssumption DEF IInv, Lifecycle, Threads
<1>1. ASSUME NEW t \in Threads, NEW p, Goto(t, p),
             Stage(t, p) \in 1 .. 4, Stage(t, pc[t]) < Stage(t, p),
             UNCHANGED <<ownerVars, message_q, feedback_q>>, ToHandOver' \subseteq ToHandOver
      PROVE WindsDown
  <2>1. ToCopy' = ToCopy /\ ToDelete' = ToDelete  BY <1>1 DEF ToCopy, ToDelete
  <2>2. ToCome' \subseteq ToCome /\ ToCome' # ToCome  BY <1>0, <1>1, ComesOut
  <2>. QED  BY <1>1, <2>1, <2>2, WindsDownParts
<1>2. ASSUME NEW t \in SslThreads, Check(t) \/ EndDrain(t) \/ EndRun(t)
      PROVE WindsDown
  <2>1. ToHandOver' = ToHandOver
    BY <1>2 DEF Check, EndDrain, EndRun, ToHandOver, Held
  <2>2. t # Feedbacker /\ t \in Threads  BY <1>0
  <2>3. PICK p \in {"quit", "run", "check"} :
          Goto(t, p) /\ Stage(t, p) \in 1 .. 4 /\ Stage(t, pc[t]) < Stage(t, p)
    <3>1. CASE Check(t)
      <4>1. Goto(t, "quit") /\ Stage(t, "quit") = 3 /\ Stage(t, pc[t]) = 2
        BY <3>1 DEF Check, Stage
      <4>. QED  BY <4>1
    <3>2. CASE EndDrain(t)
      <4>1. Goto(t, "run") /\ Stage(t, "run") = 1 /\ Stage(t, pc[t]) = 0
        BY <2>2, <3>2 DEF EndDrain, Stage
      <4>. QED  BY <4>1
    <3>3. CASE EndRun(t)
      <4>1. Goto(t, "check") /\ Stage(t, "check") = 2 /\ Stage(t, pc[t]) = 1
        BY <2>2, <3>3 DEF EndRun, Stage
      <4>. QED  BY <4>1
    <3>. QED  BY <1>2, <3>1, <3>2, <3>3
  <2>. QED  BY <1>1, <1>2, <2>1, <2>2, <2>3 DEF Check, EndDrain, EndRun
<1>3. ASSUME EnableFeedback, Check(Feedbacker) \/ EndFeedback \/ QuitFeedback
      PROVE WindsDown
  <2>1. ToHandOver' = ToHandOver
    BY <1>3 DEF Check, EndFeedback, QuitFeedback, ToHandOver, Held
  <2>2. PICK p \in {"quit", "check", "exited"} :
          /\ Goto(Feedbacker, p) /\ Stage(Feedbacker, p) \in 1 .. 4
          /\ Stage(Feedbacker, pc[Feedbacker]) < Stage(Feedbacker, p)
    <3>1. CASE Check(Feedbacker)
      <4>1. /\ Goto(Feedbacker, "quit") /\ Stage(Feedbacker, "quit") = 3
            /\ Stage(Feedbacker, pc[Feedbacker]) = 2
        BY <3>1 DEF Check, Stage
      <4>. QED  BY <4>1
    <3>2. CASE EndFeedback
      <4>1. /\ Goto(Feedbacker, "check") /\ Stage(Feedbacker, "check") = 2
            /\ Stage(Feedbacker, pc[Feedbacker]) = 1
        BY <3>2 DEF EndFeedback, Stage
      <4>. QED  BY <4>1
    <3>3. CASE QuitFeedback
      <4>1. /\ Goto(Feedbacker, "exited") /\ Stage(Feedbacker, "exited") = 4
            /\ Stage(Feedbacker, pc[Feedbacker]) = 3
        BY <3>3 DEF QuitFeedback, Stage
      <4>. QED  BY <4>1
    <3>. QED  BY <1>3, <3>1, <3>2, <3>3
  <2>. QED  BY <1>0, <1>1, <1>3, <2>1, <2>2 DEF Check, EndFeedback, QuitFeedback
<1>4. ASSUME NEW S \in SUBSET Feedbacks, EnableFeedback, FetchFeedback(S)
      PROVE WindsDown
  <2>1. ToHandOver' = ToHandOver  BY <1>4 DEF FetchFeedback, ToHandOver, Held
  <2>2. /\ Stage(Feedbacker, "drain") \in 1 .. 4
        /\ Stage(Feedbacker, pc[Feedbacker]) < Stage(Feedbacker, "drain")
    BY <1>4 DEF FetchFeedback, Stage
  <2>. QED  BY <1>0, <1>1, <1>4, <2>1, <2>2 DEF FetchFeedback
<1>5. ASSUME NEW t \in SslThreads, Quit(t)  PROVE WindsDown
  <2>1. Held' \subseteq Held  BY <1>0, <1>5 DEF Quit, Held, TypeOK
  <2>2. ToHandOver' \subseteq ToHandOver  BY <1>5, <2>1 DEF Quit, ToHandOver
  <2>3. /\ Stage(t, "exited") \in 1 .. 4
        /\ Stage(t, pc[t]) < Stage(t, "exited")
    BY <1>5 DEF Quit, Stage
  <2>. QED  BY <1>0, <1>1, <1>5, <2>2, <2>3 DEF Quit
<1>6. ASSUME NEW t \in SslThreads, Dequeue(t)  PROVE WindsDown
  <2>1. /\ Range(message_q) = {Head(message_q)} \cup Range(message_q')
        /\ DOMAIN message_q' \subseteq DOMAIN message_q
        /\ DOMAIN message_q' # DOMAIN message_q
    <3>1. /\ Len(message_q) \in Nat \ {0} /\ DOMAIN message_q = 1 .. Len(message_q)
          /\ DOMAIN message_q' = 1 .. Len(message_q) - 1
      BY <1>0, <1>6 DEF Dequeue, TypeOK
    <3>2. 1 .. Len(message_q) - 1 \subseteq 1 .. Len(message_q)  BY <3>1
    <3>3. Len(message_q) \in 1 .. Len(message_q) /\ Len(message_q) \notin 1 .. Len(message_q) - 1
      BY <3>1
    <3>. QED  BY <1>0, <1>6, <3>1, <3>2, <3>3, TailRange DEF Dequeue, TypeOK
  <2>2. Held' \subseteq Held \cup {Head(message_q)}
    BY <1>0, <1>6 DEF Dequeue, Held, TypeOK
  <2>3. ToHandOver' \subseteq ToHandOver  BY <2>1, <2>2 DEF ToHandOver
  <2>4. UNCHANGED <<ToCome, ToCopy, sslThreads, ToDelete>>
    BY <1>6 DEF Dequeue, ToCome, ToCopy, ToDelete
  <2>. QED  BY <2>1, <2>3, <2>4, WindsDownParts
<1>7. ASSUME NEW t \in SslThreads, NEW m \in Messages, Deliver(t, m)
      PROVE WindsDown
  <2>1. /\ sendq'[t] = sendq[t] \ {m}
        /\ \A u \in SslThreads \ {t} : sendq'[u] = sendq[u]
    BY <1>0, <1>7 DEF Deliver, TypeOK
  <2>2. Held' \subseteq Held /\ m \in Held  BY <1>7, <2>1 DEF Deliver, Held
  <2>3. m \notin Range(message_q) /\ \A u \in SslThreads \ {t} : m \notin sendq[u]
    BY <1>0, <1>7 DEF Deliver, InOnePlace
  <2>4. m \notin Held'  BY <2>1, <2>3 DEF Held
  <2>5. ToHandOver' \subseteq ToHandOver /\ ToHandOver' # ToHandOver
    BY <1>7, <2>2, <2>3, <2>4 DEF Deliver, ToHandOver
  <2>6. UNCHANGED <<ToCome, DOMAIN message_q, ToCopy, sslThreads, ToDelete>>
    BY <1>7 DEF Deliver, ToCome, ToCopy, ToDelete
  <2>. QED  BY <2>5, <2>6, WindsDownParts
<1>8. ASSUME NEW f \in Feedbacks, EnableFeedback, EnqueueFeedback(f)
      PROVE WindsDown
  <2>1. phase = "stop"
    BY <1>0, <1>8 DEF EnqueueFeedback, Lifecycle
  <2>2. /\ Range(feedback_q') = Range(feedback_q) \cup {f}
        /\ f \notin Range(feedback_q)
    BY <1>0, <1>8, <2>1, AppendRange DEF EnqueueFeedback, TypeOK, FeedbackConserved
  <2>3. ToCopy' \subseteq ToCopy /\ ToCopy' # ToCopy
    BY <1>8, <2>1, <2>2 DEF EnqueueFeedback, ToCopy
  <2>4. UNCHANGED <<ToCome, DOMAIN message_q, ToHandOver, sslThreads, ToDelete>>
    BY <1>8 DEF EnqueueFeedback, ToCome, ToHandOver, Held, ToDelete
  <2>. QED  BY <2>3, <2>4, WindsDownParts
<1>9. ASSUME NEW t \in Threads, Join(t)  PROVE WindsDown
  <2>1. UNCHANGED <<ToCome, DOMAIN message_q, ToHandOver, ToCopy, ToDelete>>
    BY <1>9 DEF Join, ToCome, ToHandOver, Held, ToCopy, ToDelete
  <2>2. sslThreads' \subseteq sslThreads /\ sslThreads' # sslThreads
    BY <1>9 DEF Join
  <2>. QED  BY <2>1, <2>2, WindsDownParts
<1>10. CASE Delete
  <2>1. DOMAIN message_q' = {} /\ Range(message_q') = {}  BY <1>10 DEF Delete, Range
  <2>2. ToHandOver' \subseteq ToHandOver
    BY <1>10, <2>1 DEF Delete, ToHandOver, Held
  <2>3. ToCopy' \subseteq ToCopy /\ ToDelete = {"delete"} /\ ToDelete' = {}
    BY <1>10 DEF Delete, ToCopy, ToDelete
  <2>4. UNCHANGED <<ToCome, sslThreads>>  BY <1>10 DEF Delete, ToCome
  <2>. QED  BY <2>1, <2>2, <2>3, <2>4, WindsDownParts
<1>11. ~\E t \in Threads : StartThread(t)  BY <1>0 DEF StartThread
<1>12. ~Started /\ ~Stop /\ ~\E m \in Messages : Push(m)
  BY <1>0 DEF Started, Stop, Push
<1>. QED
  BY <1>2, <1>3, <1>4, <1>5, <1>6, <1>7, <1>8, <1>9, <1>10, <1>11, <1>12
  DEF Next, Owner, SslThread, FeedbackThread

LEMMA RangeFinite ==
  ASSUME NEW f, IsFiniteSet(DOMAIN f)  PROVE IsFiniteSet(Range(f))
<1>. DEFINE g == [x \in DOMAIN f |-> f[x]]
<1>1. g \in Surjection(DOMAIN f, Range(f))  BY DEF Surjection, Range
<1>. QED  BY <1>1, FS_Surjection

LEMMA LeftFinite ==
  ASSUME TypeOK, Backpressure, IsFiniteSet(Feedbacks)
  PROVE  \A i \in DOMAIN Left : IsFiniteSet(Left[i])
<1>1. IsFiniteSet(Threads)
  BY ThreadAssumption, FS_EmptySet, FS_Singleton, FS_Union DEF Threads
<1>2. IsFiniteSet(ToCome)
  <2>1. 1 \in Int /\ 4 \in Int  OBVIOUS
  <2>2. IsFiniteSet(1 .. 4)  BY <2>1, FS_Interval
  <2>3. IsFiniteSet(Threads \X (1 .. 4))  BY <1>1, <2>2, FS_Product
  <2>4. ToCome \in SUBSET (Threads \X (1 .. 4))  BY DEF ToCome
  <2>. QED  BY <2>3, <2>4, FS_Subset
<1>3. IsFiniteSet(DOMAIN message_q) /\ IsFiniteSet(Range(message_q))
  <2>1. DOMAIN message_q = 1 .. Len(message_q) /\ Len(message_q) \in Nat  BY DEF TypeOK
  <2>2. IsFiniteSet(DOMAIN message_q)  BY <2>1, FS_Interval
  <2>. QED  BY <2>2, RangeFinite
<1>4. IsFiniteSet(ToHandOver)
  <2>1. IsFiniteSet(Held)
    <3>1. DOMAIN sendq = SslThreads /\ Held = UNION Range(sendq)
      BY DEF TypeOK, Held, Range
    <3>2. IsFiniteSet(Range(sendq))  BY <3>1, ThreadAssumption, RangeFinite
    <3>3. \A S \in Range(sendq) : IsFiniteSet(S)  BY <3>1 DEF Backpressure, Range
    <3>. QED  BY <3>1, <3>2, <3>3, FS_UNION
  <2>. QED  BY <1>3, <2>1, FS_Union DEF ToHandOver
<1>5. IsFiniteSet(ToCopy) /\ IsFiniteSet(ToDelete)
  BY FS_EmptySet, FS_Singleton, FS_Difference DEF ToCopy, ToDelete
<1>6. IsFiniteSet(sslThreads)  BY <1>1, FS_Subset DEF TypeOK
<1>7. /\ DOMAIN Left = 1 .. 6 /\ Left[1] = ToCome /\ Left[2] = DOMAIN message_q
      /\ Left[3] = ToHandOver /\ Left[4] = ToCopy /\ Left[5] = sslThreads
      /\ Left[6] = ToDelete
  BY DEF Left
<1>8. ASSUME NEW i \in 1 .. 6  PROVE IsFiniteSet(Left[i])
  <2>1. i = 1 \/ i = 2 \/ i = 3 \/ i = 4 \/ i = 5 \/ i = 6  OBVIOUS
  <2>. QED  BY <1>2, <1>3, <1>4, <1>5, <1>6, <1>7, <2>1
<1>. QED  BY <1>7, <1>8

\* Once stop() was called only so many steps are left, and each takes
\* something off them: no full controller, waiting message or report starts a
\* thread on another round (APNS.cpp:198-208, 241, 280).  The gateway's reports
\* have to be finitely many for it, as one fetch may still bring them all.
THEOREM ShutdownIsFinite ==
  ASSUME IsFiniteSet(Feedbacks)
  PROVE  Spec => [](\A i \in DOMAIN Left : IsFiniteSet(Left[i])) /\ ShutdownRunsOut
<1>1. IInv => \A i \in DOMAIN Left : IsFiniteSet(Left[i])  BY LeftFinite DEF IInv
<1>2. IInv /\ [Next]_vars => [done => WindsDown]_vars  BY StopAdvances
<1>. QED  BY <1>1, <1>2, Invariance, PTL DEF Spec, ShutdownRunsOut
=============================================================================
