-------------------------------- MODULE APNS --------------------------------
(***************************************************************************)
(* Class APNS (src/src/APNS.cpp, src/include/APNS.h): the in-memory queue  *)
(* of push messages, the SslThreads that drain it into one PushController  *)
(* each, the FeedbackThread, and the stop() / join / delete protocol that  *)
(* the worker which owns the object runs in its destructor.                *)
(*                                                                         *)
(* The owner's calls (start, push, stop, delete) are sequential; phase     *)
(* says how far it got.  A thread's pc is its place in its while(true):    *)
(*   check -> drain -> run -> check ...   and   check -> quit -> exited.   *)
(* usleep and sleep only take time and are not steps.                      *)
(***************************************************************************)
EXTENDS Naturals, Sequences, FiniteSets, Functions

CONSTANTS SslThreads,   \* the _num_threads push threads (app.apns.push)
          Feedbacker,   \* the feedback thread
          EnableFeedback,  \* app.apns.feedback.enable
          Messages,     \* ApnsMessage objects, each allocated for one push()
          Feedbacks,    \* FeedbackMessage objects the gateway may report
          MaxQueue,     \* app.apns.ssl.maxqueue
          NoMessage     \* the value of an uninitialised or NULL pointer

ASSUME ThreadAssumption == Feedbacker \notin SslThreads /\ IsFiniteSet(SslThreads)
ASSUME QueueAssumption == MaxQueue \in Nat \ {0}
ASSUME MessageAssumption == NoMessage \notin Messages
ASSUME EnableAssumption == EnableFeedback \in BOOLEAN

VARIABLES phase,        \* owner: "start", "up", "stop", "gone" (deleted)
          done,         \* _done
          sslThreads,   \* _sslThreads: created and not yet joined
          pc,           \* per thread: where it is in its loop
          message_q,    \* _message_q
          sendq,        \* per push thread: what its PushController holds
          gateway,      \* messages a PushController handed to the gateway
          dropped,      \* messages freed, leaked or destroyed unsent
          reported,     \* feedback messages getQueue() has returned so far
          removeRegisterQueue,  \* FeedbackThread's local set
          feedback_q    \* _feedback_q

pushVars == <<message_q, sendq, gateway, dropped>>
feedbackVars == <<reported, removeRegisterQueue, feedback_q>>
ownerVars == <<phase, done, sslThreads>>
vars == <<phase, done, sslThreads, pc, message_q, sendq, gateway, dropped,
          reported, removeRegisterQueue, feedback_q>>

Threads == SslThreads \cup (IF EnableFeedback THEN {Feedbacker} ELSE {})

Init ==
  /\ phase = "start" /\ done = FALSE /\ sslThreads = {}
  /\ pc = [t \in Threads |-> "unborn"]
  /\ message_q = <<>> /\ sendq = [t \in SslThreads |-> {}]
  /\ gateway = {} /\ dropped = {}
  /\ reported = {} /\ removeRegisterQueue = {} /\ feedback_q = <<>>

Goto(t, label) == pc' = [pc EXCEPT ![t] = label]

\* Every message push() was ever called with, wherever it is now.
Held == UNION {sendq[t] : t \in SslThreads}
Accepted == Range(message_q) \cup Held \cup gateway \cup dropped

-----------------------------------------------------------------------------
(* The owner: start(), push(), stop(), delete                              *)

\* One pthread_create and the insert that follows it.  The push threads come
\* first, in the order of their index (any order is allowed here), the
\* feedback thread last.  A thread runs as soon as it is created.
StartThread(t) ==
  /\ phase = "start"
  /\ pc[t] = "unborn"
  /\ t = Feedbacker => \A u \in SslThreads : pc[u] # "unborn"
  /\ Goto(t, "check")
  /\ sslThreads' = sslThreads \cup {t}
  /\ UNCHANGED <<phase, done, pushVars, feedbackVars>>

Started ==
  /\ phase = "start"
  /\ \A t \in Threads : pc[t] # "unborn"
  /\ phase' = "up"
  /\ UNCHANGED <<done, sslThreads, pc, pushVars, feedbackVars>>

\* Faulty variant: the pointer is not checked before it is queued.
PushUnchecked(m) ==
  /\ phase = "up"
  /\ m \notin Accepted
  /\ \E p \in {m, NoMessage} : message_q' = Append(message_q, p)
  /\ UNCHANGED <<ownerVars, pc, sendq, gateway, dropped, feedbackVars>>

Push(m) ==
  /\ phase = "up"
  /\ m \notin Accepted
  /\ message_q' = Append(message_q, m)
  /\ UNCHANGED <<ownerVars, pc, sendq, gateway, dropped, feedbackVars>>

\* Faulty variant: stop() goes straight to joining.
StopWithoutFlag ==
  /\ phase = "up"
  /\ phase' = "stop"
  /\ UNCHANGED <<done, sslThreads, pc, pushVars, feedbackVars>>

Stop ==
  /\ phase = "up"
  /\ phase' = "stop"
  /\ done' = TRUE
  /\ UNCHANGED <<sslThreads, pc, pushVars, feedbackVars>>

\* Faulty variant: the thread is forgotten without waiting for it.
Detach(t) ==
  /\ phase = "stop"
  /\ t \in sslThreads
  /\ sslThreads' = sslThreads \ {t}
  /\ UNCHANGED <<phase, done, pc, pushVars, feedbackVars>>

\* pthread_join blocks until the thread has returned.
Join(t) ==
  /\ phase = "stop"
  /\ t \in sslThreads
  /\ pc[t] = "exited"
  /\ sslThreads' = sslThreads \ {t}
  /\ UNCHANGED <<phase, done, pc, pushVars, feedbackVars>>

\* delete _apns: both queues die with the object, the messages in
\* _message_q are leaked.
Delete ==
  /\ phase = "stop"
  /\ sslThreads = {}
  /\ phase' = "gone"
  /\ dropped' = dropped \cup Range(message_q)
  /\ message_q' = <<>>
  /\ feedback_q' = <<>>
  /\ UNCHANGED <<done, sslThreads, pc, sendq, gateway, reported,
                 removeRegisterQueue>>

-----------------------------------------------------------------------------
(* SslThread                                                               *)

\* Faulty variants of the loop condition: one too many, one too few.
HasRoomOneMore(t) == Cardinality(sendq[t]) <= MaxQueue
HasRoomOneLess(t) == Cardinality(sendq[t]) < MaxQueue - 1

\* push->sendQueueSize() < maxQueue
HasRoom(t) == Cardinality(sendq[t]) < MaxQueue

\* if ( apns->is_done() ) break;    (both kinds of thread)
Check(t) ==
  /\ pc[t] = "check"
  /\ Goto(t, IF done THEN "quit"
             ELSE IF t = Feedbacker THEN "run" ELSE "drain")
  /\ UNCHANGED <<ownerVars, pushVars, feedbackVars>>

\* Faulty variant: reads the head of the queue but leaves it there.
DequeuePeek(t) ==
  /\ pc[t] = "drain" /\ HasRoom(t) /\ message_q # <<>>
  /\ sendq' = [sendq EXCEPT ![t] = @ \cup {Head(message_q)}]
  /\ UNCHANGED <<ownerVars, pc, message_q, gateway, dropped, feedbackVars>>

\* One round of the inner while: dequeue() succeeded, push->add(msg).
Dequeue(t) ==
  /\ pc[t] = "drain" /\ HasRoom(t) /\ message_q # <<>>
  /\ sendq' = [sendq EXCEPT ![t] = @ \cup {Head(message_q)}]
  /\ message_q' = Tail(message_q)
  /\ UNCHANGED <<ownerVars, pc, gateway, dropped, feedbackVars>>

\* Faulty variant: the operands of && are swapped, so that a message is
\* taken off the queue before the controller turns out to be full.
EndDrainSwapped(t) ==
  /\ pc[t] = "drain" /\ (~HasRoom(t) \/ message_q = <<>>)
  /\ Goto(t, "run")
  /\ IF message_q = <<>>
       THEN UNCHANGED <<message_q, dropped>>
       ELSE /\ message_q' = Tail(message_q)
            /\ dropped' = dropped \cup {Head(message_q)}
  /\ UNCHANGED <<ownerVars, sendq, gateway, feedbackVars>>

\* The inner while ends: the controller is full or dequeue() returned false.
EndDrain(t) ==
  /\ pc[t] = "drain" /\ (~HasRoom(t) \/ message_q = <<>>)
  /\ Goto(t, "run")
  /\ UNCHANGED <<ownerVars, pushVars, feedbackVars>>

\* Inside push->run(): the controller hands one message to the gateway.
Deliver(t, m) ==
  /\ pc[t] = "run"
  /\ m \in sendq[t]
  /\ sendq' = [sendq EXCEPT ![t] = @ \ {m}]
  /\ gateway' = gateway \cup {m}
  /\ UNCHANGED <<ownerVars, pc, message_q, dropped, feedbackVars>>

\* Faulty variant: while there is something to take off the queue the thread
\* goes for it without asking is_done().
EndRunUnasked(t) ==
  /\ pc[t] = "run"
  /\ Goto(t, IF message_q = <<>> THEN "check" ELSE "drain")
  /\ UNCHANGED <<ownerVars, pushVars, feedbackVars>>

\* push->run() returns, whatever it managed to send; usleep, next round.
EndRun(t) ==
  /\ pc[t] = "run"
  /\ Goto(t, "check")
  /\ UNCHANGED <<ownerVars, pushVars, feedbackVars>>

\* delete push: what the controller still holds is gone.
Quit(t) ==
  /\ pc[t] = "quit"
  /\ Goto(t, "exited")
  /\ dropped' = dropped \cup sendq[t]
  /\ sendq' = [sendq EXCEPT ![t] = {}]
  /\ UNCHANGED <<ownerVars, message_q, gateway, feedbackVars>>

-----------------------------------------------------------------------------
(* FeedbackThread                                                          *)

\* feedback->run(); getQueue(removeRegisterQueue): the controller hands over
\* the (possibly empty) set of tokens the gateway reported since last time.
FetchFeedback(S) ==
  /\ pc[Feedbacker] = "run"
  /\ Goto(Feedbacker, "drain")
  /\ S \subseteq Feedbacks \ reported
  /\ reported' = reported \cup S
  /\ removeRegisterQueue' = S
  /\ UNCHANGED <<ownerVars, pushVars, feedback_q>>

\* Faulty variant: the local set is not erased as it is copied.
EnqueueFeedbackTwice(f) ==
  /\ pc[Feedbacker] = "drain"
  /\ f \in removeRegisterQueue
  /\ Len(feedback_q) <= Cardinality(Feedbacks)
  /\ feedback_q' = Append(feedback_q, f)
  /\ UNCHANGED <<ownerVars, pc, pushVars, reported, removeRegisterQueue>>

EnqueueFeedback(f) ==
  /\ pc[Feedbacker] = "drain"
  /\ f \in removeRegisterQueue
  /\ feedback_q' = Append(feedback_q, f)
  /\ removeRegisterQueue' = removeRegisterQueue \ {f}
  /\ UNCHANGED <<ownerVars, pc, pushVars, reported>>

EndFeedback ==
  /\ pc[Feedbacker] = "drain"
  /\ removeRegisterQueue = {}
  /\ Goto(Feedbacker, "check")
  /\ UNCHANGED <<ownerVars, pushVars, feedbackVars>>

\* delete feedback.
QuitFeedback ==
  /\ pc[Feedbacker] = "quit"
  /\ Goto(Feedbacker, "exited")
  /\ UNCHANGED <<ownerVars, pushVars, feedbackVars>>

-----------------------------------------------------------------------------
Owner ==
  \/ \E t \in Threads : StartThread(t) \/ Join(t)
  \/ \E m \in Messages : Push(m)
  \/ Started \/ Stop \/ Delete

SslThread(t) ==
  \/ Check(t) \/ Dequeue(t) \/ EndDrain(t) \/ EndRun(t) \/ Quit(t)
  \/ \E m \in Messages : Deliver(t, m)

FeedbackThread ==
  \/ Check(Feedbacker) \/ EndFeedback \/ QuitFeedback
  \/ \E S \in SUBSET Feedbacks : FetchFeedback(S)
  \/ \E f \in Feedbacks : EnqueueFeedback(f)

Next ==
  \/ Owner
  \/ \E t \in SslThreads : SslThread(t)
  \/ EnableFeedback /\ FeedbackThread

Spec == Init /\ [][Next]_vars

\* The threads and the owner are never descheduled for ever, and a controller
\* that gets to run() again and again eventually hands over each message it
\* holds: the gateway is not down for ever.  Nobody has to push or to stop.
Fairness ==
  /\ \A t \in SslThreads :
       /\ WF_vars(SslThread(t))
       /\ \A m \in Messages : SF_vars(Deliver(t, m))
  /\ WF_vars(EnableFeedback /\ FeedbackThread)
  /\ WF_vars(Started \/ Delete \/ \E t \in Threads : StartThread(t) \/ Join(t))

FairSpec == Spec /\ Fairness

-----------------------------------------------------------------------------
(* Properties                                                              *)

TypeOK ==
  /\ phase \in {"start", "up", "stop", "gone"}
  /\ done \in BOOLEAN
  /\ sslThreads \subseteq Threads
  /\ pc \in [Threads -> {"unborn", "check", "drain", "run", "quit", "exited"}]
  /\ message_q \in Seq(Messages)
  /\ sendq \in [SslThreads -> SUBSET Messages]
  /\ gateway \subseteq Messages /\ dropped \subseteq Messages
  /\ reported \subseteq Feedbacks /\ removeRegisterQueue \subseteq Feedbacks
  /\ feedback_q \in Seq(Feedbacks)

NoRepeats(q) == \A i, j \in DOMAIN q : q[i] = q[j] => i = j

\* At most once: a message is in one place only, and once: in the queue, in
\* one controller, at the gateway, or dropped.  No two threads can take the
\* same pointer off _message_q (APNS.cpp:247), and none is sent after it was
\* freed.
InOnePlace ==
  /\ NoRepeats(message_q)
  /\ \A t \in SslThreads :
       /\ sendq[t] \cap (Range(message_q) \cup gateway \cup dropped) = {}
       /\ \A u \in SslThreads \ {t} : sendq[t] \cap sendq[u] = {}
  /\ Range(message_q) \cap (gateway \cup dropped) = {}
  /\ gateway \cap dropped = {}

\* Backpressure: a controller never holds more than app.apns.ssl.maxqueue
\* messages, however many threads drain the queue (APNS.cpp:247).
Backpressure ==
  \A t \in SslThreads : IsFiniteSet(sendq[t]) /\ Cardinality(sendq[t]) <= MaxQueue

\* The object is deleted (Worker.cpp:66-67) only when every thread that holds
\* a pointer to it or to its queues has returned.
NoUseAfterDelete == phase = "gone" => \A t \in Threads : pc[t] = "exited"

\* Until the object is deleted no feedback message is lost or duplicated on
\* its way from the controller through the local set to _feedback_q.
FeedbackConserved ==
  phase # "gone" =>
    /\ NoRepeats(feedback_q)
    /\ removeRegisterQueue \cap Range(feedback_q) = {}
    /\ reported = removeRegisterQueue \cup Range(feedback_q)

\* How far a thread is on its way out once _done is set: it ends its round and
\* leaves at the next check.
Stage(t, place) ==
  CASE place = "exited" -> 4 [] place = "quit" -> 3 [] place = "check" -> 2
    [] place = "run"   -> IF t = Feedbacker THEN 0 ELSE 1
    [] place = "drain" -> IF t = Feedbacker THEN 1 ELSE 0
    [] OTHER -> 0

\* What is left to do for threads and owner: stages to come to, messages to
\* take off the queue, to hand over and to copy, threads to join, a delete.
ToCome == {e \in Threads \X (1 .. 4) : e[2] > Stage(e[1], pc[e[1]])}
ToHandOver == Range(message_q) \cup Held
ToCopy == IF phase = "gone" THEN {} ELSE Feedbacks \ Range(feedback_q)
ToDelete == IF phase = "gone" THEN {} ELSE {"delete"}
Left == <<ToCome, DOMAIN message_q, ToHandOver, ToCopy, sslThreads, ToDelete>>

\* A step does something of it and gives nothing back.
WindsDown == Left' # Left /\ \A i \in DOMAIN Left : Left'[i] \subseteq Left[i]

\* Once stop() has set _done no thread begins another round, whatever waits
\* in the queue, a controller or the local set: each step takes something off
\* what is left (APNS.cpp:241, 280, 198-208).
ShutdownRunsOut == [][done => WindsDown]_vars

\* The class implements the volatile at-most-once channel: in particular
\* nothing is lost before stop() set _done, and nothing is pushed after.
Channel == INSTANCE PushChannel
  WITH accepted <- Accepted, delivered <- gateway, lost <- dropped,
       open <- ~done
ChannelSpec == Channel!Spec

\* Every message pushed is eventually handed to the gateway, unless stop()
\* is called: no thread, full controller or empty poll starves it.
HandedOver ==
  \A m \in Messages : (m \in Accepted) ~> (m \in gateway \/ done)

\* stop() and the delete that follows it terminate: every thread notices
\* _done, also one that is filling or running a full controller.
StopEnds == phase = "stop" ~> phase = "gone"
=============================================================================
