---------------------------- MODULE ProgramProofs ----------------------------
(***************************************************************************)
(* Proofs about Program for every topic, register, number of push threads  *)
(* and of failures: the process is put up and taken down around the        *)
(* threads, and Program implements ApnsPusher.                             *)
(***************************************************************************)
EXTENDS Program, APNSProofs

-----------------------------------------------------------------------------
(* The inductive invariant                                                 *)

\* The worker is in run() only between the start of its threads and stop();
\* what they hold is gone when they are.
ProcessInv ==
  /\ wpc \notin {"down", "idle"} => phase = "up"
  /\ wpc = "down" => phase \in {"start", "gone"}
  /\ wpc = "down" /\ phase = "start" => \A t \in Threads : pc[t] = "unborn"
  /\ phase \in {"start", "gone"} => message_q = <<>>
  /\ \A t \in SslThreads : pc[t] \in {"unborn", "exited"} => sendq[t] = {}

\* A ticket in the object counts a push.
CountInv ==
  /\ pushes \in [Texts -> [Rows -> Nat]]
  /\ \A t \in Accepted : t[3] <= pushes[t[1]][t[2]]

PInv == IInv /\ ProcessInv /\ CountInv

LEMMA AcceptedTickets ==
  ASSUME TypeOK  PROVE Accepted \subseteq Texts \X Rows \X (1 .. MaxTickets)
  BY TicketAssumption DEF TypeOK, Accepted, Held, Range

LEMMA InitPInv == ProgramInit => PInv
<1>. SUFFICES ASSUME ProgramInit  PROVE PInv
  OBVIOUS
<1>1. IInv  BY InitIInv DEF ProgramInit
<1>2. ProcessInv  BY DEF ProgramInit, Init, Pusher!Init, ProcessInv
<1>3. Accepted = {}  BY DEF ProgramInit, Init, Accepted, Held, Range
<1>4. CountInv  BY <1>3 DEF ProgramInit, Pusher!Init, Pusher!NoCalls, CountInv
<1>. QED  BY <1>1, <1>2, <1>4 DEF PInv

-----------------------------------------------------------------------------
(* Steps of the object and of the worker                                   *)

\* A step changes nothing of the object, is one of APNS, or starts anew.
LEMMA ObjectMoves == [ProgramNext]_programVars => [Next]_vars \/ Renew
<1>. SUFFICES ASSUME [ProgramNext]_programVars  PROVE [Next]_vars \/ Renew
  OBVIOUS
<1>1. CASE WorkerThread
  BY <1>1 DEF WorkerThread, Create, Round, PushMessage, StopObject, DeleteObject,
     Return, Next, Owner
<1>2. ASSUME NEW t \in SslThreads, PushThread(t)  PROVE Next
  BY <1>2 DEF PushThread, Next
<1>3. CASE CollectFeedback  BY <1>3 DEF CollectFeedback, Next
<1>4. CASE CrashProcess \/ StartProcess \/ Elsewhere \/ UNCHANGED programVars
  BY <1>4 DEF CrashProcess, StartProcess, Elsewhere, programVars
<1>. QED  BY <1>1, <1>2, <1>3, <1>4 DEF ProgramNext

LEMMA RenewIInv == IInv /\ Renew => IInv'
<1>. SUFFICES ASSUME IInv, Renew  PROVE IInv'
  OBVIOUS
<1>. USE DEF Renew
<1>0. TypeOK /\ InOnePlace  BY DEF IInv
<1>1. /\ Range(<<>>) = {} /\ NoRepeats(<<>>) /\ <<>> \in Seq(Messages)
      /\ <<>> \in Seq(Feedbacks)
  BY DEF Range, NoRepeats
<1>2. Range(message_q) \subseteq Messages /\ Held \subseteq Messages
  BY <1>0 DEF TypeOK, Range, Held
<1>3. TypeOK'  BY <1>0, <1>1, <1>2 DEF TypeOK
<1>4. Lifecycle'  BY DEF Lifecycle
<1>5. InOnePlace'  BY <1>0, <1>1 DEF InOnePlace, Held
<1>6. Backpressure'  BY FS_EmptySet, QueueAssumption DEF Backpressure
<1>7. FeedbackLocal' /\ FeedbackConserved'
  BY <1>1 DEF FeedbackLocal, FeedbackConserved
<1>. QED  BY <1>3, <1>4, <1>5, <1>6, <1>7 DEF IInv

LEMMA ObjectInv == IInv /\ [ProgramNext]_programVars => IInv'
  BY ObjectMoves, RenewIInv, IInvStep

\* run() leaves the process up and, apart from push(), the counts alone.
LEMMA RoundStays ==
  Round => /\ wpc # "down" /\ wpc' # "down" /\ pushes' = pushes
           /\ wpc = "idle" => phase = "up"
<1>. SUFFICES ASSUME Round  PROVE wpc # "down" /\ wpc' # "down" /\ pushes' = pushes
  BY DEF Round
<1>. USE DEF Pusher!Goto, Pusher!broker, Pusher!process, Pusher!history, Pusher!counts
<1>1. CASE Pusher!AckFrame  BY <1>1 DEF Pusher!AckFrame, Pusher!Ack
<1>2. CASE Pusher!Connect  BY <1>2 DEF Pusher!Connect, Pusher!Subscribe
<1>3. CASE Pusher!Run \/ Pusher!Read \/ Pusher!ReadNothing \/ Pusher!ReadThrows
           \/ Pusher!Release \/ Pusher!Ignore \/ Pusher!Reject \/ Pusher!SubscribeFails
  BY <1>3 DEF Pusher!Run, Pusher!Read, Pusher!ReadNothing, Pusher!ReadThrows,
     Pusher!Release, Pusher!Ignore, Pusher!Reject, Pusher!PopRow, Pusher!SubscribeFails
<1>4. ASSUME NEW S \in SUBSET Rows, Pusher!Lookup(S)
      PROVE wpc # "down" /\ wpc' # "down" /\ pushes' = pushes
  BY <1>4 DEF Pusher!Lookup
<1>5. ASSUME NEW r \in Rows, Pusher!Record(r)
      PROVE wpc # "down" /\ wpc' # "down" /\ pushes' = pushes
  BY <1>5 DEF Pusher!Record
<1>. QED  BY <1>1, <1>2, <1>3, <1>4, <1>5 DEF Round, Pusher!Other

LEMMA OutsideStays == Pusher!Outside => wpc' = wpc /\ pushes' = pushes
<1>. SUFFICES ASSUME Pusher!Outside  PROVE wpc' = wpc /\ pushes' = pushes
  OBVIOUS
<1>. USE DEF Pusher!broker, Pusher!process, Pusher!history, Pusher!counts
<1>1. ASSUME NEW m \in Texts, Pusher!Publish(m) \/ Pusher!Send(m)
      PROVE wpc' = wpc /\ pushes' = pushes
  BY <1>1 DEF Pusher!Publish, Pusher!Send
<1>2. CASE Pusher!SendNoise \/ Pusher!Drop \/ Pusher!Sigint
  BY <1>2 DEF Pusher!SendNoise, Pusher!Drop, Pusher!Sigint
<1>. QED  BY <1>1, <1>2 DEF Pusher!Outside

LEMMA ProcessStep == PInv /\ [ProgramNext]_programVars => ProcessInv'
<1>. SUFFICES ASSUME PInv, [ProgramNext]_programVars  PROVE ProcessInv'
  OBVIOUS
<1>. USE DEF ProcessInv, Goto, ownerVars, pushVars, feedbackVars
<1>0. /\ TypeOK /\ Lifecycle /\ ProcessInv /\ SslThreads \subseteq Threads
      /\ EnableFeedback => Feedbacker \in Threads
      /\ Feedbacker \notin SslThreads
  BY ThreadAssumption DEF PInv, IInv, Threads
<1>1. CASE Create
  <2>1. UNCHANGED <<wpc, message_q, sendq>> /\ wpc = "idle" /\ phase' \in {"start", "up"}
        /\ message_q = <<>>
    BY <1>0, <1>1 DEF Create, worker, Started, StartThread
  <2>2. \A t \in SslThreads : pc'[t] \in {"unborn", "exited"} => pc[t] = pc'[t]
    BY <1>0, <1>1 DEF Create, Started, StartThread, TypeOK
  <2>. QED  BY <1>0, <2>1, <2>2
<1>2. CASE Round
  <2>1. UNCHANGED vars /\ wpc # "down" /\ wpc' # "down" /\ (wpc = "idle" => phase = "up")
    BY <1>2, RoundStays DEF Round
  <2>. QED  BY <1>0, <2>1 DEF vars
<1>3. CASE PushMessage
  <2>1. wpc = "push" /\ wpc' \in {"ack", "row"}
    BY <1>3 DEF PushMessage, Pusher!Push, Pusher!PopRow, Pusher!Goto
  <2>2. phase' = phase /\ UNCHANGED <<pc, sendq>>
    BY <1>3 DEF PushMessage, Push
  <2>. QED  BY <1>0, <2>1, <2>2
<1>4. CASE StopObject
  BY <1>0, <1>4 DEF StopObject, worker, Stop
<1>5. CASE DeleteObject
  <2>1. UNCHANGED <<wpc, pc, sendq>>  BY <1>5 DEF DeleteObject, worker, Delete, Join
  <2>2. \/ phase = "stop" /\ phase' = "gone" /\ message_q' = <<>>
        \/ UNCHANGED <<phase, message_q>>
    BY <1>5 DEF DeleteObject, Delete, Join
  <2>. QED  BY <1>0, <2>1, <2>2
<1>6. CASE Return
  BY <1>0, <1>6 DEF Return, vars, Pusher!Exit, Pusher!Die
<1>7. ASSUME NEW t \in SslThreads, PushThread(t)  PROVE ProcessInv'
  <2>1. UNCHANGED <<wpc, phase>> /\ pc[t] \notin {"unborn", "exited"}
    BY <1>7 DEF PushThread, worker, SslThread, Check, Dequeue, EndDrain, EndRun, Quit, Deliver
  <2>2. message_q = <<>> => message_q' = <<>>
    BY <1>7 DEF PushThread, SslThread, Check, Dequeue, EndDrain, EndRun, Quit, Deliver
  <2>3. \A u \in SslThreads : u # t => pc'[u] = pc[u] /\ sendq'[u] = sendq[u]
    BY <1>0, <1>7 DEF PushThread, SslThread, Check, Dequeue, EndDrain, EndRun, Quit,
       Deliver, TypeOK
  <2>4. pc'[t] \in {"unborn", "exited"} => sendq'[t] = {}
    BY <1>0, <1>7 DEF PushThread, SslThread, Check, Dequeue, EndDrain, EndRun, Quit,
       Deliver, TypeOK
  <2>5. ~(wpc = "down" /\ phase = "start")  BY <1>0, <2>1
  <2>. QED  BY <1>0, <2>1, <2>2, <2>3, <2>4, <2>5
<1>8. CASE CollectFeedback
  <2>1. UNCHANGED <<wpc, phase, message_q, sendq>> /\ EnableFeedback
        /\ pc[Feedbacker] # "unborn"
    BY <1>8 DEF CollectFeedback, worker, FeedbackThread, Check, EndFeedback,
       QuitFeedback, FetchFeedback, EnqueueFeedback
  <2>2. \A u \in SslThreads : pc'[u] = pc[u]
    BY <1>0, <1>8 DEF CollectFeedback, FeedbackThread, Check, EndFeedback,
       QuitFeedback, FetchFeedback, EnqueueFeedback, TypeOK
  <2>3. ~(wpc = "down" /\ phase = "start")  BY <1>0, <2>1
  <2>. QED  BY <1>0, <2>1, <2>2, <2>3
<1>9. CASE CrashProcess \/ StartProcess
  <2>1. wpc' \in {"down", "idle"}
    BY <1>9 DEF CrashProcess, StartProcess, Pusher!Crash, Pusher!Die, Pusher!Start
  <2>. QED  BY <1>9, <2>1 DEF CrashProcess, StartProcess, Renew
<1>10. CASE Elsewhere
  BY <1>0, <1>10, OutsideStays DEF Elsewhere, vars
<1>11. CASE UNCHANGED programVars
  BY <1>0, <1>11 DEF programVars, vars, worker
<1>. QED
  BY <1>1, <1>2, <1>3, <1>4, <1>5, <1>6, <1>7, <1>8, <1>9, <1>10, <1>11
  DEF ProgramNext, WorkerThread

\* Only push() adds to what is in the object.
LEMMA NothingNew ==
  ASSUME IInv, [ProgramNext]_programVars, ~PushMessage
  PROVE  Accepted' \subseteq Accepted
<1>0. TypeOK /\ Range(<<>>) = {}  BY DEF IInv, Range
<1>1. ASSUME UNCHANGED pushVars  PROVE Accepted' \subseteq Accepted
  BY <1>1 DEF pushVars, Accepted, Held
<1>2. CASE Renew  BY <1>0, <1>2 DEF Renew, Accepted, Held
<1>3. CASE Delete  BY <1>0, <1>3 DEF Delete, Accepted, Held
<1>4. ASSUME NEW t \in SslThreads, Dequeue(t)  PROVE Accepted' \subseteq Accepted
  BY <1>4, DequeueHides DEF Channel!chanVars
<1>5. ASSUME NEW t \in SslThreads, NEW m \in Messages, Deliver(t, m)
      PROVE Accepted' \subseteq Accepted
  BY <1>5, DeliverDelivers DEF Channel!Deliver
<1>6. ASSUME NEW t \in SslThreads, Quit(t)  PROVE Accepted' \subseteq Accepted
  BY <1>6, QuitDiscards DEF Channel!Discard
<1>7. CASE Create \/ StopObject \/ DeleteObject
  BY <1>1, <1>3, <1>7 DEF Create, Started, StartThread, StopObject, Stop,
     DeleteObject, Join
<1>8. ASSUME NEW t \in SslThreads, PushThread(t)  PROVE Accepted' \subseteq Accepted
  BY <1>1, <1>4, <1>5, <1>6, <1>8 DEF PushThread, SslThread, Check, EndDrain, EndRun
<1>9. CASE CollectFeedback
  BY <1>1, <1>9 DEF CollectFeedback, FeedbackThread, Check, EndFeedback,
     QuitFeedback, FetchFeedback, EnqueueFeedback
<1>10. CASE CrashProcess \/ StartProcess
  BY <1>2, <1>10 DEF CrashProcess, StartProcess
<1>11. CASE Round \/ Return \/ Elsewhere \/ UNCHANGED programVars
  BY <1>1, <1>11 DEF Round, Return, Elsewhere, programVars, vars, pushVars
<1>. QED
  BY <1>7, <1>8, <1>9, <1>10, <1>11 DEF ProgramNext, WorkerThread

LEMMA CountStep == PInv /\ [ProgramNext]_programVars => CountInv'
<1>. SUFFICES ASSUME PInv, [ProgramNext]_programVars  PROVE CountInv'
  OBVIOUS
<1>0. IInv /\ TypeOK /\ CountInv /\ Accepted \subseteq Texts \X Rows \X (1 .. MaxTickets)
  BY AcceptedTickets DEF PInv, IInv
<1>1. CASE PushMessage
  <2>1. PICK m \in Messages : m = <<frame, row, pushes[frame][row] + 1>> /\ Push(m)
    BY <1>1 DEF PushMessage
  <2>2. frame \in Texts /\ row \in Rows
    <3>1. m \in Texts \X Rows \X (1 .. MaxTickets)  BY TicketAssumption
    <3>. QED  BY <2>1, <3>1
  <2>3. pushes' = [pushes EXCEPT ![frame][row] = @ + 1]
    BY <1>1 DEF PushMessage, Pusher!Push
  <2>4. Accepted' = Accepted \cup {m}
    BY <1>0, <2>1, PushAccepts DEF Channel!Accept
  <2>5. pushes' \in [Texts -> [Rows -> Nat]]
    BY <1>0, <2>2, <2>3 DEF CountInv
  <2>6. \A x \in Texts, r \in Rows :
          /\ pushes[x][r] \in Nat /\ pushes[x][r] <= pushes'[x][r]
          /\ x = frame /\ r = row => pushes'[x][r] = pushes[x][r] + 1
    BY <1>0, <2>2, <2>3 DEF CountInv
  <2>7. ASSUME NEW t \in Accepted  PROVE t[3] <= pushes'[t[1]][t[2]]
    <3>1. t[1] \in Texts /\ t[2] \in Rows /\ t[3] \in Nat  BY <1>0
    <3>2. t[3] <= pushes[t[1]][t[2]]  BY <1>0 DEF CountInv
    <3>3. pushes[t[1]][t[2]] \in Nat /\ pushes'[t[1]][t[2]] \in Nat
          /\ pushes[t[1]][t[2]] <= pushes'[t[1]][t[2]]
      BY <2>5, <2>6, <3>1
    <3>. QED  BY <3>1, <3>2, <3>3
  <2>8. m[3] <= pushes'[m[1]][m[2]]
    <3>1. m[1] = frame /\ m[2] = row /\ m[3] = pushes[frame][row] + 1  BY <2>1
    <3>2. pushes'[frame][row] = pushes[frame][row] + 1 /\ pushes[frame][row] \in Nat
      BY <2>2, <2>6
    <3>. QED  BY <3>1, <3>2
  <2>. QED  BY <2>4, <2>5, <2>7, <2>8 DEF CountInv
<1>2. CASE ~PushMessage
  <2>1. pushes' = pushes
    <3>1. Round => pushes' = pushes  BY RoundStays
    <3>2. Elsewhere => pushes' = pushes  BY OutsideStays DEF Elsewhere
    <3>3. Return \/ CrashProcess \/ StartProcess => pushes' = pushes
      BY DEF Return, CrashProcess, StartProcess, Pusher!Exit, Pusher!Crash,
         Pusher!Start, Pusher!Die, Pusher!history
    <3>. QED
      BY <1>2, <3>1, <3>2, <3>3 DEF ProgramNext, WorkerThread, Create, StopObject,
         DeleteObject, PushThread, CollectFeedback, worker, programVars
  <2>2. Accepted' \subseteq Accepted  BY <1>0, <1>2, NothingNew
  <2>. QED  BY <1>0, <2>1, <2>2 DEF CountInv
<1>. QED  BY <1>1, <1>2

LEMMA PInvStep == PInv /\ [ProgramNext]_programVars => PInv'
  BY ObjectInv, ProcessStep, CountStep DEF PInv

LEMMA PInvariance == ProgramSpec => []PInv
  BY InitPInv, PInvStep, PTL DEF ProgramSpec

-----------------------------------------------------------------------------
(* The theorems                                                            *)

\* At most once and backpressure hold of the threads in the program that uses
\* them, over any number of crashes and restarts (APNS.cpp:247, 256-260).
THEOREM SafeAcrossRestarts == ProgramSpec => [](InOnePlace /\ Backpressure)
<1>1. PInv => InOnePlace /\ Backpressure  BY DEF PInv, IInv
<1>. QED  BY <1>1, PInvariance, PTL

\* Whatever run() pushes finds threads that run and is new to them: stop()
\* and delete come after the last push, start() before the first
\* (Worker.cpp:66, 338, App.cpp:129-136).
LEMMA PushesTaken == PInv => PushesAreTaken
<1>1. ASSUME PInv  PROVE PushesAreTaken
  <2>1. TypeOK /\ Lifecycle /\ ProcessInv /\ CountInv
        /\ Accepted \subseteq Texts \X Rows \X (1 .. MaxTickets)
    BY <1>1, AcceptedTickets DEF PInv, IInv
  <2>2. ASSUME wpc \notin {"down", "idle"}
        PROVE phase = "up" /\ \A t \in Threads : pc[t] # "unborn"
    BY <2>1, <2>2 DEF ProcessInv, Lifecycle
  <2>. DEFINE e == <<frame, row, pushes[frame][row] + 1>>
  <2>3. ASSUME e \in Accepted  PROVE FALSE
    <3>1. e[1] = frame /\ e[2] = row /\ e[3] = pushes[frame][row] + 1  OBVIOUS
    <3>2. frame \in Texts /\ row \in Rows  BY <2>1, <2>3, <3>1
    <3>3. e[3] <= pushes[e[1]][e[2]]  BY <2>1, <2>3 DEF CountInv
    <3>4. pushes[frame][row] \in Nat  BY <2>1, <3>2 DEF CountInv
    <3>. QED  BY <3>1, <3>3, <3>4
  <2>. QED  BY <2>2, <2>3 DEF PushesAreTaken
<1>. QED  BY <1>1

\* When the process has ended, by itself or by a crash, every push thread is
\* gone and so is what it held (Worker.cpp:66-67, APNS.cpp:198-208, 256-260).
LEMMA NothingLeftBehind == PInv => NothingOutlives
<1>1. ASSUME PInv  PROVE NothingOutlives
  <2>1. TypeOK /\ Lifecycle /\ ProcessInv /\ SslThreads \subseteq Threads
    BY <1>1 DEF PInv, IInv, Threads
  <2>2. ASSUME wpc = "down"
        PROVE \A t \in Threads : pc[t] \in {"unborn", "exited"}
    <3>1. CASE phase = "start"  BY <2>1, <2>2, <3>1 DEF ProcessInv
    <3>2. CASE phase = "gone"  BY <2>1, <3>2 DEF Lifecycle, TypeOK
    <3>. QED  BY <2>1, <2>2, <3>1, <3>2 DEF ProcessInv
  <2>3. ASSUME wpc = "down"  PROVE message_q = <<>> /\ Held = {}
    <3>1. \A t \in SslThreads : sendq[t] = {}  BY <2>1, <2>2, <2>3 DEF ProcessInv
    <3>. QED  BY <2>1, <2>3, <3>1 DEF ProcessInv, Held
  <2>. QED  BY <2>2, <2>3 DEF NothingOutlives
<1>. QED  BY <1>1

\* The object lives as long as the worker that uses it, for any number of
\* stops, crashes and restarts.
THEOREM LivesWithItsWorker == ProgramSpec => []OneLife
<1>1. PInv => OneLife  BY PushesTaken, NothingLeftBehind DEF OneLife
<1>. QED  BY <1>1, PInvariance, PTL

-----------------------------------------------------------------------------
(* Program implements ApnsPusher                                           *)

LEMMA InitPusher == ProgramInit => Pusher!PusherInit
<1>. SUFFICES ASSUME ProgramInit  PROVE Pusher!PusherInit
  OBVIOUS
<1>1. Accepted = {} /\ gateway = {} /\ dropped = {} /\ done = FALSE
  BY DEF ProgramInit, Init, Accepted, Held, Range
<1>2. Pusher!Chan!Init  BY <1>1 DEF Pusher!Chan!Init
<1>. QED  BY <1>2 DEF ProgramInit, Pusher!PusherInit

\* The two views of the object: what shows of it is the channel.
LEMMA NothingOfIt ==
  ASSUME UNCHANGED <<done, pushVars>>  PROVE UNCHANGED Pusher!chan
  BY DEF pushVars, Accepted, Held, Pusher!chan

\* The part of the worker, and the worker as Worker has it.
LEMMA WorkerVars ==
  ASSUME UNCHANGED worker  PROVE UNCHANGED <<Pusher!vars, promised>>
  BY DEF worker, Pusher!vars

\* A new object is a new channel, and what the old one held is lost.
LEMMA RenewCrashes == IInv /\ Renew => Pusher!Chan!Crash
<1>. SUFFICES ASSUME IInv, Renew  PROVE Pusher!Chan!Crash
  OBVIOUS
<1>1. InOnePlace  BY DEF IInv
<1>2. Range(<<>>) = {}  BY DEF Range
<1>3. /\ Accepted' = Accepted
      /\ dropped' = dropped \cup (Accepted \ (gateway \cup dropped))
  BY <1>1, <1>2 DEF Renew, Accepted, Held, InOnePlace
<1>. QED  BY <1>3 DEF Renew, Pusher!Chan!Crash, Pusher!Chan!InTransit

\* What the push threads and the owner of the queue give up.
LEMMA DiscardDiscards ==
  ASSUME NEW S, S # {}, Channel!Discard(S), UNCHANGED worker
  PROVE  Pusher!DiscardTickets
<1>1. S \in SUBSET Pusher!Chan!InTransit /\ Pusher!Chan!Discard(S)
  BY DEF Channel!Discard, Channel!InTransit, Pusher!Chan!Discard, Pusher!Chan!InTransit
<1>. QED  BY <1>1, WorkerVars DEF Pusher!DiscardTickets

LEMMA DiscardNothing ==
  ASSUME Channel!Discard({}), UNCHANGED worker  PROVE UNCHANGED Pusher!pusherVars
  BY WorkerVars DEF Channel!Discard, Pusher!pusherVars, Pusher!chan

LEMMA PipelineStep == PInv /\ [ProgramNext]_programVars => [Pusher!PusherNext]_(Pusher!pusherVars)
<1>. SUFFICES ASSUME PInv, [ProgramNext]_programVars
              PROVE [Pusher!PusherNext]_(Pusher!pusherVars)
  OBVIOUS
<1>. USE DEF Pusher!PusherNext, Pusher!Handler
<1>0. IInv /\ TypeOK /\ Lifecycle /\ ProcessInv
  BY DEF PInv, IInv
<1>1. ASSUME UNCHANGED <<done, pushVars>>, UNCHANGED worker
      PROVE UNCHANGED Pusher!pusherVars
  BY <1>1, NothingOfIt, WorkerVars DEF Pusher!pusherVars
<1>2. CASE Create
  BY <1>1, <1>2 DEF Create, Started, StartThread
<1>3. CASE Round
  <2>1. Pusher!AckFrame \/ Pusher!Other \/ Pusher!Connect  BY <1>3 DEF Round
  <2>. QED  BY <2>1
<1>4. CASE PushMessage
  <2>1. PICK m \in Messages : m = <<frame, row, pushes[frame][row] + 1>> /\ Push(m)
    BY <1>4 DEF PushMessage
  <2>2. m \in Pusher!Tickets
    BY <2>1, TicketAssumption DEF Pusher!Tickets
  <2>3. Channel!Accept(m)  BY <1>0, <2>1, PushAccepts
  <2>4. Pusher!Chan!Accept(m)
    BY <2>2, <2>3 DEF Channel!Accept, Pusher!Chan!Accept
  <2>. QED  BY <1>4, <2>1, <2>4 DEF PushMessage, Pusher!PushTicket
<1>5. CASE StopObject
  <2>1. Channel!Close /\ UNCHANGED <<Pusher!vars, promised>> /\ wpc = "idle" /\ wdone
    BY <1>0, <1>5, StopCloses, WorkerVars DEF StopObject
  <2>2. Pusher!Chan!Close  BY <2>1 DEF Channel!Close, Pusher!Chan!Close
  <2>. QED  BY <2>1, <2>2 DEF Pusher!CloseChannel
<1>6. CASE DeleteObject
  <2>1. UNCHANGED worker  BY <1>6 DEF DeleteObject
  <2>2. CASE Delete
    <3>1. Channel!Discard(Range(message_q))  BY <1>0, <2>2, DeleteDiscards
    <3>. QED  BY <2>1, <3>1, DiscardDiscards, DiscardNothing
  <2>3. ASSUME NEW t \in Threads, Join(t)  PROVE UNCHANGED Pusher!pusherVars
    BY <1>1, <2>1, <2>3 DEF Join
  <2>. QED  BY <1>6, <2>2, <2>3 DEF DeleteObject
<1>7. CASE Return
  <2>1. Pusher!Exit /\ UNCHANGED promised /\ UNCHANGED vars /\ phase = "gone"
    BY <1>7 DEF Return
  <2>2. UNCHANGED Pusher!chan  BY <2>1, NothingOfIt DEF vars, pushVars
  <2>3. done /\ message_q = <<>>  BY <1>0, <2>1 DEF Lifecycle, ProcessInv
  <2>4. Held = {}
    <3>1. \A t \in SslThreads : pc[t] \in {"unborn", "exited"}
      BY <1>0, <2>1 DEF Lifecycle, TypeOK, Threads
    <3>. QED  BY <1>0, <3>1 DEF ProcessInv, Held
  <2>5. Pusher!Chan!InTransit = {}
    <3>1. Range(message_q) = {}  BY <2>3 DEF Range
    <3>. QED  BY <2>4, <3>1 DEF Accepted, Pusher!Chan!InTransit
  <2>. QED  BY <2>1, <2>2, <2>3, <2>5 DEF Pusher!DeleteChannel
<1>8. ASSUME NEW t \in SslThreads, PushThread(t)
      PROVE [Pusher!PusherNext]_(Pusher!pusherVars)
  <2>1. UNCHANGED worker  BY <1>8 DEF PushThread
  <2>2. CASE Check(t) \/ EndDrain(t) \/ EndRun(t)
    BY <1>1, <2>1, <2>2 DEF Check, EndDrain, EndRun, ownerVars
  <2>3. CASE Dequeue(t)
    <3>1. UNCHANGED Channel!chanVars  BY <1>0, <2>3, DequeueHides
    <3>. QED  BY <2>1, <3>1, WorkerVars DEF Channel!chanVars, Pusher!pusherVars, Pusher!chan
  <2>4. CASE Quit(t)
    <3>1. Channel!Discard(sendq[t])  BY <1>0, <2>4, QuitDiscards
    <3>. QED  BY <2>1, <3>1, DiscardDiscards, DiscardNothing
  <2>5. ASSUME NEW m \in Messages, Deliver(t, m)
        PROVE \E k \in Accepted : Pusher!DeliverTicket(k)
    <3>1. Channel!Deliver(m)  BY <1>0, <2>5, DeliverDelivers
    <3>2. Pusher!Chan!Deliver(m) /\ m \in Accepted
      BY <3>1 DEF Channel!Deliver, Channel!InTransit, Pusher!Chan!Deliver, Pusher!Chan!InTransit
    <3>. QED  BY <2>1, <3>2, WorkerVars DEF Pusher!DeliverTicket
  <2>. QED  BY <1>8, <2>2, <2>3, <2>4, <2>5 DEF PushThread, SslThread
<1>9. CASE CollectFeedback
  BY <1>1, <1>9 DEF CollectFeedback, FeedbackThread, Check, EndFeedback,
     QuitFeedback, FetchFeedback, EnqueueFeedback, ownerVars
<1>10. CASE CrashProcess
  BY <1>0, <1>10, RenewCrashes DEF CrashProcess, Pusher!CrashAll
<1>11. CASE StartProcess
  BY <1>0, <1>11, RenewCrashes DEF StartProcess, Pusher!StartAll
<1>12. CASE Elsewhere  BY <1>12 DEF Elsewhere
<1>13. CASE UNCHANGED programVars
  BY <1>1, <1>13 DEF programVars, vars, pushVars
<1>. QED
  BY <1>2, <1>3, <1>4, <1>5, <1>6, <1>7, <1>8, <1>9, <1>10, <1>11, <1>12, <1>13
  DEF ProgramNext, WorkerThread

\* The queue, the controllers and the threads are the channel the worker's
\* program is written against, start, stop, joins, crashes and restarts
\* included: each step of Program is one of ApnsPusher or shows nothing.
THEOREM ImplementsPusher == ProgramSpec => PipelineSpec
  BY InitPusher, PipelineStep, PInvariance, PTL
  DEF ProgramSpec, PipelineSpec, Pusher!PusherSpec
=============================================================================
