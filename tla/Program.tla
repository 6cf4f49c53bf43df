------------------------------ MODULE Program ------------------------------
(***************************************************************************)
(* Worker and the APNS object it owns, with its threads, in one process:   *)
(* ApnsPusher with the queue and the threads in the place of the channel.  *)
(* Worker::init() makes the object and starts its threads before run() is  *)
(* called (Worker.cpp:95, App.cpp:129), run() pushes into its queue        *)
(* (Worker.cpp:338), the destructor stops, joins and deletes it            *)
(* (Worker.cpp:66-67), and a crash takes all that is in memory.            *)
(*                                                                         *)
(* An ApnsMessage is a ticket as in ApnsPusher.                            *)
(***************************************************************************)
EXTENDS APNS

CONSTANTS Texts,       \* the MESSAGE frames of Worker
          Garbage, AckOnly, Noise, NoFrame, Rows, BadTokens, NoRow, Prefetch,
          MaxNoise, MaxDrops, MaxCrashes, MaxStops, MaxFails,
          MaxTickets   \* bound on the pushes of one pair that are looked at

ASSUME TicketAssumption ==
  MaxTickets \in Nat /\ Messages = Texts \X Rows \X (1 .. MaxTickets)

VARIABLES
  published, pending, unacked, acked, missed, link, inflight,
  wdone, wpc,    \* App's done flag and the place of the worker thread
  connected, frame, res, row, found, queued, records, pushes,
  noises, drops, crashes, stops, fails, promised

worker == <<published, pending, unacked, acked, missed, link, inflight, wdone,
            wpc, connected, frame, res, row, found, queued, records, pushes,
            noises, drops, crashes, stops, fails, promised>>
programVars == <<vars, worker>>

Pusher == INSTANCE ApnsPusher
  WITH Messages <- Texts, pc <- wpc, done <- wdone,
       accepted <- Accepted, delivered <- gateway, lost <- dropped, open <- ~done

ProgramInit == Init /\ Pusher!Init /\ promised = {}

-----------------------------------------------------------------------------
(* The worker thread                                                       *)

\* init(): the threads of the object are created one after the other.
Create ==
  /\ wpc = "idle"
  /\ Started \/ \E t \in Threads : StartThread(t)
  /\ UNCHANGED worker

\* run(), which is called once init() is through, up to its next push.
Round ==
  /\ wpc = "idle" => phase = "up"
  /\ UNCHANGED vars
  /\ Pusher!AckFrame \/ Pusher!Other \/ Pusher!Connect

\* _apns->push(apns).
PushMessage ==
  /\ Pusher!Push
  /\ \E m \in Messages : m = <<frame, row, pushes[frame][row] + 1>> /\ Push(m)
  /\ UNCHANGED promised

\* Faulty variant: the object is stopped in the middle of run().
StopObjectAnywhere == wdone /\ Stop /\ UNCHANGED worker

\* while( !a->is_done() ) ends; ~Worker: _apns->stop() sets _done and joins.
StopObject == wpc = "idle" /\ wdone /\ Stop /\ UNCHANGED worker

\* The joins, then delete _apns.
DeleteObject ==
  /\ Delete \/ \E t \in Threads : Join(t)
  /\ UNCHANGED worker

\* Faulty variant: the process ends without waiting for the push threads.
ReturnAtOnce == phase # "up" /\ Pusher!Exit /\ UNCHANGED <<vars, promised>>

\* WorkerThread returns, and so does main().
Return == phase = "gone" /\ Pusher!Exit /\ UNCHANGED <<vars, promised>>

WorkerThread == Create \/ Round \/ PushMessage \/ StopObject \/ DeleteObject \/ Return

-----------------------------------------------------------------------------
(* The threads of the object, the process and what is outside of it        *)

PushThread(t) == SslThread(t) /\ UNCHANGED worker

CollectFeedback == EnableFeedback /\ FeedbackThread /\ UNCHANGED worker

\* Memory is gone with the process, the next one makes a new object.
Renew ==
  /\ phase' = "start" /\ done' = FALSE /\ sslThreads' = {}
  /\ pc' = [t \in Threads |-> "unborn"]
  /\ message_q' = <<>> /\ sendq' = [t \in SslThreads |-> {}]
  /\ dropped' = dropped \cup Range(message_q) \cup Held
  /\ reported' = {} /\ removeRegisterQueue' = {} /\ feedback_q' = <<>>
  /\ UNCHANGED gateway

CrashProcess == Pusher!Crash /\ Renew /\ UNCHANGED promised

StartProcess == Pusher!Start /\ Renew /\ UNCHANGED promised

Elsewhere == UNCHANGED vars /\ Pusher!Outside

ProgramNext ==
  \/ WorkerThread
  \/ \E t \in SslThreads : PushThread(t)
  \/ CollectFeedback
  \/ CrashProcess \/ StartProcess \/ Elsewhere

ProgramSpec == ProgramInit /\ [][ProgramNext]_programVars

\* The fairness of Worker and of the threads of APNS; a controller that gets to
\* run() again and again hands over something it holds.
ProgramFairness ==
  /\ WF_programVars(WorkerThread)
  /\ SF_programVars(Round /\ Pusher!Connect)
  /\ SF_programVars(Round /\ Pusher!ReadThrows)
  /\ \A m \in Texts : SF_programVars(UNCHANGED <<vars, promised>> /\ Pusher!Send(m))
  /\ WF_programVars(StartProcess)
  /\ WF_programVars(CollectFeedback)
  /\ \A t \in SslThreads :
       /\ WF_programVars(PushThread(t))
       /\ SF_programVars(\E m \in Messages : Deliver(t, m) /\ UNCHANGED worker)

FairProgramSpec == ProgramSpec /\ ProgramFairness

-----------------------------------------------------------------------------
(* Properties                                                              *)

\* run() finds its object: from the first frame of a process to its last the
\* threads run and stop() was not called, whenever SIGINT or a crash came, and
\* what it pushes is new, also for a message that comes again
\* (Worker.cpp:66, 338, App.cpp:129-136).
PushesAreTaken ==
  wpc \notin {"down", "idle"} =>
    /\ phase = "up" /\ \A t \in Threads : pc[t] # "unborn"
    /\ wpc = "push" => <<frame, row, pushes[frame][row] + 1>> \notin Accepted

\* A process leaves nothing behind that still runs or still waits to be sent:
\* the next one starts from an empty queue with threads of its own
\* (Worker.cpp:66-67, APNS.cpp:198-208, 256-260).
NothingOutlives ==
  wpc = "down" =>
    /\ \A t \in Threads : pc[t] \in {"unborn", "exited"}
    /\ message_q = <<>> /\ Held = {}

\* The object lives as long as the worker that uses it: no longer, and no less.
OneLife == PushesAreTaken /\ NothingOutlives

\* The queue, the controllers and the threads are the channel of ApnsPusher,
\* over restarts and crashes too: the worker sees no difference, so that what
\* holds of ApnsPusher holds of the threads.
PipelineSpec == Pusher!PusherSpec

\* An acknowledged message reaches every device it was queued for through the
\* push threads, if the process is not stopped or killed before: no full
\* controller or empty round keeps it.
PromiseDelivered == Pusher!PromiseKept
=============================================================================
