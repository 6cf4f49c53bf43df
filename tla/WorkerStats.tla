----------------------------- MODULE WorkerStats -----------------------------
(***************************************************************************)
(* The counters class Worker reports once a minute (Worker.cpp:152-175),   *)
(* on top of the steps of module Worker: connects, disconnects, frames_in. *)
(* packets and frames_out are logged too, but nothing ever adds to them.   *)
(***************************************************************************)
EXTENDS Worker

CONSTANT MaxConnects   \* bound on the subscriptions tried in one window

VARIABLES stats,       \* _stats
          framesRead   \* frames next_frame() returned in this window

statsVars == <<published, pending, unacked, acked, missed, link, inflight,
               done, pc, connected, frame, res, row, found, queued, records,
               pushes, noises, drops, crashes, stops, fails, stats,
               framesRead>>

NoStats == [connects |-> 0, disconnects |-> 0, frames_in |-> 0]

StatsInit == Init /\ stats = NoStats /\ framesRead = 0

Add(name, n) == stats' = [stats EXCEPT ![name] = @ + n]

\* try_stats() at the top of run(): every now and then the window ends.
CountRun ==
  /\ Run
  /\ \/ UNCHANGED <<stats, framesRead>>
     \/ stats' = NoStats /\ framesRead' = 0

CountSubscribe ==
  /\ Subscribe \/ SubscribeFails
  /\ stats.connects < MaxConnects
  /\ Add("connects", 1)
  /\ UNCHANGED framesRead

\* Once for the frame, and once more when it is usable.
CountRead ==
  /\ Read
  /\ Add("frames_in", IF frame' = Noise THEN 1 ELSE 2)
  /\ framesRead' = framesRead + 1

CountThrow ==
  /\ ReadThrows
  /\ Add("disconnects", 1)
  /\ UNCHANGED framesRead

\* The process ends: a new Worker starts from nothing.
Forget ==
  /\ Exit \/ Crash
  /\ stats' = NoStats /\ framesRead' = 0

NotCounted ==
  /\ \/ ReadNothing \/ Release \/ Ignore
     \/ \E S \in SUBSET Rows : Lookup(S)
     \/ \E r \in Rows : Record(r)
     \/ Reject \/ Push \/ Ack \/ Start
     \/ \E m \in Messages : Publish(m) \/ Send(m)
     \/ SendNoise \/ Drop \/ Sigint
  /\ UNCHANGED <<stats, framesRead>>

StatsNext ==
  CountRun \/ CountSubscribe \/ CountRead \/ CountThrow \/ Forget \/ NotCounted

StatsSpec == StatsInit /\ [][StatsNext]_statsVars

-----------------------------------------------------------------------------
(* Properties                                                              *)

\* A lost link is counted once, however often run() is called before the new
\* subscription: two disconnects of a window have a connect between them
\* (Worker.cpp:190-211).
DisconnectsCountedOnce == stats.disconnects <= stats.connects + 1

\* "num frames in" (Worker.cpp:143), "frames in" (Worker.cpp:164): the counter
\* counts the frames read.  It does not: a usable frame is counted twice
\* (Worker.cpp:219, 226).
FramesInCountsFrames == stats.frames_in = framesRead
=============================================================================
