------------------------------ MODULE Lifecycle ------------------------------
(***************************************************************************)
(* How the process starts and stops: main() and App (src/src/main.cpp,     *)
(* src/src/App.cpp), the WorkerThreads, the construction and destruction   *)
(* of their objects (Worker, Store, MemcachedController, APNS), and the    *)
(* threads of each APNS object.  What the threads do while they run is the *)
(* subject of modules Worker and APNS; here they run until they see their  *)
(* done flag.                                                              *)
(*                                                                         *)
(* The result of pthread_create is ignored (App.cpp:64, APNS.cpp:160,      *)
(* 181): when it fails no thread is born, and what the id variable holds   *)
(* then is kept for the join.  POSIX leaves that undefined: the value from *)
(* before or any other.  Joining what is not a thread, or was joined       *)
(* before, is undefined too: it fails or takes the process down.           *)
(***************************************************************************)
EXTENDS Naturals, Sequences, FiniteSets

CONSTANTS Workers,      \* the WorkerThreads (app.threads.worker)
          Slots,        \* the threads of one APNS object, feedback included
          Stray,        \* an id that belongs to no thread of ours
          MaxFailures   \* bound on the failures of pthread_create

Ssl == Workers \X Slots
Threads == Workers \cup Ssl
Ids == Threads \cup {Stray}

ASSUME ThreadAssumption ==
  /\ Workers \cap Ssl = {} /\ Stray \notin Threads
  /\ IsFiniteSet(Workers) /\ IsFiniteSet(Slots)
ASSUME FailureAssumption == MaxFailures \in Nat

VARIABLES
  main,        \* where main() is
  done,        \* App's done flag
  stats,       \* App::_stats, the StompStats object: "none", "up", "deleted"
  workers,     \* App::_workers, ids to join
  thread,      \* per thread: where it is
  apns,        \* per worker: _apns is "null", "up", "done" (set_done), "deleted"
  sslThreads,  \* per worker: _sslThreads
  sslThread_id,  \* per worker: the variable of APNS::start
  tried,       \* threads pthread_create was called for
  joined,      \* threads that were joined
  \* history
  failures,    \* pthread_create failed that often
  badId,       \* a failed pthread_create left another id than that of the
               \* thread created before
  thrown       \* a constructor threw

mainVars == <<main, workers, stats>>
apnsVars == <<apns, sslThreads, sslThread_id>>
history == <<failures, badId, thrown>>
vars == <<main, done, stats, workers, thread, apns, sslThreads, sslThread_id,
          tried, joined, failures, badId, thrown>>

Init ==
  /\ main = "start" /\ done = FALSE /\ stats = "none" /\ workers = <<>>
  /\ thread = [t \in Threads |-> "unborn"]
  /\ apns = [w \in Workers |-> "null"]
  /\ sslThreads = [w \in Workers |-> {}]
  /\ sslThread_id = [w \in Workers |-> Stray]
  /\ tried = {} /\ joined = {}
  /\ failures = 0 /\ badId = FALSE /\ thrown = FALSE

Alive == main \notin {"exited", "aborted"}

Goto(t, place) == thread' = [thread EXCEPT ![t] = place]

-----------------------------------------------------------------------------
(* pthread_create and pthread_join                                         *)

Create(t) ==
  /\ t \notin tried
  /\ tried' = tried \cup {t}
  /\ Goto(t, "born")
  /\ UNCHANGED history

CreateFails(t) ==
  /\ t \notin tried
  /\ tried' = tried \cup {t}
  /\ failures < MaxFailures
  /\ failures' = failures + 1
  /\ UNCHANGED <<thread, thrown>>

\* The id of a thread that can be joined.
Joinable(id) == id \in Threads \ joined /\ thread[id] # "unborn"

\* Faulty variant: the thread is detached.
ReapNoWait(id) ==
  IF Joinable(id) THEN joined' = joined \cup {id} ELSE UNCHANGED joined

\* pthread_join blocks until the thread has returned; given anything else it
\* may return an error.
Reap(id) ==
  IF Joinable(id)
    THEN thread[id] = "exited" /\ joined' = joined \cup {id}
    ELSE UNCHANGED joined

\* pthread_join takes the process down.
Undefined(id) ==
  /\ ~Joinable(id)
  /\ main' = "aborted"
  /\ UNCHANGED <<done, stats, workers, thread, apnsVars, tried, joined, history>>

-----------------------------------------------------------------------------
(* main() and App                                                          *)

\* app->start(): onInitializeThreads() makes _stats first.
StartStats ==
  /\ main = "start"
  /\ main' = "create"
  /\ stats' = "up"
  /\ UNCHANGED <<done, workers, thread, apnsVars, tried, joined, history>>

CreateWorker(w) ==
  /\ main = "create"
  /\ Create(w)
  /\ workers' = Append(workers, w)
  /\ UNCHANGED <<main, stats, done, apnsVars, joined>>

\* thread_id is a new variable in every round: whatever it holds is the id of
\* no thread created before.
WorkerFails(w, id) ==
  /\ main = "create"
  /\ CreateFails(w)
  /\ workers' = Append(workers, id)
  /\ badId' = TRUE
  /\ UNCHANGED <<main, stats, done, apnsVars, joined>>

\* start() returns; main() sleeps until is_done().
Wait ==
  /\ main = "create"
  /\ Workers \subseteq tried
  /\ main' = "wait"
  /\ UNCHANGED <<stats, workers, done, thread, apnsVars, tried, joined, history>>

rcvSigint ==
  /\ Alive /\ ~done
  /\ done' = TRUE
  /\ UNCHANGED <<mainVars, thread, apnsVars, tried, joined, history>>

\* Faulty variant: the list of workers is cleared, not joined.
StopAtOnce ==
  /\ main = "wait" /\ done
  /\ main' = "join"
  /\ workers' = <<>>
  /\ UNCHANGED <<stats, done, thread, apnsVars, tried, joined, history>>

\* app->stop(): onDeinitializeThreads().
Stop ==
  /\ main = "wait" /\ done
  /\ main' = "join"
  /\ UNCHANGED <<stats, workers, done, thread, apnsVars, tried, joined, history>>

\* Faulty variant: the id is taken off the list only when it is the last one.
JoinAndKeep ==
  /\ main = "join" /\ workers # <<>>
  /\ Reap(Head(workers))
  /\ workers' = IF Len(workers) = 1 /\ Head(workers) \in joined
                  THEN <<>> ELSE workers
  /\ UNCHANGED <<main, stats, done, thread, apnsVars, tried, history>>

JoinWorker ==
  /\ main = "join" /\ workers # <<>>
  /\ Reap(Head(workers))
  /\ workers' = Tail(workers)
  /\ UNCHANGED <<main, stats, done, thread, apnsVars, tried, history>>

JoinWorkerUndefined ==
  /\ main = "join" /\ workers # <<>>
  /\ Undefined(Head(workers))

DeleteStats ==
  /\ main = "join" /\ workers = <<>>
  /\ main' = "delete"
  /\ stats' = "deleted"
  /\ UNCHANGED <<workers, done, thread, apnsVars, tried, joined, history>>

\* delete app, and main() returns: the process ends.
DeleteApp ==
  /\ main = "delete"
  /\ main' = "exited"
  /\ UNCHANGED <<stats, workers, done, thread, apnsVars, tried, joined, history>>

-----------------------------------------------------------------------------
(* App::WorkerThread                                                       *)

\* new Worker: reads the configuration and registers with _stats.
NewWorker(w) ==
  /\ thread[w] = "born"
  /\ Goto(w, "init")
  /\ UNCHANGED <<mainVars, done, apnsVars, tried, joined, history>>

\* init(): the Stomp client and the Store with its database and memcached.
InitStore(w) ==
  /\ thread[w] = "init"
  /\ Goto(w, "store")
  /\ UNCHANGED <<mainVars, done, apnsVars, tried, joined, history>>

\* Faulty variant: somebody catches the exception and carries on.
InitThrowsQuietly(w) ==
  /\ thread[w] = "init"
  /\ Goto(w, "loop")
  /\ thrown' = TRUE
  /\ UNCHANGED <<mainVars, done, apnsVars, tried, joined, failures, badId>>

\* Only bad_alloc is caught: what the constructor of MemcachedController
\* throws ends the process.
InitThrows(w) ==
  /\ thread[w] = "init"
  /\ main' = "aborted"
  /\ thrown' = TRUE
  /\ UNCHANGED <<stats, workers, done, thread, apnsVars, tried, joined,
                 failures, badId>>

NewApns(w) ==
  /\ thread[w] = "store"
  /\ Goto(w, "start")
  /\ apns' = [apns EXCEPT ![w] = "up"]
  /\ UNCHANGED <<mainVars, done, sslThreads, sslThread_id, tried, joined, history>>

\* One round of APNS::start().
CreateSsl(w, s) ==
  /\ thread[w] = "start"
  /\ Create(<<w, s>>)
  /\ sslThread_id' = [sslThread_id EXCEPT ![w] = <<w, s>>]
  /\ sslThreads' = [sslThreads EXCEPT ![w] = @ \cup {<<w, s>>}]
  /\ UNCHANGED <<mainVars, done, apns, joined>>

\* Nothing was created yet: sslThread_id has no value.
Unset(w) == \A s \in Slots : thread[<<w, s>>] = "unborn"

\* One variable serves all rounds.  It may be left as it was, with the id of
\* the thread before, which is in the set already; or with anything else.
SslFails(w, s) ==
  /\ thread[w] = "start"
  /\ CreateFails(<<w, s>>)
  /\ \E id \in Ids :
       /\ sslThread_id' = [sslThread_id EXCEPT ![w] = id]
       /\ sslThreads' = [sslThreads EXCEPT ![w] = @ \cup {id}]
       /\ badId' = (badId \/ Unset(w) \/ id # sslThread_id[w])
  /\ UNCHANGED <<mainVars, done, apns, joined>>

Started(w) ==
  /\ thread[w] = "start"
  /\ {w} \X Slots \subseteq tried
  /\ Goto(w, "loop")
  /\ UNCHANGED <<mainVars, done, apnsVars, tried, joined, history>>

\* while( !a->is_done() ) run() ends.
LeaveLoop(w) ==
  /\ thread[w] = "loop"
  /\ done
  /\ Goto(w, "destroy")
  /\ UNCHANGED <<mainVars, done, apnsVars, tried, joined, history>>

\* delete worker: onDestroyStats().
DestroyStats(w) ==
  /\ thread[w] = "destroy"
  /\ Goto(w, "stop")
  /\ UNCHANGED <<mainVars, done, apnsVars, tried, joined, history>>

\* Faulty variant: the flag is not set.
StopApnsUnset(w) ==
  /\ thread[w] = "stop"
  /\ Goto(w, "join")
  /\ UNCHANGED <<mainVars, done, apnsVars, tried, joined, history>>

\* _apns->stop() through a pointer that is tested only in the line below.
StopApns(w) ==
  /\ thread[w] = "stop"
  /\ Goto(w, "join")
  /\ apns' = [apns EXCEPT ![w] = "done"]
  /\ UNCHANGED <<mainVars, done, sslThreads, sslThread_id, tried, joined, history>>

JoinSsl(w, id) ==
  /\ thread[w] = "join"
  /\ id \in sslThreads[w]
  /\ Reap(id)
  /\ sslThreads' = [sslThreads EXCEPT ![w] = @ \ {id}]
  /\ UNCHANGED <<mainVars, done, thread, apns, sslThread_id, tried, history>>

JoinSslUndefined(w, id) ==
  /\ thread[w] = "join"
  /\ id \in sslThreads[w]
  /\ Undefined(id)

\* delete _apns, _store (with its connections) and _stomp; return NULL.
DeleteWorker(w) ==
  /\ thread[w] = "join"
  /\ sslThreads[w] = {}
  /\ Goto(w, "exited")
  /\ apns' = [apns EXCEPT ![w] = "deleted"]
  /\ UNCHANGED <<mainVars, done, sslThreads, sslThread_id, tried, joined, history>>

-----------------------------------------------------------------------------
(* APNS::SslThread and APNS::FeedbackThread                                *)

\* Reads app->cfg and makes its controller.
NewController(w, s) ==
  /\ thread[<<w, s>>] = "born"
  /\ Goto(<<w, s>>, "loop")
  /\ UNCHANGED <<mainVars, done, apnsVars, tried, joined, history>>

\* if ( apns->is_done() ) break;
EndThread(w, s) ==
  /\ thread[<<w, s>>] = "loop"
  /\ apns[w] = "done"
  /\ Goto(<<w, s>>, "exited")
  /\ UNCHANGED <<mainVars, done, apnsVars, tried, joined, history>>

-----------------------------------------------------------------------------
Main ==
  \/ StartStats \/ Wait \/ Stop \/ JoinWorker \/ JoinWorkerUndefined
  \/ DeleteStats \/ DeleteApp
  \/ \E w \in Workers : CreateWorker(w) \/ \E id \in Ids : WorkerFails(w, id)

WorkerThread(w) ==
  \/ NewWorker(w) \/ InitStore(w) \/ InitThrows(w) \/ NewApns(w) \/ Started(w)
  \/ LeaveLoop(w) \/ DestroyStats(w) \/ StopApns(w) \/ DeleteWorker(w)
  \/ \E s \in Slots : CreateSsl(w, s) \/ SslFails(w, s)
  \/ \E id \in Ids : JoinSsl(w, id) \/ JoinSslUndefined(w, id)

SslThread(w, s) == NewController(w, s) \/ EndThread(w, s)

Next ==
  \/ Main \/ rcvSigint
  \/ Alive /\ \E w \in Workers :
       WorkerThread(w) \/ \E s \in Slots : SslThread(w, s)

Spec == Init /\ [][Next]_vars

\* No thread is descheduled for ever; run() returns, because its calls time
\* out, and so does a round of an SslThread.  Nobody has to send a signal.
Fairness ==
  /\ WF_vars(Main)
  /\ \A w \in Workers :
       /\ WF_vars(Alive /\ WorkerThread(w))
       /\ \A s \in Slots : WF_vars(Alive /\ SslThread(w, s))

FairSpec == Spec /\ Fairness

-----------------------------------------------------------------------------
(* Properties                                                              *)

\* Types; and nothing is joined that has not returned.
TypeOK ==
  /\ main \in {"start", "create", "wait", "join", "delete", "exited", "aborted"}
  /\ done \in BOOLEAN /\ stats \in {"none", "up", "deleted"}
  /\ workers \in Seq(Ids)
  /\ thread \in [Threads -> {"unborn", "born", "init", "store", "start", "loop",
                             "destroy", "stop", "join", "exited"}]
  /\ apns \in [Workers -> {"null", "up", "done", "deleted"}]
  /\ sslThreads \in [Workers -> SUBSET Ids]
  /\ sslThread_id \in [Workers -> Ids]
  /\ tried \subseteq Threads /\ joined \subseteq Threads
  /\ \A t \in joined : thread[t] = "exited"
  /\ failures \in 0 .. MaxFailures /\ badId \in BOOLEAN /\ thrown \in BOOLEAN

Running(t) == thread[t] \notin {"unborn", "exited"}

\* Nothing is deleted under those who use it, even if some pthread_create
\* failed, and whatever ids that left: StompStats exists while a worker does
\* (App.cpp:83, Worker.cpp:64), an APNS object while its threads do
\* (Worker.cpp:67), and the global app, whose configuration they all read,
\* until every thread has returned (main.cpp:91, APNS.cpp:226).
OutlivesItsUsers ==
  /\ \A w \in Workers : Running(w) => stats = "up"
  /\ \A w \in Workers, s \in Slots : Running(<<w, s>>) => apns[w] \in {"up", "done"}
  /\ main = "exited" => \A t \in Threads : ~Running(t)

\* The destructor of Worker calls _apns->stop() before it tests _apns
\* (Worker.cpp:66-67).  The pointer is never NULL there: a worker that did
\* not get that far never gets to its destructor.
StopsWhatItStarted ==
  \A w \in Workers : thread[w] = "stop" => apns[w] = "up"

\* The process goes down only if a constructor threw, or a creation that failed
\* left another id than that of the thread before; of such an id nothing is
\* claimed.  A failure in APNS::start() that leaves the variable as it was does
\* no harm: that id is in the set already, and is joined once (APNS.cpp:160-166,
\* 206).
AbortNeedsCause == main = "aborted" => thrown \/ badId

\* Nobody is in a pthread_join, or in a loop that only a flag ends.
MainAble ==
  /\ main = "wait" => done
  /\ main = "join" /\ workers # <<>> =>
       ~Joinable(Head(workers)) \/ thread[Head(workers)] = "exited"

WorkerAble(w) ==
  /\ Running(w)
  /\ thread[w] = "loop" => done
  /\ thread[w] = "join" /\ sslThreads[w] # {} =>
       \E id \in sslThreads[w] : ~Joinable(id) \/ thread[id] = "exited"

SslAble(w, s) ==
  thread[<<w, s>>] = "born" \/ (thread[<<w, s>>] = "loop" /\ apns[w] = "done")

\* After SIGINT the threads never all wait for one another: as long as the
\* process lives main() or a thread of it can go on, whenever the signal came
\* (App.cpp:79, APNS.cpp:206), and also after creations failed, unless one left
\* another id than that of the thread before.
NobodyWaits ==
  done /\ Alive /\ ~badId =>
    MainAble \/ \E w \in Workers : WorkerAble(w) \/ \E s \in Slots : SslAble(w, s)

\* After SIGINT the process ends, whenever the signal comes (while the threads
\* are being created, too), unless a creation that failed left another id than
\* that of the thread before.
SigintEnds == done ~> (~Alive \/ badId)
=============================================================================
