# apnspusher in TLA+

apnspusher is a daemon: its workers take APRS notification messages off a STOMP
topic, look up the Apple devices registered for the addressee (memcached in
front of MySQL), and hand one push notification per device to Apple's gateway
through threads that each keep an SSL connection. This directory holds TLA+
modules of that program, TLC configurations and TLAPS proofs.

Paths are relative to the root of the repository under `src/` (so
`src/src/Worker.cpp` is the worker).

## Inventory

| Part | State it keeps | Operations | Hard because |
|---|---|---|---|
| `APNS` (src/src/APNS.cpp) | `_message_q`, `_feedback_q`, `_done`, `_sslThreads` | start, push, stop, SslThread, FeedbackThread | several threads drain one queue; stop and delete while they run; the queue is memory only |
| `Worker` (src/src/Worker.cpp) | `_connected`, counters, the frame and rows in hand | run, process_message, event_message_to_apns | acks, redelivery, a broken link it does not know of, crashes between two steps |
| `Store` (src/src/Store.cpp) | `_last_cache_fail_at`, two sets of counters | register lookup, breaker, reports | cache shared by workers; slow fills; swallowed errors; a result read uninitialised |
| `MemcachedController` | connection | get, put | exceptions for long keys and errors |
| `DBI_Apns` | connection, prepared statements | lookup query, insert of a push record | exceptions turned into "0 rows", so that a failed INSERT goes unnoticed |
| `App`, `main` | done flag, `_workers`, StompStats | start and join threads, signals | order of shutdown; results of pthread_create ignored, undefined ids joined; exceptions nobody catches |
| `apnspusher.botchk`, `update.sh` | pid file, `$botpid` | restart | two scripts over one pid file; a pid that is somebody else's by now |

How they interact. A worker thread owns one `Worker`, which owns one `Store`,
one `APNS` and one STOMP client. The worker calls `Store` synchronously and
`APNS::push` asynchronously: the queue is the only thing the worker and the push
threads share, with the flag `_done`. Workers share nothing in the process
except the done flag of `App` and `StompStats`; they share memcached, the
database and the topic. Supervision is by signals and the pid file.

What makes each part correct:

* APNS: no message in two places, no lost message before `stop()`, bounded
  controllers, no thread outlives the object, shutdown ends.
* Worker: ack only after the pushes; duplicates only as a consequence of
  failures; the table of pushes and the pushes differ by no more than failures
  excuse; every message has one fate and is settled; a lost link replaced.
* Store: the age of an answer is bounded, and an answer of the register is true
  when it is given; the breaker spares a lookup the second
  timeout; what a report says adds up.
* App: threads end before what they use is deleted; the process ends when told.
* Supervision: one instance, the one the pid file names; it comes back.
* All of it, from the topic to the devices: a message that is acknowledged
  reaches every device it was queued for unless the program ends; nothing is
  pushed more often than failures excuse.

## Modules

| Module | Models | State and actions |
|---|---|---|
| `PushChannel` | what APNS promises: a volatile at-most-once channel | accepted, delivered, lost, open; Accept, Deliver, Close, Discard, Crash |
| `APNS` | class APNS | one `pc` per thread; the owner's calls and each round of the loops are actions. `sendq[t]` is what the external PushController of thread t holds, `gateway` what it handed over |
| `APNSProofs` | | proofs about APNS |
| `Worker` | class Worker, the loop of `App::WorkerThread`, the broker, the link, the process | `pc` is the worker's place; one action per statement that changes state, each way out of `run()` an action of its own |
| `WorkerStats` | `_stats` of Worker | counters on top of the actions of Worker |
| `Store` | the lookup of Store, MemcachedController and DBI_Apns for several workers | per worker a `pc` idle / sql / put; memcached, database and clock shared |
| `Directory` | what Store promises a worker | clock, register, who waits for an answer, the last answer; Tick, Change, Ask, Fail, Fresh, Cached. There is no cache in it |
| `StoreStats` | `_stats` of Store | counters on top of the actions of Store, and the memcached errors of a lookup |
| `Notifier` | what the whole program promises between the topic and the devices | Push, Notify, Settle; Fault, Stop, Forget, Die, Restart |
| `ApnsPusher` | Worker over PushChannel in one process | `APNS::push` happens in the step of Worker that pops the row; the destructor closes the channel and waits until it is empty; a crash takes both. A queued `ApnsMessage` is a ticket: message, row and which push of the two |
| `Program` | Worker and the APNS object it makes, uses and destroys, over crashes and restarts | the actions of `APNS` as the owner takes them: created by init(), pushed into by the step that pops a row, stopped, joined and deleted by the destructor; the process dies with all of it and a new one starts from an empty queue |
| `Lifecycle` | main(), App, WorkerThread, the constructors and destructors of Worker, Store and APNS, the threads of each APNS object | `main` is the place of main(), `thread[t]` that of a thread; one action per call that changes what others see: pthread_create and its failure, an exception, each join, each delete |
| `Supervisor` | apnspusher.botchk, update.sh, the pid file, the processes | `pc` per script, one action per command; `proc` says what each pid is |
| `APNSProofs`, `WorkerProofs`, `WorkerStatsProofs`, `StoreProofs`, `ApnsPusherProofs`, `ProgramProofs`, `LifecycleProofs`, `SupervisorProofs` | | proofs about the module of that name (`StoreProofs` about `StoreStats` too) |
| `MC*` | | model values for TLC |

`WorkerStats` and `StoreStats` extend their component. `ApnsPusher` extends
`Worker` and instantiates `PushChannel`, which `APNS` is shown to implement.
`Program` extends `APNS` and puts it in the place of that channel: it instantiates
`ApnsPusher` with accepted = everything in the queue, the controllers, at the gateway
or dropped, and open = not `_done`, takes the worker's steps from there, and is shown
to implement it. So what is proved of `ApnsPusher` holds of the real push threads:
`Program` implements `ApnsPusher`, which implements `Notifier`. `Store`
implements `Directory`. `Lifecycle`
and `Supervisor` stand on their own: in `Lifecycle` the threads just run until
they see their done flag, in `Supervisor` the program is a process that writes
its pid, and ends some time after SIGINT.

`Faulty variant` operators are single-definition mistakes (a dropped guard, an
off-by-one, a swapped order). No action uses them: they exist to show that the
property named for them in PROJECT.json notices the mistake.

External parts are modelled from their use. `ThreadQueue` is an atomic FIFO.
`PushController::run` sends any part of what it holds. `FeedbackController::getQueue`
returns any messages not returned before. The broker sends up to the prefetch
window, sends unacknowledged messages again after a lost link or discards them
(the destination is a topic), and discards or keeps what is published while
nobody is connected. An ack on a lost link has no effect. A reconnect starts
with an empty buffer. memcached may drop an item at any time, and a write that
reports an error may have been done. Registrations change at any time.
An INSERT into `apns_push` may fail; the worker logs it and pushes all the same.
`pthread_create` may fail, and POSIX leaves the id variable undefined then: a new
variable in every round in App.cpp:64, one for all rounds in APNS.cpp:160, where it
may still have the id of the thread before or any other value. Joining an id that is no
thread's, or was joined before, is undefined: it returns an error or takes the
process down. Every process may crash, a pid that is free may be given to
another process of the same user, and that one ends, or ignores SIGINT, as it
likes. cron starts its job at any time, update.sh is run at any time.

Abstractions. Message texts, device tokens and headers are model values; a
token is good or rejected, a body parses or not. The rows of a lookup are a set:
their order in the deque decides nothing. In `Worker` a lookup returns any set
of rows (none on an error); what it may return is the subject of `Store`. In
`Store` the text of a cache item is a set of rows; a row with a stray comma makes
the item unparsable (the number of fields is then no multiple of three). In
`ApnsPusher` the destructor's `_apns->stop()` is a step of its own before the
end of the process, as the push threads go on meanwhile. In `Lifecycle` the
order in which the threads of one APNS object are created and joined is open
(the code joins in the order of a std::set of ids). In `Supervisor` a `test` and
the `cat` after it are two steps; `svn update` and `make` happen before `Update`.

## Runs

| Run | Instance | Shows |
|---|---|---|
| `apns_queue` | 2 push threads, feedback thread, 2 messages, 2 feedback messages, maxqueue 1 | TypeOK, InOnePlace, Backpressure, NoUseAfterDelete, FeedbackConserved, ShutdownRunsOut, ChannelSpec (refinement), HandedOver, StopEnds |
| `worker_safety` | 1 pushable and 1 unparsable message, 1 unusable frame, 1 good and 1 bad row, prefetch 2, 2 broken links, 1 failed INSERT, 1 crash, 1 stop, with the counters | TypeOK, AckAfterQueue, DuplicatesNeedFailure, RecordsMatchPushes, OneFate, DisconnectsCountedOnce |
| `worker_live` | the same messages and rows, prefetch 1, 1 broken link, 1 failed INSERT, 1 crash, 1 stop | EventuallySettled, Resubscribes |
| `pusher_service` | 1 message for 2 devices, 1 unusable frame, prefetch 1, 1 broken link, 1 failed INSERT, 1 crash, 1 stop | PusherTypeOK, SentMeansSent, OncePerPromise, ServiceSpec (refinement of Notifier), PromiseKept |
| `program_pipeline` | 1 push thread, feedback thread, 1 message for 1 device, maxqueue 1, 1 broken link, 1 failed INSERT, 1 crash, 1 stop, at most 3 pushes of the message | OneLife, PipelineSpec (refinement of ApnsPusher), PromiseDelivered |
| `lifecycle_stop` | 2 workers with 2 threads each, 1 pthread_create that fails and leaves any id, constructors that throw, SIGINT at any step | TypeOK, OutlivesItsUsers, StopsWhatItStarted, AbortNeedsCause, NobodyWaits, SigintEnds |
| `supervisor_restart` | 4 pids, 1 crash, 1 update, 1 pid used again | TypeOK, OneTrackedInstance, Restarted, UpdateEnds |
| `worker_frames` | as worker_safety without bad row, failed INSERT, crash and stop, and with 1 broken link | violation: frames are counted twice |
| `store_staleness` | 2 workers, 1 callsign with no row, one row or one odd row, lifetime 2, breaker 0, lookup 1, 3 ticks, memcached errors of one worker only, symmetry | BoundedStaleness, DirectorySpec (refinement of Directory) |
| `store_lookup` | 1 worker, an ordinary and an overlong callsign, a row that makes its item unparsable, lifetime, breaker and lookup 1, 3 lookups, 2 ticks, with the counters | TypeOK, OneFailurePerLookup, StatsReconcile |
| `store_notfound` | 1 worker, 1 callsign | violation: a failed query is cached as not found |
| `store_hits` | as store_lookup | violation: a get that throws may count as a hit |

Why the bounds are enough. In apns_queue one thread can act
between any two steps of the other, and with maxqueue 1 a full controller stands
next to a queue that is not empty, or next to one that has room. One broken link and one crash can
each strike at every step, two of them in either order, and with prefetch 2 a
frame of the old link is still buffered when the link breaks. Time is scaled: a
lifetime of 2 and a lookup of 1 let a slow put, a change, a hit in the last
second of an item and its expiry follow each other within the 3 ticks.
The breaker holds 0 there, so that it hides no cache access that could go wrong;
store_lookup is the run about the breaker. The
constraint OneUnlucky lets memcached fail one of the two workers as often as it
likes and the other never: what an error leaves behind is private to its worker.
Two workers are enough for a slow put to overwrite a newer item. The bounds are
MaxNoise, MaxDrops, MaxCrashes, MaxStops (what the environment may do), MaxFails
(INSERTs into apns_push that fail),
MaxConnects (subscription attempts per reporting window), MaxTime, MaxLookups,
MaxTickets (pushes of one message to one device), MaxFailures (of pthread_create),
MaxUpdates and MaxReuses (of the scripts and pids).
In pusher_service two devices let a crash or a stop fall between the two pushes
of one message, before and after each is delivered, and a broken link makes the
message come again; the unusable frame is let go of while pushes are in transit.
Messages that do not parse are in the worker's own runs: they never reach the
channel.
program_pipeline has the one push thread the code defaults to (`app.apns.push`) and
one message, which a broken link and a crash let come again, so that at most 3
pushes of it happen; what two threads do to one queue is in apns_queue, and the
theorems about Program are for any number. With maxqueue 1 the thread meets a
full controller.
One failed INSERT strikes at the first push of a message, at the push of a second
delivery, or next to a crash.
In lifecycle_stop one failure strikes at every creation, the first of an object, a
later one or that of a worker, and leaves every id: that of the thread before, of
any other thread (born, still to be born, or joined) and of none. Two workers
and two threads each are the least at which one is joined while another still
starts. In supervisor_restart four pids are enough for a program that ends, one
that boots, a process of somebody else, and one more; where a script would start
another with no pid left over, `Room` holds the step back. One crash, one update
and one reused pid fall in every order between the commands of both scripts.

Deadlock is not checked in apns_queue (the object is deleted in the end), in
lifecycle_stop (the process ends), in the Store runs that bound the number of
lookups, and in worker_safety (MaxConnects bounds the attempts). In worker_live,
pusher_service, program_pipeline, store_staleness and supervisor_restart it is.

Fairness. In `APNS` every thread and the owner's start-up and shutdown are
weakly fair: `usleep` returns and mutexes are released. `Deliver` is strongly
fair per message: a controller whose `run()` is called again and again sends a
message it holds at last. Pushing and stopping are never required. In `Worker`
the worker is weakly fair, a subscription that is tried again and again succeeds
at last, reading a broken link throws at last (the client asks for a heart-beat
every 5 s), the broker sends at last what it may send, and the program is started
again (cron job). Publishing, failures and stops are never required.
`ApnsPusher` has the fairness of `Worker`, and the push threads together: while
something is in transit one of them hands something over or, once told to stop,
gives something up, which is what HandedOver and StopEnds of `APNS` say of them.
`Program` has the fairness of `Worker` for the worker, which takes the owner's part
too, and that of `APNS` for each thread; of the gateway it asks less, that a
controller which runs again and again hands over something it holds.
In `Lifecycle` main() and each thread are weakly fair: run() returns because its
calls time out, and so does a round of a push thread; nobody has to send a
signal. In `Supervisor` cron runs its job again and again, a script that runs goes
on, and the program boots, and ends after SIGINT; nothing is asked of processes of
others, which is why Restarted and UpdateEnds name them as their exception.

## What is proved

Every theorem holds for all values of the constants that satisfy the module's
named ASSUMEs, in particular for any bound on failures, so for any number of
them. Each rests on an inductive invariant (`IInv`, or `PInv`, `StatsInv`) whose
conjuncts have a step lemma each.

`APNSProofs`, for every finite set of threads, every set of messages and every
maxqueue of at least 1: `TypeCorrect`, `AtMostOnce`, `QueueBound`,
`JoinBeforeDelete`, `FeedbackKept` are the five invariants of apns_queue, and
`ImplementsChannel` says that Spec implements PushChannel under the mapping
accepted = queued, held, sent or dropped; open = not done. The invariant adds
`Lifecycle` (how far the owner got, and what that means for `_done`, the set of
threads to join and the threads' places) and `FeedbackLocal` (the local set is
empty outside the copy loop): a message may be dropped by a quitting thread only
because a thread at "quit" saw `_done`, and the object is deleted only when the
set of threads is empty, and a running thread is in it. maxqueue comes from the
configuration; a value of 0 would switch pushing off.

`ShutdownIsFinite` (ShutdownRunsOut) is the safety core of StopEnds: `Left` names
what is left to do after stop() (stages of the loop to come to, messages to take off
the queue, to hand over and to copy, threads to join, the delete); its parts are
finite, and once `_done` is set every step takes something off one of them and gives
nothing back. So no controller, queue or local set, however full, starts another
round. One fetch may still bring every report of the gateway, so the theorem
assumes that these are finitely many. It says nothing of whether a next step is
taken: that is the fairness TLC checks.

`WorkerProofs`, for every set of messages and rows and every prefetch window:

* `AcksAfterQueueing` (AckAfterQueue). The invariant adds `RowsInv`: until the
  loop over the rows ends, a good row that was found is queued or still to come.
* `RecordsAndPushes` (RecordsMatchPushes) is inductive with the types. It speaks of
  the rows of the table `apns_push`, not of calls: a push for a good token has its
  row unless an INSERT failed, a row has its push unless the process died between
  the two or is between them now. Of a row for a token that `ApnsMessage` rejects
  it says nothing; such a row is written and no push follows (Worker.cpp:303-325).
* `DuplicatesBounded` (DuplicatesNeedFailure). A count of pushes alone is not
  inductive: a copy of the message that waits at the broker, lies in the buffer
  or is in the worker's hand may still be pushed. `PotentialInv` bounds the
  pushes plus those the copies can still lead to by one more than broken links
  and crashes; `LinkInv` says where copies can be (a message waits or is
  unacknowledged, never both; the buffer of a live link holds unacknowledged
  messages only, each once).
* `NothingVanishes` (OneFate): a published message is pending, unacknowledged,
  acknowledged or discarded, always one and never two of these, and a worker
  that has let go of its frame left none of it unacknowledged on a live link.
  `FateInv` is the bookkeeping of the broker, `AckedInv` adds that no copy of an
  acknowledged message is left in the buffer or in hand, which keeps a second
  ack and a second delivery apart; `LinkInv` of the item above does the rest.

`WorkerStatsProofs`: `LossesCountedOnce` (DisconnectsCountedOnce), with the fact
that a worker that reads believes in its connection.

`StoreProofs`, for any number of workers and callsigns and every lifetime, hold
and length of a lookup: `AnswersNotStale` (BoundedStaleness). `Present` says that
what the register holds is true now, `LookupInv` that what a worker is about to
write was true after its lookup began, `ItemInv` that an item was true no longer
than a lookup before it was written; time passing keeps each since the past does
not change (`PastKept`).

`ImplementsDirectory` (DirectorySpec), over the same invariant: every step of
Store is a step of Directory or does not show in it. The mapping keeps of a worker
only which lookup it waits for. `Fresh` is stronger than the staleness bound: what a
worker returns after a query was the truth while its lookup lasted, although
another worker may have put something older into the cache in between (the
variant ReturnItem, which returns the item, breaks it). It follows from `LookupInv`;
`Cached` follows from `ItemInv` with the age of an unexpired item, and `Tick` from the
bound on a lookup's length.

On top of them, for `StoreStats`: `ReportsAddUp` (StatsReconcile) and
`BreakerHolds` (OneFailurePerLookup). The latter needs that a failure during the
lookup in progress set the time of the breaker no earlier than the lookup began;
it is claimed where a lookup takes no longer than the breaker's hold (60 s,
Store.h:93).

`ApnsPusherProofs`, for every topic, register and number of failures:

* `RunsWorker`: every step of the program is a step of Worker or leaves it
  alone, so the theorems about Worker hold of the whole program.
* `ImplementsNotifier` (ServiceSpec): from the topic to the devices the program
  implements Notifier. The mapping counts tickets, so the invariant says that
  there are as many accepted tickets for a message and row as pushes, none with a
  higher number (`TicketInv`), and the lemmas on `Tally` what adding a ticket to a finite set
  does to its count. `AckedInv` (no copy of an acknowledged message is left) keeps
  pushes after the ack out, `QueuedInv` makes what an ack promises a push,
  `ClosedInv` keeps losses to the way down.
* `PromisesAreSingle` (OncePerPromise): without a fault the tickets of an
  acknowledged message are exactly one per device it was queued for, and none is
  lost. `PromisedInv` says that a promise stands for at least one push,
  DuplicatesNeedFailure of Worker that there is at most one, `TicketInv` that
  tickets are pushes, and `ClosedInv` that nothing is lost while it serves.
* `RecordsAreSent` (SentMeansSent) takes `RecordsAndPushes` through the channel: with
  nothing in transit and nobody having ended the program, `ClosedInv` says that no
  ticket was lost, so the pushes are what was handed over; rows are no more than
  these, and fewer only by the INSERTs that failed.
* `PusherTypeCorrect` (PusherTypeOK).

`ProgramProofs`, for every topic, register, number of push threads and of failures:

* `ImplementsPusher` (PipelineSpec): each step of Program is one of ApnsPusher or
  shows nothing in it. It rests on the step lemmas of `APNSProofs` (what a push, a
  stop, a delete, a delivery, a quitting thread are to the channel) and on
  `ProcessInv`: the worker is in run() only between the start of its threads and
  stop(), and a thread that is not there holds nothing. This is why the process that
  ends leaves nothing in transit, which ApnsPusher demands of its end, and why a
  crash and the start of the next process are the `Crash` of the channel.
  Implementation is transitive, so with `ImplementsNotifier` Program implements Notifier; the
  conclusion itself is not stated as a theorem, because the prover cannot
  instantiate a theorem of another module.
* `LivesWithItsWorker` (OneLife): run() always finds its threads, and what it
  pushes is in the object nowhere yet, which is `CountInv`: no ticket has a
  number above the count of pushes. And when a process has ended or died no thread
  runs and nothing is queued or held.
* `SafeAcrossRestarts`: InOnePlace and Backpressure hold over crashes and restarts,
  where the step that makes a new object preserves the invariant of `APNSProofs`.

`LifecycleProofs`, for any number of workers and threads and any number of
failures: `DeletedLast` (OutlivesItsUsers), `StopNeverNull` (StopsWhatItStarted),
`AbortsExplained` (AbortNeedsCause) and `TypeCorrect`. The invariant ties the place
of a worker to its APNS object (`Places`), keeps every thread that was born in the
list of those to join until it is joined (`Listed`), and, as long as
every creation that failed left the id of the thread before, keeps the lists free of
anything else (`Exact`), so that no join is undefined. POSIX does not promise that
much: once a failed creation has left any other id (`badId`), AbortNeedsCause,
NobodyWaits and SigintEnds claim nothing, since the join of such an id may fail,
take the process down, or wait for a thread that somebody else waits for.
OutlivesItsUsers holds whatever ids were left.

The safety core of SigintEnds is proved too. `NoCircleOfJoins` (NobodyWaits): after
SIGINT, until the process has ended, main() or a thread has a step it can take:
main() waits for a worker that waits for a push thread that has been told to stop,
and none of them waits for one that waits for it. This needs `Exact`, so it is claimed
without a failure, and after failures that left the variable as it was. `StepsRunOut`: six sets say
what is left to do (creations, places to come to, ids to reap, workers to join, the
signal); they are finite, no step gives anything back, and every step takes
something. So no run of the process is longer than what is left, and it stops
nowhere before its end; that every enabled step is taken at last is the
fairness which only TLC checks (SigintEnds).

`SupervisorProofs`, for every finite set of pids: `NoSecondInstance`
(OneTrackedInstance) and `TypeCorrect`. The invariant says what a script at each of
its commands may rely on when nothing overlaps: past the test of the old process
there is none (`Alone`), and the file names the one there is (`Tracked`).

Only model-checked: all liveness (HandedOver, StopEnds, EventuallySettled,
Resubscribes, PromiseKept, PromiseDelivered, SigintEnds, Restarted, UpdateEnds), since the prover
does not reason about fairness and ENABLED, and the three runs that expect a
violation. Every invariant, every action property and every refinement a passing
run checks is also a theorem.

## What the checks found

* A usable frame is counted twice in "frames in" (Worker.cpp:219, 226).
* A failed query is cached as "not found" for an hour (DBI.cpp:99-111,
  Store.cpp:416-423): the devices of that callsign get no push meanwhile.
* `mcr` is read uninitialised after an exception (Store.cpp:224, 248); the lookup
  still falls back to the database (an empty item has no `fnd`), but the counters
  may count a hit that was none.

Seen while reading, without a run: nothing takes feedback messages off
`_feedback_q`, and the statement `i_apns_feedback` is never executed; the
configured `stomp.destination` is ignored, the worker always subscribes to
`/topic/notify.aprs.messages`; an exception of memcached's constructor in the
`init()` of a worker ends the process (only `bad_alloc` is caught), and so may the
join of whatever id a failed pthread_create left, of a worker or of a push thread;
if no push thread could be created the queue only grows;
an INSERT into `apns_push` that fails is only logged, and the push goes out without a
row (DBI.cpp:128-140, Worker.cpp:303-308), while a token that is rejected, or a crash
before the push, leaves a row that says sent='Y' for nothing; when the cron job and update.sh
overlap, or one begins while the program boots, both may erase the pid file and
start the program, and the instance the file does not name is never stopped;
update.sh interrupts, and then waits for, whatever process has the pid in the
file, and the cron job takes such a process for the program; the counters packets and frames_out are
reported but never incremented; the parameter names of the constructor
of `DBI_Apns` (db, host, user, pass) differ from the order in which `Store::init`
passes its arguments (host, user, pass, db).

## Order of work

| Step | Module | Content |
|---|---|---|
| 1 (done) | PushChannel, APNS, APNSProofs | queue, threads, refinement, proofs |
| 2 (done) | Worker, WorkerStats and their proofs | the loop, broker, failures, counters |
| 3 (done) | Store, StoreStats and their proofs | lookup, cache, breaker, counters |
| 4 (done) | Lifecycle, LifecycleProofs | App, main, WorkerThread, the destructors, StompStats: SIGINT, joins before deletes, a pthread_create that fails |
| 5 (done) | Notifier, ApnsPusher, ApnsPusherProofs | the composition, from the topic to the devices |
| 6 (done) | Supervisor, SupervisorProofs | botchk and update.sh over the pid file |
| 7 (done) | Directory | what a worker may believe of an answer, and that Store implements it |
| 8 (done) | Program, ProgramProofs | the real queue and threads in the place of the channel, over restarts |

## Not modelled

* The text of a cache item (Store.cpp: a comma-separated list). The splitting
  itself is done by `StringToken` and the register of variables by `Vars`, both
  from openframe, whose code is not in this repository; what matters to a lookup,
  whether the text can be read back, is in `Store` as OddRows.
* The message cache of Store (`getMessageFromMemcached`,
  `setMessageInMemcached`), `replace`, `flush` and the default expiry of
  MemcachedController: nothing calls them.
* `i_apns_feedback`: prepared, never executed.
* Several workers on one topic. Each has a subscription, a link and an APNS object
  of its own and pushes every message once more, by configuration; what they
  share, the cache, is in `Store`, and their common start and end in `Lifecycle`.
* Configuration setters, logging, the transport of statistics (openstats), the
  console mode of main and the publisher's command line: no state that the
  behaviour depends on.
* Build files, packaging and log rotation.
