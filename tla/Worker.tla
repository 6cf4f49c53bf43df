------------------------------- MODULE Worker -------------------------------
(***************************************************************************)
(* Class Worker (src/src/Worker.cpp): the loop that takes message frames   *)
(* off a STOMP subscription, looks up the devices registered for the       *)
(* target, records and queues one push per device, and acknowledges the    *)
(* frame.  The worker is sequential; pc is its place in App::WorkerThread, *)
(* Worker::run and event_message_to_apns.                                  *)
(*                                                                         *)
(* External, modelled from its use: the STOMP broker and the link to it,   *)
(* the process (killed, asked to stop, started again).  What a lookup      *)
(* finds is left open here: any set of rows, none when the database or the *)
(* cache fails.  The order of the rows is arbitrary.                       *)
(***************************************************************************)
EXTENDS Naturals, Sequences, FiniteSets, Functions

CONSTANTS Messages,   \* MESSAGE frames with a message-id
          Garbage,    \* those whose body lacks one of sr, to, ms, pa
          AckOnly,    \* those whose body has ao
          Noise,      \* a frame that is no MESSAGE or has no message-id
          NoFrame,    \* no frame is being processed
          Rows,       \* rows of apns_register
          BadTokens,  \* rows whose device token ApnsMessage rejects
          NoRow,      \* no row is being processed
          Prefetch,   \* openstomp.prefetch
          MaxNoise, MaxDrops, MaxCrashes, MaxStops,  \* bounds on the environment
          MaxFails    \* and on the INSERTs that fail

ASSUME MessageAssumption ==
  /\ Garbage \subseteq Messages /\ AckOnly \subseteq Messages
  /\ {Noise, NoFrame} \cap Messages = {} /\ Noise # NoFrame
ASSUME RowAssumption == BadTokens \subseteq Rows /\ NoRow \notin Rows
ASSUME BoundAssumption ==
  /\ Prefetch \in Nat \ {0}
  /\ MaxNoise \in Nat /\ MaxDrops \in Nat /\ MaxCrashes \in Nat /\ MaxStops \in Nat
  /\ MaxFails \in Nat

VARIABLES
  \* the broker
  published,  \* messages sent to the topic so far
  pending,    \* to be sent to the subscription
  unacked,    \* sent on the present link and not acknowledged
  acked,      \* acknowledged
  missed,     \* discarded: the broker kept nothing for an absent subscriber
  link,       \* the subscription's connection is up
  inflight,   \* frames sent that next_frame() has not returned yet
  \* the process
  done,       \* App's done flag, set by SIGINT
  pc,         \* where the worker is
  connected,  \* _connected
  frame,      \* frame
  res,        \* res: rows not processed yet
  row,        \* ar, once setApnsPush() was called for it
  \* history
  found,      \* rows the lookup for frame returned
  queued,     \* rows queued for frame in this run()
  records,    \* per message and row: rows of the table apns_push
  pushes,     \* per message and row: calls of APNS::push()
  noises, drops, crashes, stops,  \* what the environment did so far
  fails       \* INSERTs into apns_push that failed

broker == <<published, pending, unacked, acked, missed, link, inflight>>
process == <<done, pc, connected, frame, res, row>>
history == <<found, queued, records, pushes>>
counts == <<noises, drops, crashes, stops, fails>>
vars == <<published, pending, unacked, acked, missed, link, inflight,
          done, pc, connected, frame, res, row, found, queued, records, pushes,
          noises, drops, crashes, stops, fails>>

NoCalls == [m \in Messages |-> [r \in Rows |-> 0]]

Init ==
  /\ published = {} /\ pending = {} /\ unacked = {} /\ acked = {} /\ missed = {}
  /\ link = FALSE /\ inflight = <<>>
  /\ done = FALSE /\ pc = "idle" /\ connected = FALSE
  /\ frame = NoFrame /\ res = {} /\ row = NoRow
  /\ found = {} /\ queued = {} /\ records = NoCalls /\ pushes = NoCalls
  /\ noises = 0 /\ drops = 0 /\ crashes = 0 /\ stops = 0 /\ fails = 0

-----------------------------------------------------------------------------
(* The broker and the link                                                 *)

\* A topic need not keep anything for a subscriber that is not connected.
Publish(m) ==
  /\ m \notin published
  /\ published' = published \cup {m}
  /\ \/ pending' = pending \cup {m} /\ UNCHANGED missed
     \/ ~link /\ missed' = missed \cup {m} /\ UNCHANGED pending
  /\ UNCHANGED <<unacked, acked, link, inflight, process, history, counts>>

Send(m) ==
  /\ link
  /\ m \in pending
  /\ Cardinality(unacked) < Prefetch
  /\ pending' = pending \ {m}
  /\ unacked' = unacked \cup {m}
  /\ inflight' = Append(inflight, m)
  /\ UNCHANGED <<published, acked, missed, link, process, history, counts>>

\* A heart-beat, an ERROR or RECEIPT frame.
SendNoise ==
  /\ link
  /\ noises < MaxNoise
  /\ noises' = noises + 1
  /\ inflight' = Append(inflight, Noise)
  /\ UNCHANGED <<published, pending, unacked, acked, missed, link, process,
                 history, drops, crashes, stops, fails>>

\* The connection is gone: the broker sends some of the unacknowledged
\* messages again to the next connection and discards the others.
Hangup ==
  /\ link' = FALSE
  /\ unacked' = {}
  /\ \E K \in SUBSET unacked :
       /\ pending' = pending \cup K
       /\ missed' = missed \cup (unacked \ K)
  /\ UNCHANGED <<published, acked>>

\* The link breaks and the worker does not know.  What the client library
\* read before is still there.
Drop ==
  /\ link
  /\ drops < MaxDrops
  /\ drops' = drops + 1
  /\ Hangup
  /\ UNCHANGED <<inflight, process, history, noises, crashes, stops, fails>>

-----------------------------------------------------------------------------
(* The process: SIGINT, the end of WorkerThread, a crash, the next start   *)

Sigint ==
  /\ pc # "down" /\ ~done
  /\ stops < MaxStops
  /\ stops' = stops + 1
  /\ done' = TRUE
  /\ UNCHANGED <<broker, pc, connected, frame, res, row, history, noises,
                 drops, crashes, fails>>

\* Everything the process had in memory is gone.
Die ==
  /\ pc' = "down"
  /\ Hangup
  /\ inflight' = <<>>
  /\ done' = FALSE /\ connected' = FALSE
  /\ frame' = NoFrame /\ res' = {} /\ row' = NoRow
  /\ found' = {} /\ queued' = {}
  /\ UNCHANGED <<records, pushes>>

Crash ==
  /\ pc # "down"
  /\ crashes < MaxCrashes
  /\ crashes' = crashes + 1
  /\ Die
  /\ UNCHANGED <<noises, drops, stops, fails>>

\* Faulty variant: the flag is honoured between any two steps.
ExitAnywhere ==
  /\ pc # "down"
  /\ done
  /\ Die
  /\ UNCHANGED counts

\* while( !a->is_done() ) ends; delete worker.
Exit ==
  /\ pc = "idle"
  /\ done
  /\ Die
  /\ UNCHANGED counts

\* botchk starts the program again: new Worker, init().
Start ==
  /\ pc = "down"
  /\ pc' = "idle"
  /\ UNCHANGED <<broker, done, connected, frame, res, row, history, counts>>

-----------------------------------------------------------------------------
(* Worker::run                                                             *)

Goto(label) == pc' = label

\* The loop goes round: run() is called and looks at _connected.
Run ==
  /\ pc = "idle"
  /\ ~done
  /\ Goto(IF connected THEN "read" ELSE "connect")
  /\ UNCHANGED <<broker, done, connected, frame, res, row, history, counts>>

\* _stomp->subscribe() succeeds: a new connection with nothing on it.
Subscribe ==
  /\ pc = "connect"
  /\ connected' = TRUE
  /\ link' = TRUE
  /\ inflight' = <<>>
  /\ Goto("read")
  /\ UNCHANGED <<published, pending, unacked, acked, missed, done, frame, res,
                 row, history, counts>>

\* _stomp->subscribe() fails: sleep and try again.
SubscribeFails ==
  /\ pc = "connect"
  /\ Goto("idle")
  /\ UNCHANGED <<broker, done, connected, frame, res, row, history, counts>>

\* Faulty variant: acknowledges the message as soon as it has the frame.
ReadAndAck ==
  /\ pc = "read"
  /\ inflight # <<>>
  /\ inflight' = Tail(inflight)
  /\ frame' = Head(inflight)
  /\ Goto("usable")
  /\ unacked' = unacked \ {Head(inflight)}
  /\ acked' = IF link THEN acked \cup ({Head(inflight)} \cap unacked) ELSE acked
  /\ UNCHANGED <<published, pending, missed, link, done, connected, res, row,
                 history, counts>>

\* next_frame() returns a frame.
Read ==
  /\ pc = "read"
  /\ inflight # <<>>
  /\ inflight' = Tail(inflight)
  /\ frame' = Head(inflight)
  /\ Goto("usable")
  /\ UNCHANGED <<published, pending, unacked, acked, missed, link, done,
                 connected, res, row, history, counts>>

\* next_frame() times out; a broken link may look idle for a while.
ReadNothing ==
  /\ pc = "read"
  /\ inflight = <<>>
  /\ Goto("idle")
  /\ UNCHANGED <<broker, done, connected, frame, res, row, history, counts>>

\* Faulty variant: _connected is not cleared.
ReadThrowsUnnoticed ==
  /\ pc = "read"
  /\ ~link
  /\ inflight' = <<>>
  /\ Goto("idle")
  /\ UNCHANGED <<published, pending, unacked, acked, missed, link, done,
                 connected, frame, res, row, history, counts>>

\* next_frame() throws: the broken link is noticed, buffered frames are lost.
ReadThrows ==
  /\ pc = "read"
  /\ ~link
  /\ connected' = FALSE
  /\ inflight' = <<>>
  /\ Goto("idle")
  /\ UNCHANGED <<published, pending, unacked, acked, missed, link, done, frame,
                 res, row, history, counts>>

\* Faulty variant: what cannot be used is released and never acknowledged,
\* a message that does not parse included.
ReleaseUnparsed ==
  /\ pc = "usable"
  /\ frame \in {Noise} \cup Garbage
  /\ frame' = NoFrame
  /\ Goto("idle")
  /\ UNCHANGED <<broker, done, connected, res, row, history, counts>>

\* Not a MESSAGE with a message-id: release it without an ack.
Release ==
  /\ pc = "usable"
  /\ frame = Noise
  /\ frame' = NoFrame
  /\ Goto("idle")
  /\ UNCHANGED <<broker, done, connected, res, row, history, counts>>

\* process_message() returns early: a key is missing, or the message is an
\* acknowledgement only.  The frame is acknowledged all the same.
Ignore ==
  /\ pc = "usable"
  /\ frame \in Garbage \cup AckOnly
  /\ Goto("ack")
  /\ UNCHANGED <<broker, done, connected, frame, res, row, history, counts>>

\* getApnsRegisterByCallsign() returns the rows S, perhaps none.
Lookup(S) ==
  /\ pc = "usable"
  /\ frame \in Messages \ (Garbage \cup AckOnly)
  /\ res' = S
  /\ found' = S
  /\ Goto(IF S = {} THEN "ack" ELSE "row")
  /\ UNCHANGED <<broker, done, connected, frame, row, queued, records, pushes,
                 counts>>

\* setApnsPush(): the row is inserted, or the error is swallowed there and
\* what it returns is logged; the push follows in both cases.
Record(r) ==
  /\ pc = "row"
  /\ r \in res
  /\ row' = r
  /\ \/ records' = [records EXCEPT ![frame][r] = @ + 1] /\ UNCHANGED fails
     \/ fails < MaxFails /\ fails' = fails + 1 /\ UNCHANGED records
  /\ Goto("push")
  /\ UNCHANGED <<broker, done, connected, frame, res, found, queued, pushes,
                 noises, drops, crashes, stops>>

\* Faulty variant: the loop condition is not tested again.
PopRowAlways ==
  /\ res' = res \ {row}
  /\ row' = NoRow
  /\ Goto("row")

\* delete ar; res.pop_front();
PopRow ==
  /\ res' = res \ {row}
  /\ row' = NoRow
  /\ Goto(IF res' = {} THEN "ack" ELSE "row")

\* Faulty variant: a bad token ends the loop over the rows.
RejectAll ==
  /\ pc = "push"
  /\ row \in BadTokens
  /\ res' = {} /\ row' = NoRow
  /\ Goto("ack")
  /\ UNCHANGED <<broker, done, connected, frame, history, counts>>

\* new ApnsMessage throws: this row only is skipped.
Reject ==
  /\ pc = "push"
  /\ row \in BadTokens
  /\ PopRow
  /\ UNCHANGED <<broker, done, connected, frame, history, counts>>

\* Faulty variant: the row is not popped before the next round.
PushWithoutPop ==
  /\ pc = "push"
  /\ row \in Rows \ BadTokens
  /\ pushes[frame][row] < 4
  /\ pushes' = [pushes EXCEPT ![frame][row] = @ + 1]
  /\ queued' = queued \cup {row}
  /\ row' = NoRow
  /\ Goto("row")
  /\ UNCHANGED <<broker, done, connected, frame, res, found, records, counts>>

Push ==
  /\ pc = "push"
  /\ row \in Rows \ BadTokens
  /\ pushes' = [pushes EXCEPT ![frame][row] = @ + 1]
  /\ queued' = queued \cup {row}
  /\ PopRow
  /\ UNCHANGED <<broker, done, connected, frame, found, records, counts>>

\* ack() and release().  On a broken link the ack goes nowhere.
Ack ==
  /\ pc = "ack"
  /\ acked' = IF link THEN acked \cup ({frame} \cap unacked) ELSE acked
  /\ unacked' = IF link THEN unacked \ {frame} ELSE unacked
  /\ frame' = NoFrame
  /\ found' = {} /\ queued' = {}
  /\ Goto("idle")
  /\ UNCHANGED <<published, pending, missed, link, inflight, done, connected,
                 res, row, records, pushes, counts>>

-----------------------------------------------------------------------------
WorkerStep ==
  \/ Run \/ Read \/ ReadNothing \/ ReadThrows \/ Release \/ Ignore
  \/ \E S \in SUBSET Rows : Lookup(S)
  \/ \E r \in Rows : Record(r)
  \/ Reject \/ Push \/ Ack \/ SubscribeFails \/ Exit

Environment ==
  \/ \E m \in Messages : Publish(m) \/ Send(m)
  \/ SendNoise \/ Drop \/ Sigint \/ Crash

Next == WorkerStep \/ Subscribe \/ Start \/ Environment

Spec == Init /\ [][Next]_vars

\* The worker is never descheduled for ever; a broker that is asked again and
\* again accepts a subscription at last and sends what it holds; reading a
\* broken link again and again throws at last (the heart-beat of 5 s is there
\* for that); the program is started again.  The environment need not publish,
\* fail or stop anything.
Fairness ==
  /\ WF_vars(WorkerStep)
  /\ SF_vars(Subscribe)
  /\ SF_vars(ReadThrows)
  /\ \A m \in Messages : SF_vars(Send(m))
  /\ WF_vars(Start)

FairSpec == Spec /\ Fairness

-----------------------------------------------------------------------------
(* Properties                                                              *)

Frames == Messages \cup {Noise}

\* Types; and the locals of run() are alive exactly where the code uses them.
TypeOK ==
  /\ published \subseteq Messages /\ pending \subseteq Messages
  /\ unacked \subseteq Messages /\ acked \subseteq Messages
  /\ missed \subseteq Messages
  /\ link \in BOOLEAN /\ inflight \in Seq(Frames)
  /\ done \in BOOLEAN /\ connected \in BOOLEAN
  /\ pc \in {"down", "idle", "connect", "read", "usable", "row", "push", "ack"}
  /\ frame \in Frames \cup {NoFrame}
  /\ res \subseteq Rows /\ row \in Rows \cup {NoRow}
  /\ found \subseteq Rows /\ queued \subseteq Rows
  /\ records \in [Messages -> [Rows -> Nat]]
  /\ pushes \in [Messages -> [Rows -> Nat]]
  /\ noises \in 0 .. MaxNoise /\ drops \in 0 .. MaxDrops
  /\ crashes \in 0 .. MaxCrashes /\ stops \in 0 .. MaxStops
  /\ fails \in 0 .. MaxFails
  /\ frame # NoFrame <=> pc \in {"usable", "row", "push", "ack"}
  /\ row # NoRow <=> pc = "push"
  /\ pc = "row" => res # {}

\* At least once, as far as the worker goes: a message is acknowledged only
\* after a push was queued for every row its lookup found, except for rows
\* whose token is rejected (Worker.cpp:232-235, 310-325).  A crash before the
\* ack leaves the message to the broker, and a bad token costs nobody else a
\* push.
AckAfterQueue ==
  [][\A m \in acked' \ acked :
       /\ m = frame
       /\ m \notin Garbage \cup AckOnly => pc = "ack" /\ found \ BadTokens \subseteq queued]_vars

\* A device gets a second push for one message only after a failure: each
\* broken link and each crash costs at most one more.  Stopping the program
\* costs none, because the flag is read between two frames only
\* (App.cpp:130-133).
DuplicatesNeedFailure ==
  \A m \in Messages, r \in Rows : pushes[m][r] <= 1 + drops + crashes

\* No message vanishes and none has two fates, whatever breaks when: it waits
\* at the broker, was sent and is in the buffer or the worker's hand, is
\* acknowledged and never sent again, or was discarded by the broker.  In
\* particular nothing that run() has let go of fills the prefetch window
\* (Worker.cpp:203, 225, 235).
OneFate ==
  /\ published = pending \cup unacked \cup acked \cup missed
  /\ acked \cap (pending \cup unacked \cup missed) = {}
  /\ missed \cap (pending \cup unacked) = {} /\ pending \cap unacked = {}
  /\ unacked \subseteq Range(inflight) \cup {frame}

\* The table apns_push against the pushes, over all deliveries of a message:
\* whatever breaks when, each push for a good row without a row in the table
\* costs an INSERT that failed, and each row (which says sent, DBI.cpp:81-84)
\* without a push costs a crash between the two calls, but for the one in
\* progress (Worker.cpp:303, 334).
RecordsMatchPushes ==
  \A m \in Messages, r \in Rows \ BadTokens :
    LET between == IF frame = m /\ row = r THEN 1 ELSE 0 IN
    /\ pushes[m][r] + between <= records[m][r] + fails
    /\ records[m][r] <= pushes[m][r] + between + crashes

\* Every message is acknowledged at last, also one that does not parse or has
\* nobody registered, unless the broker discarded it.  No message is left to
\* fill the prefetch window for ever.
EventuallySettled ==
  \A m \in Messages : (m \in published) ~> (m \in acked \cup missed)

\* A broken link is always noticed and a new subscription made, however many
\* frames of the old one are still buffered (Worker.cpp:207-211).
Resubscribes == ~link ~> link
=============================================================================
