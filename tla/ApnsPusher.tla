------------------------------ MODULE ApnsPusher ------------------------------
(***************************************************************************)
(* The program as a whole: Worker pushes into the PushChannel that APNS    *)
(* implements.  Worker::event_message_to_apns calls APNS::push in the step *)
(* that pops the row (Worker.cpp:338), the destructor of Worker closes the *)
(* channel (Worker.cpp:66), and both live and die in one process.          *)
(*                                                                         *)
(* An ApnsMessage is a ticket: the message, the row, and which push of the *)
(* two it is.                                                              *)
(***************************************************************************)
EXTENDS Worker

VARIABLES
  accepted, delivered, lost, open,  \* the channel
  promised  \* history: pairs of an acknowledged message and a row queued for it

Tickets == Messages \X Rows \X Nat

Chan == INSTANCE PushChannel WITH Messages <- Tickets

chan == <<accepted, delivered, lost, open>>
pusherVars == <<vars, chan, promised>>

PusherInit == Init /\ Chan!Init /\ promised = {}

-----------------------------------------------------------------------------
\* Faulty variant: the queue takes one message, push() drops any other.
PushBounded ==
  /\ Push
  /\ IF Chan!InTransit = {}
       THEN Chan!Accept(<<frame, row, pushes[frame][row] + 1>>)
       ELSE UNCHANGED chan
  /\ UNCHANGED promised

\* _apns->push(apns): one per row that is popped.
PushTicket ==
  /\ Push
  /\ Chan!Accept(<<frame, row, pushes[frame][row] + 1>>)
  /\ UNCHANGED promised

\* A message that is acknowledged is promised to the rows queued for it.
AckFrame ==
  /\ Ack
  /\ promised' = IF acked' = acked THEN promised
                                   ELSE promised \cup ({frame} \X queued)
  /\ UNCHANGED chan

\* The steps that neither push, acknowledge nor end the process.
Other ==
  /\ \/ Run \/ Read \/ ReadNothing \/ ReadThrows \/ Release \/ Ignore
     \/ \E S \in SUBSET Rows : Lookup(S)
     \/ \E r \in Rows : Record(r)
     \/ Reject \/ SubscribeFails
  /\ UNCHANGED <<chan, promised>>

\* ~Worker: _apns->stop() sets APNS's own flag.
CloseChannel ==
  /\ pc = "idle" /\ done
  /\ Chan!Close
  /\ UNCHANGED <<vars, promised>>

\* Faulty variant: the object is deleted while its threads still run.
DeleteChannelAtOnce ==
  /\ ~open
  /\ Exit
  /\ UNCHANGED <<chan, promised>>

\* The threads were joined, delete _apns: nothing is in transit any more.
DeleteChannel ==
  /\ ~open /\ Chan!InTransit = {}
  /\ Exit
  /\ UNCHANGED <<chan, promised>>

Handler == PushTicket \/ AckFrame \/ Other \/ CloseChannel \/ DeleteChannel

\* Faulty variant: sends what was freed.
DeliverFreed(t) ==
  /\ t \notin delivered
  /\ delivered' = delivered \cup {t}
  /\ UNCHANGED <<vars, accepted, lost, open, promised>>

\* The push threads.
DeliverTicket(t) == Chan!Deliver(t) /\ UNCHANGED <<vars, promised>>

\* What they leave behind when they quit.
DiscardTickets ==
  /\ \E S \in SUBSET Chan!InTransit : S # {} /\ Chan!Discard(S)
  /\ UNCHANGED <<vars, promised>>

CrashAll == Crash /\ Chan!Crash /\ UNCHANGED promised

StartAll == Start /\ Chan!Crash /\ UNCHANGED promised

Connect == Subscribe /\ UNCHANGED <<chan, promised>>

Outside ==
  /\ (\E m \in Messages : Publish(m) \/ Send(m)) \/ SendNoise \/ Drop \/ Sigint
  /\ UNCHANGED <<chan, promised>>

PusherNext ==
  \/ Handler
  \/ (\E t \in accepted : DeliverTicket(t))
  \/ DiscardTickets
  \/ Connect \/ StartAll \/ CrashAll \/ Outside

PusherSpec == PusherInit /\ [][PusherNext]_pusherVars

\* Worker's fairness, and the push threads': what is accepted is handed over
\* or, once they were told to stop, given up (APNS!HandedOver, APNS!StopEnds).
PusherFairness ==
  /\ WF_pusherVars(Handler)
  /\ SF_pusherVars(Connect)
  /\ SF_pusherVars(ReadThrows /\ UNCHANGED <<chan, promised>>)
  /\ \A m \in Messages : SF_pusherVars(Send(m) /\ UNCHANGED <<chan, promised>>)
  /\ WF_pusherVars(StartAll)
  /\ WF_pusherVars((\E t \in accepted : DeliverTicket(t)) \/ DiscardTickets)

FairPusherSpec == PusherSpec /\ PusherFairness

-----------------------------------------------------------------------------
(* Properties                                                              *)

PusherTypeOK ==
  /\ accepted \subseteq Tickets /\ delivered \subseteq accepted
  /\ lost \subseteq accepted \ delivered /\ open \in BOOLEAN
  /\ promised \subseteq acked \X Rows

\* How often a ticket for the pair is in T.
Tally(T) ==
  [m \in Messages |-> [r \in Rows |->
    Cardinality({t \in T : t[1] = m /\ t[2] = r})]]

Service == INSTANCE Notifier
  WITH Devices <- Rows, notified <- Tally(delivered), forgotten <- Tally(lost),
       settled <- acked, serving <- open, faults <- drops + crashes

\* From the topic to the devices the program is a Notifier: no step of the
\* worker, the push threads, the broker or the operating system can push a
\* message more often than faults excuse, push one that is settled, settle one
\* that is promised to a device without a push, or lose a push while it serves.
ServiceSpec == Service!Spec

\* The table apns_push against the phones: if nobody stopped or killed the
\* program then, whenever nothing is in transit, every row that says sent='Y'
\* for a good token stands for a notification of its own, and a notification
\* is without a row only where an INSERT failed.  (A row for a token that
\* ApnsMessage rejects stands for none; Worker.cpp:303, 310, 338.)
SentMeansSent ==
  crashes = 0 /\ stops = 0 /\ Chan!InTransit = {} =>
    \A m \in Messages, r \in Rows \ BadTokens :
      row # r =>
        /\ records[m][r] <= Tally(delivered)[m][r]
        /\ Tally(delivered)[m][r] <= records[m][r] + fails

\* An acknowledgement stands for exactly one notification of each device the
\* message was queued for: if no connection broke and nobody stopped or killed
\* the program, that one was handed over or is on its way (Worker.cpp:258, 338).
OncePerPromise ==
  drops + crashes + stops = 0 =>
    \A m \in Messages, r \in Rows :
      <<m, r>> \in promised =>
        Tally(accepted)[m][r] = 1 /\ Tally(lost)[m][r] = 0

\* An acknowledged message reaches every device it was queued for, if the
\* program is not stopped or killed before: the broker will not send it again.
PromiseKept ==
  \A m \in Messages, r \in Rows :
    <<m, r>> \in promised ~> Tally(delivered \cup lost)[m][r] > 0
=============================================================================
