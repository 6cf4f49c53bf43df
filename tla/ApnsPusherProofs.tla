--------------------------- MODULE ApnsPusherProofs ---------------------------
(***************************************************************************)
(* Proofs about ApnsPusher for every topic, register and number of         *)
(* failures: each step of the program is one of Worker or leaves it alone, *)
(* and the program implements Notifier.                                    *)
(***************************************************************************)
EXTENDS ApnsPusher, WorkerProofs, FiniteSetTheorems

-----------------------------------------------------------------------------
(* The inductive invariant                                                 *)

\* What is queued for the frame in hand was pushed.
QueuedInv == \A r \in queued : frame \in Messages /\ pushes[frame][r] > 0

\* The tickets of a set for one message and row.
Part(T, m, r) == {t \in T : t[1] = m /\ t[2] = r}

\* One ticket for every push, and each in one place.
TicketInv ==
  /\ accepted \subseteq Tickets
  /\ delivered \subseteq accepted /\ lost \subseteq accepted \ delivered
  /\ \A m \in Messages, r \in Rows :
       /\ \A t \in Part(accepted, m, r) : t[3] <= pushes[m][r]
       /\ IsFiniteSet(Part(accepted, m, r))
       /\ Cardinality(Part(accepted, m, r)) = pushes[m][r]

\* The channel is closed only on the way down, and empty then.
ClosedInv ==
  /\ open \in BOOLEAN
  /\ pc = "down" => Chan!InTransit = {}
  /\ ~open /\ pc # "down" => pc = "idle" /\ done
  /\ done \/ ~open => stops > 0
  /\ lost # {} => crashes > 0 \/ stops > 0

\* What is promised is of an acknowledged message and was pushed.
PromisedInv ==
  /\ promised \subseteq acked \X Rows
  /\ \A m \in Messages, r \in Rows : <<m, r>> \in promised => pushes[m][r] > 0

PInv ==
  IInv /\ QueuedInv /\ TicketInv /\ ClosedInv /\ PromisedInv

-----------------------------------------------------------------------------
(* Steps of the worker                                                     *)

\* Every step is one of Worker, or leaves the worker alone.
LEMMA WorkerMoves == [PusherNext]_pusherVars => [Next]_vars
<1>. SUFFICES ASSUME [PusherNext]_pusherVars  PROVE [Next]_vars
  OBVIOUS
<1>1. ASSUME PushTicket \/ AckFrame \/ Other \/ DeleteChannel  PROVE Next
  BY <1>1 DEF PushTicket, AckFrame, Other, DeleteChannel, Next, WorkerStep
<1>2. ASSUME CloseChannel \/ DiscardTickets \/ \E t \in accepted : DeliverTicket(t)
      PROVE  UNCHANGED vars
  BY <1>2 DEF CloseChannel, DiscardTickets, DeliverTicket
<1>3. ASSUME Connect \/ StartAll \/ CrashAll \/ Outside  PROVE Next
  BY <1>3 DEF Connect, StartAll, CrashAll, Outside, Next, Environment
<1>4. UNCHANGED pusherVars => UNCHANGED vars  BY DEF pusherVars
<1>. QED  BY <1>1, <1>2, <1>3, <1>4 DEF PusherNext, Handler

LEMMA QueuedStep == IInv /\ QueuedInv /\ [Next]_vars => QueuedInv'
<1>. SUFFICES ASSUME IInv, QueuedInv, [Next]_vars  PROVE QueuedInv'
  OBVIOUS
<1>. USE DEF QueuedInv, Goto, broker, process, history, counts
<1>1. CASE Environment \/ Start \/ Subscribe \/ SubscribeFails \/ Exit
  BY <1>1 DEF Environment, Publish, Send, SendNoise, Drop, Hangup, Sigint, Crash, Die,
              Start, Subscribe, SubscribeFails, Exit
<1>2. CASE Read \/ Release
  <2>1. frame \notin Messages
    BY <1>2, MessageAssumption DEF Read, Release, IInv, TypeOK
  <2>. QED  BY <1>2, <2>1 DEF Read, Release
<1>3. CASE Run \/ ReadNothing \/ ReadThrows \/ Ignore \/ Reject
  BY <1>3 DEF Run, ReadNothing, ReadThrows, Ignore, Reject, PopRow
<1>4. ASSUME NEW S \in SUBSET Rows, Lookup(S)  PROVE QueuedInv'  BY <1>4 DEF Lookup
<1>5. ASSUME NEW r \in Rows, Record(r)  PROVE QueuedInv'  BY <1>5 DEF Record
<1>6. CASE Ack  BY <1>6 DEF Ack
<1>7. CASE Push
  <2>1. frame \in Messages /\ row \in Rows /\ frame' = frame /\ queued' = queued \cup {row}
        /\ pushes' = [pushes EXCEPT ![frame][row] = @ + 1]
        /\ pushes \in [Messages -> [Rows -> Nat]] /\ queued \subseteq Rows
    BY <1>7 DEF Push, PopRow, IInv, RowsInv, TypeOK
  <2>2. /\ pushes'[frame][row] = pushes[frame][row] + 1
        /\ pushes[frame][row] \in Nat
        /\ \A s \in Rows : s # row => pushes'[frame][s] = pushes[frame][s]
    BY <2>1, CountOne
  <2>. QED  BY <2>1, <2>2
<1>8. CASE UNCHANGED vars  BY <1>8 DEF vars
<1>. QED
  BY <1>1, <1>2, <1>3, <1>4, <1>5, <1>6, <1>7, <1>8 DEF Next, WorkerStep

-----------------------------------------------------------------------------
(* Tickets                                                                 *)

\* What the steps do to the worker's part of the promise.
LEMMA Effects ==
  /\ Other \/ Connect \/ StartAll \/ DeleteChannel =>
       UNCHANGED <<pushes, acked, drops, crashes, promised>>
  /\ AckFrame => UNCHANGED <<pushes, drops, crashes, chan>>
  /\ PushTicket => UNCHANGED <<acked, drops, crashes, promised>>
  /\ CrashAll => UNCHANGED <<pushes, acked, drops, promised>> /\ crashes' = crashes + 1
  /\ Outside => /\ UNCHANGED <<pushes, acked, crashes, chan, promised>>
                /\ drops' = drops \/ drops' = drops + 1
<1>. USE DEF broker, process, history, counts
<1>1. Other => UNCHANGED <<pushes, acked, drops, crashes, promised>>
  BY DEF Other, Run, Read, ReadNothing, ReadThrows, Release, Ignore, Lookup, Record,
         Reject, SubscribeFails
<1>2. Connect \/ StartAll \/ DeleteChannel =>
        UNCHANGED <<pushes, acked, drops, crashes, promised>>
  BY DEF Connect, Subscribe, StartAll, Start, DeleteChannel, Exit, Die, Hangup
<1>3. AckFrame => UNCHANGED <<pushes, drops, crashes, chan>>
  BY DEF AckFrame, Ack
<1>4. PushTicket => UNCHANGED <<acked, drops, crashes, promised>>
  BY DEF PushTicket, Push
<1>5. CrashAll => UNCHANGED <<pushes, acked, drops, promised>> /\ crashes' = crashes + 1
  BY DEF CrashAll, Crash, Die, Hangup
<1>6. Outside => /\ UNCHANGED <<pushes, acked, crashes, chan, promised>>
                 /\ drops' = drops \/ drops' = drops + 1
  BY DEF Outside, Publish, Send, SendNoise, Drop, Hangup, Sigint
<1>. QED  BY <1>1, <1>2, <1>3, <1>4, <1>5, <1>6

\* The ticket of a push.
Ticket == <<frame, row, pushes[frame][row] + 1>>

LEMMA NewTicket ==
  ASSUME IInv, TicketInv, PushTicket
  PROVE  /\ frame \in Messages /\ row \in Rows /\ Ticket \in Tickets \ accepted
         /\ Ticket[1] = frame /\ Ticket[2] = row /\ Ticket[3] = pushes[frame][row] + 1
         /\ accepted' = accepted \cup {Ticket} /\ UNCHANGED <<delivered, lost, open>> /\ open
         /\ pushes' = [pushes EXCEPT ![frame][row] = @ + 1]
         /\ pushes \in [Messages -> [Rows -> Nat]] /\ pushes[frame][row] \in Nat
<1>1. /\ frame \in Messages /\ row \in Rows
      /\ pushes' = [pushes EXCEPT ![frame][row] = @ + 1]
      /\ pushes \in [Messages -> [Rows -> Nat]]
  BY DEF PushTicket, Push, PopRow, IInv, RowsInv, TypeOK
<1>2. pushes[frame][row] \in Nat  BY <1>1
<1>3. Ticket \in Tickets  BY <1>1, <1>2 DEF Ticket, Tickets
<1>4. Ticket[1] = frame /\ Ticket[2] = row /\ Ticket[3] = pushes[frame][row] + 1
  BY DEF Ticket
<1>5. Ticket \notin accepted
  <2>1. SUFFICES ASSUME Ticket \in Part(accepted, frame, row)  PROVE FALSE
    BY <1>4 DEF Part
  <2>2. Ticket[3] <= pushes[frame][row]  BY <1>1, <2>1 DEF TicketInv
  <2>. QED  BY <1>2, <1>4, <2>2
<1>6. accepted' = accepted \cup {Ticket} /\ UNCHANGED <<delivered, lost, open>> /\ open
  BY DEF PushTicket, Chan!Accept, Ticket
<1>. QED  BY <1>1, <1>2, <1>3, <1>4, <1>5, <1>6

LEMMA TicketStep == IInv /\ TicketInv /\ [PusherNext]_pusherVars => TicketInv'
<1>. SUFFICES ASSUME IInv, TicketInv, [PusherNext]_pusherVars  PROVE TicketInv'
  OBVIOUS
<1>1. CASE PushTicket
  <2>1. accepted' \subseteq Tickets /\ delivered' \subseteq accepted'
        /\ lost' \subseteq accepted' \ delivered'
    BY <1>1, NewTicket DEF TicketInv
  <2>2. ASSUME NEW m \in Messages, NEW r \in Rows
        PROVE  /\ \A t \in Part(accepted', m, r) : t[3] <= pushes'[m][r]
               /\ IsFiniteSet(Part(accepted', m, r))
               /\ Cardinality(Part(accepted', m, r)) = pushes'[m][r]
    <3>1. CASE m = frame /\ r = row
      <4>1. Part(accepted', m, r) = Part(accepted, m, r) \cup {Ticket}
        BY <1>1, <3>1, NewTicket DEF Part
      <4>2. Ticket \notin Part(accepted, m, r)  BY <1>1, NewTicket DEF Part
      <4>3. pushes'[m][r] = pushes[m][r] + 1  BY <1>1, <3>1, NewTicket, CountOne
      <4>4. \A t \in Part(accepted, m, r) : t[3] \in Nat
        BY DEF TicketInv, Part, Tickets
      <4>5. pushes[m][r] \in Nat  BY <1>1, <3>1, NewTicket
      <4>6. \A t \in Part(accepted', m, r) : t[3] <= pushes'[m][r]
        BY <1>1, <3>1, <4>1, <4>3, <4>4, <4>5, NewTicket DEF TicketInv
      <4>7. /\ IsFiniteSet(Part(accepted, m, r))
            /\ Cardinality(Part(accepted, m, r)) = pushes[m][r]
        BY DEF TicketInv
      <4>8. /\ IsFiniteSet(Part(accepted', m, r))
            /\ Cardinality(Part(accepted', m, r)) = Cardinality(Part(accepted, m, r)) + 1
        BY <4>1, <4>2, <4>7, FS_AddElement
      <4>. QED  BY <4>3, <4>6, <4>7, <4>8
    <3>2. CASE m # frame \/ r # row
      <4>1. Part(accepted', m, r) = Part(accepted, m, r)
        BY <1>1, <3>2, NewTicket DEF Part
      <4>2. pushes'[m][r] = pushes[m][r]  BY <1>1, <3>2, NewTicket, CountOne
      <4>. QED  BY <4>1, <4>2 DEF TicketInv
    <3>. QED  BY <3>1, <3>2
  <2>. QED  BY <2>1, <2>2 DEF TicketInv
<1>2. ASSUME /\ UNCHANGED <<pushes, accepted>>
             /\ delivered' \subseteq accepted /\ lost' \subseteq accepted \ delivered'
      PROVE  TicketInv'
  BY <1>2 DEF TicketInv, Part
<1>3. CASE AckFrame \/ Other \/ CloseChannel \/ DeleteChannel \/ Connect \/ Outside
  BY <1>2, <1>3, Effects
  DEF Other, CloseChannel, Chan!Close, DeleteChannel, Connect, chan, TicketInv, vars
<1>4. ASSUME NEW t \in accepted, DeliverTicket(t)  PROVE TicketInv'
  BY <1>2, <1>4 DEF DeliverTicket, Chan!Deliver, Chan!InTransit, TicketInv, vars
<1>5. CASE DiscardTickets
  BY <1>2, <1>5 DEF DiscardTickets, Chan!Discard, Chan!InTransit, TicketInv, vars
<1>6. CASE StartAll \/ CrashAll
  BY <1>2, <1>6, Effects DEF StartAll, CrashAll, Chan!Crash, Chan!InTransit, TicketInv
<1>7. CASE UNCHANGED pusherVars
  BY <1>2, <1>7 DEF pusherVars, chan, vars, TicketInv
<1>. QED  BY <1>1, <1>3, <1>4, <1>5, <1>6, <1>7 DEF PusherNext, Handler

LEMMA ClosedStep == IInv /\ ClosedInv /\ [PusherNext]_pusherVars => ClosedInv'
<1>. SUFFICES ASSUME IInv, ClosedInv, [PusherNext]_pusherVars  PROVE ClosedInv'
  OBVIOUS
<1>. USE DEF ClosedInv, Chan!InTransit, chan, Goto, broker, process, history, counts
<1>0. stops \in Nat /\ crashes \in Nat  BY BoundAssumption DEF IInv, TypeOK
<1>1. CASE PushTicket
  BY <1>1 DEF PushTicket, Push, PopRow, Chan!Accept
<1>2. CASE AckFrame
  BY <1>2 DEF AckFrame, Ack
<1>3. CASE Other
  BY <1>3 DEF Other, Run, Read, ReadNothing, ReadThrows, Release, Ignore, Lookup, Record,
              Reject, PopRow, SubscribeFails
<1>4. CASE CloseChannel
  BY <1>4 DEF CloseChannel, Chan!Close, vars
<1>5. CASE DeleteChannel
  BY <1>5 DEF DeleteChannel, Exit, Die
<1>6. ASSUME NEW t \in accepted, DeliverTicket(t)  PROVE ClosedInv'
  BY <1>6 DEF DeliverTicket, Chan!Deliver, vars
<1>7. CASE DiscardTickets
  BY <1>7 DEF DiscardTickets, Chan!Discard, vars
<1>8. CASE Connect
  BY <1>8 DEF Connect, Subscribe
<1>9. CASE StartAll
  BY <1>9 DEF StartAll, Start, Chan!Crash
<1>10. CASE CrashAll
  BY <1>10, <1>0 DEF CrashAll, Crash, Die, Chan!Crash
<1>11. CASE Outside
  BY <1>11, <1>0 DEF Outside, Publish, Send, SendNoise, Drop, Hangup, Sigint
<1>12. CASE UNCHANGED pusherVars
  BY <1>12 DEF pusherVars, vars
<1>. QED
  BY <1>1, <1>2, <1>3, <1>4, <1>5, <1>6, <1>7, <1>8, <1>9, <1>10, <1>11, <1>12
  DEF PusherNext, Handler

-----------------------------------------------------------------------------
(* Tallies                                                                 *)

LEMMA TallyPart ==
  ASSUME NEW T, NEW m \in Messages, NEW r \in Rows
  PROVE  Tally(T)[m][r] = Cardinality(Part(T, m, r))
  BY DEF Tally, Part

LEMMA TallyNone == Tally({}) = NoCalls
<1>1. \A m, r : Part({}, m, r) = {}  BY DEF Part
<1>. QED  BY <1>1, FS_EmptySet DEF Tally, Part, NoCalls

LEMMA PartFinite ==
  ASSUME TicketInv, NEW T \in SUBSET accepted, NEW m \in Messages, NEW r \in Rows
  PROVE  /\ IsFiniteSet(Part(T, m, r))
         /\ Cardinality(Part(T, m, r)) \in Nat
<1>1. Part(T, m, r) \in SUBSET Part(accepted, m, r)  BY DEF Part
<1>2. IsFiniteSet(Part(accepted, m, r))  BY DEF TicketInv
<1>3. IsFiniteSet(Part(T, m, r))  BY <1>1, <1>2, FS_Subset
<1>. QED  BY <1>3, FS_CardinalityType

LEMMA TallyType ==
  ASSUME TicketInv, NEW T \in SUBSET accepted
  PROVE  Tally(T) \in [Messages -> [Rows -> Nat]]
  BY PartFinite DEF Tally, Part

\* Tickets in two places, and all of them.
LEMMA TallySum ==
  ASSUME TicketInv, NEW A \in SUBSET accepted, NEW B \in SUBSET (accepted \ A),
         NEW m \in Messages, NEW r \in Rows
  PROVE  /\ Tally(A)[m][r] \in Nat /\ Tally(B)[m][r] \in Nat
         /\ Tally(A)[m][r] + Tally(B)[m][r] <= pushes[m][r]
         /\ Part(A \cup B, m, r) # Part(accepted, m, r) =>
              Tally(A)[m][r] + Tally(B)[m][r] < pushes[m][r]
         /\ A \cup B = accepted => Tally(A)[m][r] + Tally(B)[m][r] = pushes[m][r]
<1>. DEFINE a == Part(A, m, r)  b == Part(B, m, r)  p == Part(accepted, m, r)
<1>1. /\ IsFiniteSet(a) /\ Cardinality(a) \in Nat
      /\ IsFiniteSet(b) /\ Cardinality(b) \in Nat
      /\ IsFiniteSet(p) /\ Cardinality(p) = pushes[m][r]
  BY PartFinite DEF TicketInv
<1>2. a \cap b = {} /\ a \cup b \in SUBSET p /\ a \cup b = Part(A \cup B, m, r)
  BY DEF Part
<1>. HIDE DEF a, b, p
<1>3. Cardinality(a \cup b) = Cardinality(a) + Cardinality(b)
  BY <1>1, <1>2, FS_Union, FS_EmptySet
<1>4. /\ Cardinality(a \cup b) <= Cardinality(p)
      /\ Cardinality(a \cup b) = Cardinality(p) => a \cup b = p
  BY <1>1, <1>2, FS_Subset
<1>5. Tally(A)[m][r] = Cardinality(a) /\ Tally(B)[m][r] = Cardinality(b)
  BY TallyPart DEF a, b
<1>6. Cardinality(p) \in Nat  BY <1>1, FS_CardinalityType
<1>7. A \cup B = accepted => a \cup b = p  BY <1>2 DEF p
<1>8. Part(A \cup B, m, r) # Part(accepted, m, r) => a \cup b # p  BY <1>2 DEF p
<1>9. /\ Tally(A)[m][r] + Tally(B)[m][r] = Cardinality(a \cup b)
      /\ Cardinality(a \cup b) \in Nat /\ pushes[m][r] \in Nat
      /\ Tally(A)[m][r] \in Nat /\ Tally(B)[m][r] \in Nat
  BY <1>1, <1>3, <1>5, <1>6
<1>10. Tally(A)[m][r] + Tally(B)[m][r] <= pushes[m][r]  BY <1>1, <1>4, <1>9
<1>11. a \cup b # p => Tally(A)[m][r] + Tally(B)[m][r] < pushes[m][r]
  BY <1>1, <1>4, <1>9
<1>12. a \cup b = p => Tally(A)[m][r] + Tally(B)[m][r] = pushes[m][r]
  BY <1>1, <1>9
<1>. QED  BY <1>7, <1>8, <1>9, <1>10, <1>11, <1>12

LEMMA TallyAdd ==
  ASSUME TicketInv, NEW T \in SUBSET accepted, NEW t \in accepted \ T
  PROVE  /\ t[1] \in Messages /\ t[2] \in Rows
         /\ Tally(T \cup {t}) = [Tally(T) EXCEPT ![t[1]][t[2]] = @ + 1]
<1>1. t[1] \in Messages /\ t[2] \in Rows  BY DEF TicketInv, Tickets
<1>. DEFINE f == Tally(T)  g == Tally(T \cup {t})  h == [f EXCEPT ![t[1]][t[2]] = @ + 1]
<1>2. f \in [Messages -> [Rows -> Nat]] /\ g \in [Messages -> [Rows -> Nat]]
  BY TallyType
<1>3. ASSUME NEW m \in Messages, NEW r \in Rows
      PROVE  g[m][r] = IF m = t[1] /\ r = t[2] THEN f[m][r] + 1 ELSE f[m][r]
  <2>1. f[m][r] = Cardinality(Part(T, m, r)) /\ g[m][r] = Cardinality(Part(T \cup {t}, m, r))
    BY TallyPart
  <2>2. CASE m = t[1] /\ r = t[2]
    <3>1. Part(T \cup {t}, m, r) = Part(T, m, r) \cup {t} /\ t \notin Part(T, m, r)
      BY <2>2 DEF Part
    <3>2. IsFiniteSet(Part(T, m, r))  BY PartFinite
    <3>3. Cardinality(Part(T, m, r) \cup {t}) = Cardinality(Part(T, m, r)) + 1
      BY <3>1, <3>2, FS_AddElement
    <3>. QED  BY <2>1, <2>2, <3>1, <3>3
  <2>3. CASE m # t[1] \/ r # t[2]
    <3>1. Part(T \cup {t}, m, r) = Part(T, m, r)  BY <2>3 DEF Part
    <3>. QED  BY <2>1, <2>3, <3>1
  <2>. QED  BY <2>2, <2>3
<1>. HIDE DEF f, g
<1>4. /\ h \in [Messages -> [Rows -> Nat]]
      /\ \A m \in Messages, r \in Rows :
           h[m][r] = IF m = t[1] /\ r = t[2] THEN f[m][r] + 1 ELSE f[m][r]
  BY <1>1, <1>2, CountOne
<1>. HIDE DEF h
<1>5. \A m \in Messages : g[m] = h[m]
  <2>1. ASSUME NEW m \in Messages  PROVE g[m] = h[m]
    <3>1. g[m] \in [Rows -> Nat] /\ h[m] \in [Rows -> Nat]  BY <1>2, <1>4
    <3>2. \A r \in Rows : g[m][r] = h[m][r]  BY <1>3, <1>4
    <3>. QED  BY <3>1, <3>2
  <2>. QED  BY <2>1
<1>6. g = h  BY <1>2, <1>4, <1>5
<1>. QED  BY <1>1, <1>6 DEF f, g, h

LEMMA TallyGrows ==
  ASSUME TicketInv, NEW T \in SUBSET accepted, NEW S \in SUBSET T,
         NEW m \in Messages, NEW r \in Rows
  PROVE  Tally(S)[m][r] <= Tally(T)[m][r]
<1>1. Part(S, m, r) \in SUBSET Part(T, m, r)  BY DEF Part
<1>2. IsFiniteSet(Part(T, m, r))  BY PartFinite
<1>3. Cardinality(Part(S, m, r)) <= Cardinality(Part(T, m, r))  BY <1>1, <1>2, FS_Subset
<1>. QED  BY <1>3, TallyPart

-----------------------------------------------------------------------------
(* The invariant holds                                                     *)

LEMMA InitPInv == PusherInit => PInv
<1>. SUFFICES ASSUME PusherInit  PROVE PInv
  OBVIOUS
<1>. USE DEF PusherInit, Chan!Init
<1>1. IInv  BY InitIInv
<1>2. QueuedInv /\ PromisedInv  BY DEF Init, QueuedInv, PromisedInv
<1>3. TicketInv
  <2>1. \A m, r : Part(accepted, m, r) = {}  BY DEF Part
  <2>2. \A m \in Messages, r \in Rows : pushes[m][r] = 0  BY DEF Init, NoCalls
  <2>. QED  BY <2>1, <2>2, FS_EmptySet DEF TicketInv
<1>4. ClosedInv  BY DEF Init, ClosedInv, Chan!InTransit
<1>. QED  BY <1>1, <1>2, <1>3, <1>4 DEF PInv

LEMMA PromisedStep ==
  IInv /\ QueuedInv /\ PromisedInv /\ [PusherNext]_pusherVars => PromisedInv'
<1>. SUFFICES ASSUME IInv, QueuedInv, PromisedInv, [PusherNext]_pusherVars
              PROVE  PromisedInv'
  OBVIOUS
<1>1. CASE AckFrame
  <2>1. acked' # acked => frame \in acked'  BY <1>1 DEF AckFrame, Ack
  <2>2. acked \subseteq acked'  BY <1>1 DEF AckFrame, Ack
  <2>3. queued \subseteq Rows  BY DEF IInv, TypeOK
  <2>4. pushes' = pushes  BY <1>1, Effects
  <2>. QED  BY <1>1, <2>1, <2>2, <2>3, <2>4 DEF AckFrame, PromisedInv, QueuedInv
<1>2. CASE PushTicket
  <2>1. ASSUME NEW m \in Messages, NEW r \in Rows, pushes[m][r] > 0
        PROVE  pushes'[m][r] > 0
    <3>1. pushes' = [pushes EXCEPT ![frame][row] = @ + 1] /\ frame \in Messages
          /\ row \in Rows /\ pushes \in [Messages -> [Rows -> Nat]]
      BY <1>2 DEF PushTicket, Push, PopRow, IInv, RowsInv, TypeOK
    <3>2. pushes'[m][r] = IF m = frame /\ r = row THEN pushes[m][r] + 1 ELSE pushes[m][r]
      BY <3>1, CountOne
    <3>3. pushes[m][r] \in Nat  BY <3>1
    <3>. QED  BY <2>1, <3>2, <3>3
  <2>. QED  BY <1>2, <2>1, Effects DEF PromisedInv
<1>3. CASE Other \/ DeleteChannel \/ Connect \/ StartAll \/ CrashAll \/ Outside
  BY <1>3, Effects DEF PromisedInv
<1>4. CASE CloseChannel \/ DiscardTickets \/ \E t \in accepted : DeliverTicket(t)
  BY <1>4 DEF CloseChannel, DiscardTickets, DeliverTicket, vars, PromisedInv
<1>5. CASE UNCHANGED pusherVars
  BY <1>5 DEF pusherVars, vars, PromisedInv
<1>. QED  BY <1>1, <1>2, <1>3, <1>4, <1>5 DEF PusherNext, Handler

LEMMA PInvStep == PInv /\ [PusherNext]_pusherVars => PInv'
  BY WorkerMoves, IInvStep, QueuedStep, TicketStep, ClosedStep, PromisedStep
  DEF PInv

LEMMA PusherInductive == PusherSpec => []PInv
  BY InitPInv, PInvStep, PTL DEF PusherSpec

-----------------------------------------------------------------------------
(* Notifier                                                                *)

LEMMA InitService == PusherInit => Service!Init
<1>. SUFFICES ASSUME PusherInit  PROVE Service!Init
  OBVIOUS
<1>1. Tally(delivered) = NoCalls /\ Tally(lost) = NoCalls
  BY TallyNone DEF PusherInit, Chan!Init
<1>2. drops + crashes = 0  BY DEF PusherInit, Init
<1>. QED  BY <1>1, <1>2 DEF PusherInit, Init, Chan!Init, Service!Init, NoCalls

\* When nothing is in transit, nothing is on its way.
LEMMA NothingOnTheWay ==
  ASSUME TicketInv, Chan!InTransit = {}, NEW m \in Messages, NEW r \in Rows
  PROVE  Tally(delivered)[m][r] + Tally(lost)[m][r] = pushes[m][r]
<1>1. delivered \cup lost = accepted  BY DEF TicketInv, Chan!InTransit
<1>2. delivered \in SUBSET accepted /\ lost \in SUBSET (accepted \ delivered)
  BY DEF TicketInv
<1>3. delivered \cup lost = accepted =>
        Tally(delivered)[m][r] + Tally(lost)[m][r] = pushes[m][r]
  BY <1>2, TallySum
<1>. QED  BY <1>1, <1>3

LEMMA ServiceStep ==
  PInv /\ [PusherNext]_pusherVars => [Service!Next]_(Service!notifierVars)
<1>. SUFFICES ASSUME PInv, [PusherNext]_pusherVars
              PROVE  [Service!Next]_(Service!notifierVars)
  OBVIOUS
<1>. USE DEF Service!notifierVars
<1>0. /\ IInv /\ TypeOK /\ AckedInv /\ QueuedInv /\ TicketInv /\ ClosedInv
      /\ drops \in Nat /\ crashes \in Nat
      /\ delivered \in SUBSET accepted /\ lost \in SUBSET (accepted \ delivered)
  BY BoundAssumption DEF PInv, IInv, TypeOK, TicketInv
<1>1. CASE PushTicket
  <2>1. frame \in Messages /\ row \in Rows /\ frame \notin acked
    BY <1>0, <1>1, NewTicket DEF AckedInv
  <2>2. pushes[frame][row] <= drops + crashes
    <3>1. Potential(frame, row) <= 1 + drops + crashes
      BY <1>0, <2>1 DEF IInv, PotentialInv
    <3>2. row \in res  BY <1>0, <1>1 DEF PushTicket, Push, IInv, RowsInv
    <3>3. /\ InHand(frame, row) = 1
          /\ Waiting(frame) \in Nat /\ Buffered(frame) \in Nat
      BY <3>2 DEF InHand, Waiting, Buffered, One
    <3>4. pushes[frame][row] \in Nat  BY <1>0, <1>1, NewTicket
    <3>. QED  BY <1>0, <3>1, <3>3, <3>4 DEF Potential
  <2>3. Service!Push(frame, row)
    BY <1>0, <1>1, <2>1, <2>2, NewTicket, Effects DEF Service!Push
  <2>. QED  BY <2>1, <2>3 DEF Service!Next
<1>2. CASE AckFrame
  <2>1. CASE acked' = acked
    BY <1>2, <2>1, Effects DEF AckFrame, chan
  <2>2. CASE acked' # acked
    <3>1. acked' = acked \cup {frame} /\ frame \notin acked /\ frame \in Messages
      BY <1>0, <1>2, <2>2 DEF AckFrame, Ack, AckedInv, IInv, RowsInv
    <3>2. promised' = promised \cup ({frame} \X queued)
      BY <1>2, <2>2 DEF AckFrame
    <3>3. queued \in SUBSET Rows /\ \A r \in queued : pushes[frame][r] > 0
      BY <1>0 DEF TypeOK, QueuedInv
    <3>4. Service!Settle(frame, queued)
      BY <1>2, <3>1, <3>2, <3>3, Effects DEF Service!Settle, chan
    <3>. QED  BY <3>1, <3>3, <3>4 DEF Service!Next
  <2>. QED  BY <2>1, <2>2
<1>3. CASE Other \/ Connect
  BY <1>3, Effects DEF Other, Connect, chan
<1>4. CASE CloseChannel
  <2>1. Service!Stop
    BY <1>4 DEF CloseChannel, Chan!Close, Service!Stop, vars
  <2>. QED  BY <2>1 DEF Service!Next
<1>5. CASE DeleteChannel
  BY <1>5, Effects DEF DeleteChannel, chan
<1>6. ASSUME NEW t \in accepted, DeliverTicket(t)
      PROVE  Service!Next
  <2>1. /\ t \in accepted \ delivered /\ t \notin lost /\ delivered' = delivered \cup {t}
        /\ UNCHANGED <<pushes, lost, acked, promised, open, drops, crashes>>
    BY <1>6 DEF DeliverTicket, Chan!Deliver, Chan!InTransit, vars
  <2>2. /\ t[1] \in Messages /\ t[2] \in Rows
        /\ Tally(delivered') = [Tally(delivered) EXCEPT ![t[1]][t[2]] = @ + 1]
    BY <1>0, <2>1, TallyAdd
  <2>3. t \in Part(accepted, t[1], t[2]) /\ t \notin Part(delivered \cup lost, t[1], t[2])
    BY <2>1 DEF Part
  <2>4. Tally(delivered)[t[1]][t[2]] + Tally(lost)[t[1]][t[2]] < pushes[t[1]][t[2]]
    BY <1>0, <2>2, <2>3, TallySum
  <2>5. Service!Notify(t[1], t[2])
    BY <2>1, <2>2, <2>4 DEF Service!Notify, Service!OnTheWay
  <2>. QED  BY <2>2, <2>5 DEF Service!Next
<1>7. CASE DiscardTickets
  <2>1. /\ lost \in SUBSET lost' /\ lost' \in SUBSET (accepted \ delivered) /\ ~open
        /\ UNCHANGED <<pushes, accepted, delivered, acked, promised, open, drops, crashes>>
    BY <1>0, <1>7 DEF DiscardTickets, Chan!Discard, Chan!InTransit, vars
  <2>2. Tally(lost') \in [Messages -> [Rows -> Nat]]  BY <1>0, <2>1, TallyType
  <2>3. ASSUME NEW m \in Messages, NEW r \in Rows
        PROVE  /\ Tally(lost)[m][r] <= Tally(lost')[m][r]
               /\ Tally(delivered)[m][r] + Tally(lost')[m][r] <= pushes[m][r]
    <3>1. Tally(lost)[m][r] <= Tally(lost')[m][r]  BY <1>0, <2>1, TallyGrows
    <3>2. Tally(delivered)[m][r] + Tally(lost')[m][r] <= pushes[m][r]
      BY <1>0, <2>1, TallySum
    <3>. QED  BY <3>1, <3>2
  <2>4. Service!Forget
    BY <2>1, <2>2, <2>3 DEF Service!Forget, Service!Forgets, Service!Counts
  <2>. QED  BY <2>4 DEF Service!Next
<1>8. CASE StartAll
  <2>1. Chan!InTransit = {}  BY <1>0, <1>8 DEF StartAll, Start, ClosedInv
  <2>2. lost' = lost /\ delivered' = delivered /\ open' = TRUE
    BY <1>8, <2>1 DEF StartAll, Chan!Crash
  <2>3. CASE open
    BY <1>0, <1>8, <2>2, <2>3, Effects DEF ClosedInv
  <2>4. CASE ~open
    <3>1. \A m \in Messages, r \in Rows : ~Service!OnTheWay(m, r)
      <4>1. \A m \in Messages, r \in Rows :
              /\ Tally(delivered)[m][r] + Tally(lost)[m][r] = pushes[m][r]
              /\ pushes[m][r] \in Nat
        BY <1>0, <2>1, NothingOnTheWay DEF TypeOK
      <4>. QED  BY <4>1 DEF Service!OnTheWay
    <3>2. Service!Restart
      BY <1>8, <2>2, <2>4, <3>1, Effects DEF Service!Restart
    <3>. QED  BY <3>2 DEF Service!Next
  <2>. QED  BY <2>3, <2>4
<1>9. CASE CrashAll
  <2>1. /\ lost' \in SUBSET (accepted \ delivered) /\ delivered \cup lost' = accepted
        /\ delivered' = delivered /\ open' = TRUE
    BY <1>0, <1>9 DEF CrashAll, Chan!Crash, Chan!InTransit
  <2>. DEFINE rest == [m \in Messages |-> [r \in Rows |->
                         pushes[m][r] - Tally(delivered)[m][r]]]
  <2>2. \A m \in Messages, r \in Rows : Tally(lost')[m][r] = rest[m][r]
    <3>1. ASSUME NEW m \in Messages, NEW r \in Rows
          PROVE  Tally(lost')[m][r] = pushes[m][r] - Tally(delivered)[m][r]
      <4>1. /\ Tally(delivered)[m][r] \in Nat /\ Tally(lost')[m][r] \in Nat
            /\ Tally(delivered)[m][r] + Tally(lost')[m][r] = pushes[m][r]
        BY <1>0, <2>1, TallySum
      <4>. QED  BY <4>1
    <3>. QED  BY <3>1
  <2>3. Tally(lost') = rest
    BY <2>2 DEF Tally
  <2>4. (drops + crashes)' = drops + crashes + 1
    BY <1>0, <1>9, Effects
  <2>5. Service!Die
    BY <1>9, <2>1, <2>3, <2>4, Effects DEF Service!Die
  <2>. QED  BY <2>5 DEF Service!Next
<1>10. CASE Outside
  <2>1. CASE drops' = drops
    BY <1>10, <2>1, Effects DEF chan
  <2>2. CASE drops' = drops + 1
    <3>1. (drops + crashes)' = drops + crashes + 1
      BY <1>0, <1>10, <2>2, Effects
    <3>2. Service!Fault
      BY <1>10, <3>1, Effects DEF Service!Fault, chan
    <3>. QED  BY <3>2 DEF Service!Next
  <2>. QED  BY <1>10, <2>1, <2>2, Effects
<1>11. CASE UNCHANGED pusherVars
  BY <1>11 DEF pusherVars, chan, vars
<1>. QED
  BY <1>1, <1>2, <1>3, <1>4, <1>5, <1>6, <1>7, <1>8, <1>9, <1>10, <1>11
  DEF PusherNext, Handler

-----------------------------------------------------------------------------
(* The theorems                                                            *)

\* Tickets, the fate of each and what is promised have their types, and no
\* ticket is in two places.
THEOREM PusherTypeCorrect == PusherSpec => []PusherTypeOK
<1>1. PInv => PusherTypeOK
  BY DEF PInv, TicketInv, ClosedInv, PromisedInv, PusherTypeOK
<1>. QED  BY <1>1, PusherInductive, PTL

\* The program as a whole runs Worker: what is proved of Worker holds of it.
THEOREM RunsWorker == PusherSpec => Spec
<1>1. PusherInit => Init  BY DEF PusherInit
<1>. QED  BY <1>1, WorkerMoves, PTL DEF PusherSpec, Spec

\* From the topic to the devices the program is a Notifier, for every topic
\* and register and any number of failures: pushes only as often as faults
\* excuse, none of a settled message, nothing lost while it serves.
THEOREM ImplementsNotifier == PusherSpec => ServiceSpec
  BY InitService, ServiceStep, PusherInductive, PTL
  DEF PusherSpec, ServiceSpec, Service!Spec

\* As long as nobody stops or kills the program each row of apns_push for a good
\* token stands, once nothing is in transit, for a notification handed over, and
\* only as many of those are without a row as INSERTs failed (Worker.cpp:303, 338).
THEOREM RecordsAreSent == PusherSpec => []SentMeansSent
<1>1. PInv => SentMeansSent
  <2>. SUFFICES ASSUME PInv, crashes = 0, stops = 0, Chan!InTransit = {},
                       NEW m \in Messages, NEW r \in Rows \ BadTokens, row # r
                PROVE  /\ records[m][r] <= Tally(delivered)[m][r]
                       /\ Tally(delivered)[m][r] <= records[m][r] + fails
    BY DEF SentMeansSent
  <2>1. lost = {}  BY DEF PInv, ClosedInv
  <2>2. Tally(lost)[m][r] = 0  BY <2>1, TallyNone DEF NoCalls
  <2>3. TicketInv /\ TypeOK /\ RecordsMatchPushes  BY DEF PInv, IInv
  <2>4. Tally(delivered)[m][r] + Tally(lost)[m][r] = pushes[m][r]
    BY <2>3, NothingOnTheWay
  <2>5. Tally(delivered)[m][r] \in Nat
    <3>1. Tally(delivered) \in [Messages -> [Rows -> Nat]]
      BY <2>3, TallyType DEF TicketInv
    <3>. QED  BY <3>1
  <2>6. pushes[m][r] <= records[m][r] + fails /\ records[m][r] <= pushes[m][r]
    BY <2>3 DEF RecordsMatchPushes, TypeOK
  <2>7. pushes[m][r] \in Nat /\ records[m][r] \in Nat /\ fails \in Nat
    BY <2>3, BoundAssumption DEF TypeOK
  <2>. QED  BY <2>2, <2>4, <2>5, <2>6, <2>7
<1>. QED  BY <1>1, PusherInductive, PTL

\* Without failures and stops an acknowledgement stands for exactly one
\* notification of each device the message was queued for, handed over or on
\* its way (Worker.cpp:258, 338).
THEOREM PromisesAreSingle == PusherSpec => []OncePerPromise
<1>1. PInv => OncePerPromise
  <2>. SUFFICES ASSUME PInv, drops + crashes + stops = 0, NEW m \in Messages,
                       NEW r \in Rows, <<m, r>> \in promised
                PROVE  Tally(accepted)[m][r] = 1 /\ Tally(lost)[m][r] = 0
    BY DEF OncePerPromise
  <2>1. TicketInv /\ DuplicatesNeedFailure /\ TypeOK /\ pushes[m][r] > 0
    BY PotentialBounds DEF PInv, IInv, PromisedInv
  <2>2. drops = 0 /\ crashes = 0 /\ stops = 0
    BY <2>1, BoundAssumption DEF TypeOK
  <2>3. pushes[m][r] = 1
    BY <2>1, <2>2 DEF DuplicatesNeedFailure, TypeOK
  <2>4. Tally(accepted)[m][r] = pushes[m][r]
    BY <2>1, TallyPart DEF TicketInv
  <2>5. lost = {}  BY <2>2 DEF PInv, ClosedInv
  <2>6. Tally(lost)[m][r] = 0  BY <2>5, TallyNone DEF NoCalls
  <2>. QED  BY <2>3, <2>4, <2>6
<1>. QED  BY <1>1, PusherInductive, PTL
=============================================================================
