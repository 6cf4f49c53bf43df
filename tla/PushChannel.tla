----------------------------- MODULE PushChannel -----------------------------
(***************************************************************************)
(* What class APNS promises the worker that calls push(): a volatile,      *)
(* at-most-once channel to the push gateway.  A message that was accepted  *)
(* is handed to the gateway at most once; it can be lost only after the    *)
(* channel was closed, or because the process died.  Nothing is said about *)
(* order: several threads drain the same queue.                            *)
(***************************************************************************)
EXTENDS Naturals

CONSTANT Messages   \* the ApnsMessage objects; each is pushed at most once

VARIABLES accepted,   \* messages push() was called with
          delivered,  \* messages handed to the gateway
          lost,       \* accepted messages that will never be handed over
          open        \* push() may still be called

chanVars == <<accepted, delivered, lost, open>>

\* Messages whose fate is still undecided: all of them are in memory only.
InTransit == accepted \ (delivered \cup lost)

Init ==
  /\ accepted = {} /\ delivered = {} /\ lost = {}
  /\ open = TRUE

Accept(m) ==
  /\ open
  /\ m \in Messages \ accepted
  /\ accepted' = accepted \cup {m}
  /\ UNCHANGED <<delivered, lost, open>>

Deliver(m) ==
  /\ m \in InTransit
  /\ delivered' = delivered \cup {m}
  /\ UNCHANGED <<accepted, lost, open>>

Close ==
  /\ open
  /\ open' = FALSE
  /\ UNCHANGED <<accepted, delivered, lost>>

Discard(S) ==
  /\ ~open
  /\ S \subseteq InTransit
  /\ lost' = lost \cup S
  /\ UNCHANGED <<accepted, delivered, open>>

\* The process dies and a new one opens an empty channel.
Crash ==
  /\ lost' = lost \cup InTransit
  /\ open' = TRUE
  /\ UNCHANGED <<accepted, delivered>>

Next ==
  \/ \E m \in Messages : Accept(m) \/ Deliver(m)
  \/ Close
  \/ \E S \in SUBSET Messages : Discard(S)
  \/ Crash

Spec == Init /\ [][Next]_chanVars
=============================================================================
