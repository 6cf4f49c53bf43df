------------------------------- MODULE Notifier -------------------------------
(***************************************************************************)
(* What the whole program promises between the topic and the devices.      *)
(* A message is pushed to a device at most once more than something went   *)
(* wrong, and not at all once it is settled, that is acknowledged to the   *)
(* broker; settling it promises a notification to every device it was      *)
(* looked up for.  What is on its way to the gateway is in memory only:    *)
(* it is lost when the program stops or dies, and otherwise arrives.       *)
(***************************************************************************)
EXTENDS Naturals

CONSTANTS Messages, Devices

VARIABLES pushes,    \* per message and device: pushes begun
          notified,  \* per message and device: pushes handed to the gateway
          forgotten, \* per message and device: pushes that will never be
          settled,   \* messages acknowledged to the broker
          promised,  \* pairs of a settled message and a device it is for
          serving,   \* the program takes pushes
          faults     \* broken links and crashes so far

notifierVars == <<pushes, notified, forgotten, settled, promised, serving, faults>>

Counts == [Messages -> [Devices -> Nat]]

OnTheWay(m, d) == notified[m][d] + forgotten[m][d] < pushes[m][d]

Init ==
  /\ pushes = [m \in Messages |-> [d \in Devices |-> 0]]
  /\ notified = pushes /\ forgotten = pushes
  /\ settled = {} /\ promised = {}
  /\ serving = TRUE /\ faults = 0

Push(m, d) ==
  /\ serving
  /\ m \notin settled
  /\ pushes[m][d] <= faults
  /\ pushes' = [pushes EXCEPT ![m][d] = @ + 1]
  /\ UNCHANGED <<notified, forgotten, settled, promised, serving, faults>>

Notify(m, d) ==
  /\ OnTheWay(m, d)
  /\ notified' = [notified EXCEPT ![m][d] = @ + 1]
  /\ UNCHANGED <<pushes, forgotten, settled, promised, serving, faults>>

Settle(m, S) ==
  /\ m \notin settled
  /\ \A d \in S : pushes[m][d] > 0
  /\ settled' = settled \cup {m}
  /\ promised' = promised \cup ({m} \X S)
  /\ UNCHANGED <<pushes, notified, forgotten, serving, faults>>

\* The link to the broker breaks.
Fault ==
  /\ faults' = faults + 1
  /\ UNCHANGED <<pushes, notified, forgotten, settled, promised, serving>>

Stop ==
  /\ serving
  /\ serving' = FALSE
  /\ UNCHANGED <<pushes, notified, forgotten, settled, promised, faults>>

Forgets(f) ==
  \A m \in Messages, d \in Devices :
    forgotten[m][d] <= f[m][d] /\ notified[m][d] + f[m][d] <= pushes[m][d]

Forget ==
  /\ ~serving
  /\ forgotten' \in Counts
  /\ Forgets(forgotten')
  /\ UNCHANGED <<pushes, notified, settled, promised, serving, faults>>

Die ==
  /\ faults' = faults + 1
  /\ forgotten' = [m \in Messages |-> [d \in Devices |-> pushes[m][d] - notified[m][d]]]
  /\ serving' = TRUE
  /\ UNCHANGED <<pushes, notified, settled, promised>>

\* The next process; nothing of the one before is on its way.
Restart ==
  /\ ~serving
  /\ \A m \in Messages, d \in Devices : ~OnTheWay(m, d)
  /\ serving' = TRUE
  /\ UNCHANGED <<pushes, notified, forgotten, settled, promised, faults>>

Next ==
  \/ \E m \in Messages, d \in Devices : Push(m, d) \/ Notify(m, d)
  \/ \E m \in Messages, S \in SUBSET Devices : Settle(m, S)
  \/ Fault \/ Stop \/ Forget \/ Die \/ Restart

Spec == Init /\ [][Next]_notifierVars
=============================================================================
