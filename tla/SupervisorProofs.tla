--------------------------- MODULE SupervisorProofs ---------------------------
(***************************************************************************)
(* Proofs about Supervisor for any finite set of pids and any number of    *)
(* crashes, updates and pids used again: type correctness, and one tracked *)
(* instance as long as no script begins while the other one runs.          *)
(***************************************************************************)
EXTENDS Supervisor, TLAPS

\* What a script relies on at each of its commands, when nothing overlaps.
Alone ==
  /\ \A s, t \in Scripts : pc[s] # "off" /\ pc[t] # "off" => s = t
  /\ \A s \in Scripts, p \in Pids : pc[s] # "off" => proc[p] # "boot"
  /\ \A s \in Scripts : pc[s] \in {"kill", "int", "poll"} => botpid[s] = pidfile
  /\ \A s \in Scripts : pc[s] \in {"rm", "load", "erase"} => Instances = {}

Tracked ==
  /\ \A p, q \in Instances : p = q
  /\ \A p \in Instances : proc[p] # "boot" => pidfile = p

IInv == TypeOK /\ (overlap \/ (Alone /\ Tracked))

-----------------------------------------------------------------------------
LEMMA ProcChange ==
  ASSUME TypeOK, NEW p \in Pids, NEW state, Change(p, state)
  PROVE  proc'[p] = state /\ \A q \in Pids : q # p => proc'[q] = proc[q]
  BY DEF Change, TypeOK

LEMMA PcChange ==
  ASSUME TypeOK, NEW s \in Scripts, NEW command, Goto(s, command)
  PROVE  pc'[s] = command /\ \A t \in Scripts : t # s => pc'[t] = pc[t]
  BY DEF Goto, TypeOK

LEMMA StepCases ==
  ASSUME Next
  PROVE  \/ Cron \/ Update
         \/ \E s \in Scripts : Test(s) \/ Cat(s) \/ Kill(s) \/ Rm(s) \/ Load(s)
         \/ Look \/ ReadPid \/ Interrupt \/ Poll \/ Erase
         \/ \E p \in Pids : WritePid(p) \/ Finish(p) \/ Crash(p) \/ Reuse(p) \/ OtherEnds(p)
  BY DEF Next, botchk, update, Program, Environment, Scripts

LEMMA TypeStep == TypeOK /\ [Next]_vars => TypeOK'
<1>. SUFFICES ASSUME TypeOK, [Next]_vars  PROVE TypeOK'
  OBVIOUS
<1>. USE DEF TypeOK, Goto, Change, scripts, counts, Scripts
<1>1. CASE Cron  BY <1>1 DEF Cron, Begin
<1>2. CASE Update  BY <1>2, BoundAssumption DEF Update, Begin
<1>3. ASSUME NEW s \in Scripts, Test(s) \/ Cat(s) \/ Kill(s) \/ Rm(s)  PROVE TypeOK'
  BY <1>3 DEF Test, Cat, Kill, Rm
<1>4. ASSUME NEW s \in Scripts, Load(s)  PROVE TypeOK'
  BY <1>4 DEF Load, Fresh
<1>5. CASE Look \/ ReadPid \/ Poll \/ Erase
  BY <1>5 DEF Look, ReadPid, Poll, Erase
<1>6. CASE Interrupt  BY <1>6 DEF Interrupt, Exists
<1>7. ASSUME NEW p \in Pids, WritePid(p) \/ Finish(p) \/ OtherEnds(p)  PROVE TypeOK'
  BY <1>7 DEF WritePid, Finish, OtherEnds
<1>8. ASSUME NEW p \in Pids, Crash(p) \/ Reuse(p)  PROVE TypeOK'
  BY <1>8, BoundAssumption DEF Crash, Reuse
<1>9. CASE UNCHANGED vars  BY <1>9 DEF vars
<1>. QED  BY <1>1, <1>2, <1>3, <1>4, <1>5, <1>6, <1>7, <1>8, <1>9, StepCases

LEMMA AloneStep ==
  TypeOK /\ TypeOK' /\ (overlap \/ (Alone /\ Tracked)) /\ [Next]_vars =>
    overlap' \/ (Alone' /\ Tracked')
<1>. SUFFICES ASSUME TypeOK, TypeOK', overlap \/ (Alone /\ Tracked), [Next]_vars, ~overlap'
              PROVE  Alone' /\ Tracked'
  OBVIOUS
<1>. USE DEF scripts, counts
<1>0. ~overlap /\ Alone /\ Tracked
  <2>1. ~overlap
    BY StepCases
    DEF vars, Cron, Update, Begin, Test, Cat, Kill, Rm, Load, Look, ReadPid, Interrupt,
        Poll, Erase, WritePid, Finish, Crash, Reuse, OtherEnds, TypeOK
  <2>. QED  BY <2>1
<1>1. ASSUME NEW s \in Scripts, NEW command \in {"test", "look"}, Begin(s, command),
             UNCHANGED <<pidfile, proc, botpid>>
      PROVE  Alone' /\ Tracked'
  <2>1. /\ \A t \in Scripts \ {s} : pc[t] = "off"
        /\ \A p \in Pids : proc[p] # "boot"
    BY <1>1 DEF Begin, Overlapping
  <2>. QED  BY <1>0, <1>1, <2>1, PcChange DEF Begin, Alone, Tracked, Instances
<1>2. CASE Cron \/ Update
  BY <1>1, <1>2 DEF Cron, Update, Scripts
<1>3. ASSUME NEW s \in Scripts, Test(s)  PROVE Alone' /\ Tracked'
  <2>1. pidfile = NoPid => Instances = {}
    BY <1>0, <1>3, PidAssumption DEF Test, Alone, Tracked, Instances
  <2>. QED  BY <1>0, <1>3, <2>1, PcChange DEF Test, Alone, Tracked, Instances
<1>4. ASSUME NEW s \in Scripts, Cat(s)  PROVE Alone' /\ Tracked'
  BY <1>0, <1>4, PcChange DEF Cat, Alone, Tracked, Instances, TypeOK
<1>5. ASSUME NEW s \in Scripts, Kill(s)  PROVE Alone' /\ Tracked'
  <2>1. ~Exists(botpid[s]) => Instances = {}
    BY <1>0, <1>5 DEF Kill, Exists, Alone, Tracked, Instances
  <2>. QED  BY <1>0, <1>5, <2>1, PcChange DEF Kill, Alone, Tracked, Instances
<1>6. ASSUME NEW s \in Scripts, Rm(s)  PROVE Alone' /\ Tracked'
  BY <1>0, <1>6, PcChange DEF Rm, Alone, Tracked, Instances
<1>7. ASSUME NEW s \in Scripts, Load(s)  PROVE Alone' /\ Tracked'
  <2>1. PICK p \in Fresh : Change(p, "boot")  BY <1>7 DEF Load
  <2>2. p \in Pids /\ Instances = {}  BY <1>0, <1>7 DEF Load, Fresh, Alone
  <2>3. Instances' = {p} /\ proc'[p] = "boot"
    BY <2>1, <2>2, ProcChange DEF Instances
  <2>4. \A t \in Scripts : pc'[t] = "off"
    BY <1>0, <1>7, PcChange DEF Load, Alone
  <2>. QED  BY <2>3, <2>4 DEF Alone, Tracked
<1>8. CASE Look
  <2>0. "update" \in Scripts  BY DEF Scripts
  <2>1. pidfile = NoPid => Instances = {}
    BY <1>0, <1>8, <2>0, PidAssumption DEF Look, Alone, Tracked, Instances
  <2>. QED  BY <1>0, <1>8, <2>0, <2>1, PcChange DEF Look, Alone, Tracked, Instances
<1>9. CASE ReadPid
  <2>0. "update" \in Scripts  BY DEF Scripts
  <2>. QED  BY <1>0, <1>9, <2>0, PcChange DEF ReadPid, Alone, Tracked, Instances, TypeOK
<1>10. CASE Interrupt
  <2>0. "update" \in Scripts  BY DEF Scripts
  <2>1. /\ Instances' = Instances
        /\ \A q \in Pids : proc'[q] = "boot" <=> proc[q] = "boot"
    BY <1>10, ProcChange DEF Interrupt, Exists, Instances
  <2>. QED  BY <1>0, <1>10, <2>0, <2>1, PcChange DEF Interrupt, Alone, Tracked, Instances
<1>11. CASE Poll
  <2>0. "update" \in Scripts  BY DEF Scripts
  <2>1. Instances = {}
    BY <1>0, <1>11, <2>0 DEF Poll, Exists, Alone, Tracked, Instances
  <2>. QED  BY <1>0, <1>11, <2>0, <2>1, PcChange DEF Poll, Alone, Tracked, Instances
<1>12. CASE Erase
  <2>0. "update" \in Scripts  BY DEF Scripts
  <2>. QED  BY <1>0, <1>12, <2>0, PcChange DEF Erase, Alone, Tracked, Instances
<1>13. ASSUME NEW p \in Pids, WritePid(p)  PROVE Alone' /\ Tracked'
  <2>1. \A s \in Scripts : pc[s] = "off"  BY <1>0, <1>13 DEF WritePid, Alone
  <2>2. Instances = {p} /\ Instances' = {p}
    BY <1>0, <1>13, ProcChange DEF WritePid, Tracked, Instances
  <2>. QED  BY <1>13, <2>1, <2>2 DEF WritePid, Alone, Tracked
<1>14. ASSUME NEW p \in Pids, Finish(p) \/ Crash(p) \/ Reuse(p) \/ OtherEnds(p)
       PROVE  Alone' /\ Tracked'
  <2>1. /\ Instances' \subseteq Instances
        /\ \A q \in Instances' : proc'[q] = proc[q]
        /\ \A q \in Pids : proc'[q] = "boot" => proc[q] = "boot"
    BY <1>14, ProcChange DEF Finish, Crash, Reuse, OtherEnds, Instances
  <2>. QED  BY <1>0, <1>14, <2>1 DEF Finish, Crash, Reuse, OtherEnds, Alone, Tracked
<1>15. CASE UNCHANGED vars
  BY <1>0, <1>15 DEF vars, Alone, Tracked, Instances
<1>. QED
  BY <1>2, <1>3, <1>4, <1>5, <1>6, <1>7, <1>8, <1>9, <1>10, <1>11, <1>12, <1>13, <1>14,
     <1>15, StepCases

LEMMA Inductive == Spec => []IInv
<1>1. Init => IInv
  <2>. SUFFICES ASSUME Init  PROVE IInv
    OBVIOUS
  <2>0. 0 \in 0 .. MaxCrashes /\ 0 \in 0 .. MaxUpdates /\ 0 \in 0 .. MaxReuses
    BY BoundAssumption
  <2>1. TypeOK  BY <2>0 DEF Init, TypeOK, Scripts
  <2>2. Alone /\ Tracked  BY DEF Init, Alone, Tracked, Instances
  <2>. QED  BY <2>1, <2>2 DEF IInv
<1>2. IInv /\ [Next]_vars => IInv'
  BY TypeStep, AloneStep DEF IInv
<1>. QED  BY <1>1, <1>2, PTL DEF Spec

-----------------------------------------------------------------------------
\* The pid file holds a pid or does not exist, and each script is at one of
\* its commands.
THEOREM TypeCorrect == Spec => []TypeOK
<1>1. IInv => TypeOK  BY DEF IInv
<1>. QED  BY <1>1, Inductive, PTL

\* The two scripts start no second program and lose track of none, for any
\* number of crashes and reused pids, as long as neither begins while the
\* other one runs or a program is booting (apnspusher.botchk:33-50,
\* update.sh:18-34).
THEOREM NoSecondInstance == Spec => []OneTrackedInstance
<1>1. IInv => OneTrackedInstance
  BY DEF IInv, Alone, Tracked, OneTrackedInstance
<1>. QED  BY <1>1, Inductive, PTL
=============================================================================
