------------------------------ MODULE Supervisor ------------------------------
(***************************************************************************)
(* The scripts that keep the program running, over one pid file: the cron  *)
(* job apnspusher.botchk starts the program when the process named in the  *)
(* file is gone, and update.sh, run by hand, stops it, waits for its end   *)
(* and then runs apnspusher.botchk.  One action per command of a script.   *)
(*                                                                         *)
(* External: the program itself (it writes its pid once its configuration  *)
(* is read, main.cpp:69; nothing ever removes the file at its end), crashes*)
(* and the reuse of the pid of a process that is gone.                     *)
(***************************************************************************)
EXTENDS Naturals, FiniteSets

CONSTANTS Pids,
          NoPid,       \* no such file; the output of cat when there is none
          MaxCrashes, MaxUpdates, MaxReuses  \* bounds on the environment

ASSUME PidAssumption == NoPid \notin Pids /\ IsFiniteSet(Pids)
ASSUME BoundAssumption ==
  MaxCrashes \in Nat /\ MaxUpdates \in Nat /\ MaxReuses \in Nat

Scripts == {"cron", "update"}

VARIABLES
  pidfile,   \* what apnspusher.pid holds
  proc,      \* per pid: "free", "boot" and "up" and "ending" (ours), "other"
  pc,        \* per script: the command it is at, "off" when it does not run
  botpid,    \* per script: $botpid
  \* history
  overlap,   \* a script began while the other ran or the program was booting
  crashes, updates, reuses

scripts == <<pc, botpid>>
counts == <<crashes, updates, reuses>>
vars == <<pidfile, proc, pc, botpid, overlap, crashes, updates, reuses>>

Init ==
  /\ pidfile = NoPid
  /\ proc = [p \in Pids |-> "free"]
  /\ pc = [s \in Scripts |-> "off"]
  /\ botpid = [s \in Scripts |-> NoPid]
  /\ overlap = FALSE
  /\ crashes = 0 /\ updates = 0 /\ reuses = 0

\* kill -CHLD $pid succeeds.
Exists(p) == p \in Pids /\ proc[p] # "free"

Instances == {p \in Pids : proc[p] \in {"boot", "up", "ending"}}

\* Pids a script or the file still remembers: such a pid is given again by
\* Reuse only.
Held ==
  {pidfile} \cup {botpid[s] : s \in {t \in Scripts : pc[t] \in {"kill", "int", "poll"}}}

Fresh == {p \in Pids \ Held : proc[p] = "free"}

\* Bounds what happens at once: the set of pids is finite here.
Room == Cardinality(Fresh) > Cardinality({s \in Scripts : pc[s] # "off"})

Goto(s, command) == pc' = [pc EXCEPT ![s] = command]

Change(p, state) == proc' = [proc EXCEPT ![p] = state]

-----------------------------------------------------------------------------
(* The program and the other processes                                     *)

WritePid(p) ==
  /\ proc[p] = "boot"
  /\ Change(p, "up")
  /\ pidfile' = p
  /\ UNCHANGED <<scripts, overlap, counts>>

\* app->stop() is done.
Finish(p) ==
  /\ proc[p] = "ending"
  /\ Change(p, "free")
  /\ UNCHANGED <<pidfile, scripts, overlap, counts>>

Crash(p) ==
  /\ p \in Instances
  /\ crashes < MaxCrashes
  /\ crashes' = crashes + 1
  /\ Change(p, "free")
  /\ UNCHANGED <<pidfile, scripts, overlap, updates, reuses>>

\* Another process of the same user gets the pid.
Reuse(p) ==
  /\ proc[p] = "free"
  /\ Room /\ reuses < MaxReuses
  /\ reuses' = reuses + 1
  /\ Change(p, "other")
  /\ UNCHANGED <<pidfile, scripts, overlap, crashes, updates>>

OtherEnds(p) ==
  /\ proc[p] = "other"
  /\ Change(p, "free")
  /\ UNCHANGED <<pidfile, scripts, overlap, counts>>

-----------------------------------------------------------------------------
(* apnspusher.botchk                                                       *)

Overlapping(s) ==
  \/ \E o \in Scripts \ {s} : pc[o] # "off"
  \/ \E p \in Pids : proc[p] = "boot"

Begin(s, command) ==
  /\ pc[s] = "off"
  /\ Goto(s, command)
  /\ Overlapping(s) => Room
  /\ overlap' = (overlap \/ Overlapping(s))

\* Every ten minutes.
Cron ==
  /\ Begin("cron", "test")
  /\ UNCHANGED <<pidfile, proc, botpid, counts>>

\* if test -r $botname.pid
Test(s) ==
  /\ pc[s] = "test"
  /\ Goto(s, IF pidfile = NoPid THEN "load" ELSE "cat")
  /\ UNCHANGED <<pidfile, proc, botpid, overlap, counts>>

Cat(s) ==
  /\ pc[s] = "cat"
  /\ botpid' = [botpid EXCEPT ![s] = pidfile]
  /\ Goto(s, "kill")
  /\ UNCHANGED <<pidfile, proc, overlap, counts>>

\* Faulty variant: whatever the file says, the program is started.
KillIgnored(s) ==
  /\ pc[s] = "kill"
  /\ Goto(s, "rm")
  /\ UNCHANGED <<pidfile, proc, botpid, overlap, counts>>

\* Faulty variant: waits for the program as update.sh does.
KillPolls(s) ==
  /\ pc[s] = "kill"
  /\ Goto(s, IF Exists(botpid[s]) THEN "poll" ELSE "rm")
  /\ UNCHANGED <<pidfile, proc, botpid, overlap, counts>>

\* It's still going: back out quietly.
Kill(s) ==
  /\ pc[s] = "kill"
  /\ Goto(s, IF Exists(botpid[s]) THEN "off" ELSE "rm")
  /\ UNCHANGED <<pidfile, proc, botpid, overlap, counts>>

\* Faulty variant: the stale file is left alone, and the job gives up.
RmNothing(s) ==
  /\ pc[s] = "rm"
  /\ Goto(s, "off")
  /\ UNCHANGED <<pidfile, proc, botpid, overlap, counts>>

\* rm -f $botname.pid: whoever's pid it is by now.
Rm(s) ==
  /\ pc[s] = "rm"
  /\ pidfile' = NoPid
  /\ Goto(s, "load")
  /\ UNCHANGED <<proc, botpid, overlap, counts>>

\* screen -d -m ./apnspusher: does not wait for the program.
Load(s) ==
  /\ pc[s] = "load"
  /\ \E p \in Fresh : Change(p, "boot")
  /\ Goto(s, "off")
  /\ UNCHANGED <<pidfile, botpid, overlap, counts>>

botchk(s) == Test(s) \/ Cat(s) \/ Kill(s) \/ Rm(s) \/ Load(s)

-----------------------------------------------------------------------------
(* update.sh                                                               *)

\* svn update and make succeeded.
Update ==
  /\ updates < MaxUpdates
  /\ updates' = updates + 1
  /\ Begin("update", "look")
  /\ UNCHANGED <<pidfile, proc, botpid, crashes, reuses>>

Look ==
  /\ pc["update"] = "look"
  /\ Goto("update", IF pidfile = NoPid THEN "erase" ELSE "read")
  /\ UNCHANGED <<pidfile, proc, botpid, overlap, counts>>

ReadPid ==
  /\ pc["update"] = "read"
  /\ botpid' = [botpid EXCEPT !["update"] = pidfile]
  /\ Goto("update", "int")
  /\ UNCHANGED <<pidfile, proc, overlap, counts>>

\* Faulty variant: the signal is not sent, the loop below waits.
NoSignal ==
  /\ pc["update"] = "int"
  /\ Goto("update", "poll")
  /\ UNCHANGED <<pidfile, proc, botpid, overlap, counts>>

\* kill -INT $botpid: the program stops in its own time; another process may
\* end or not care.
Interrupt ==
  /\ pc["update"] = "int"
  /\ Goto("update", "poll")
  /\ LET p == botpid["update"] IN
       IF Exists(p)
         THEN \/ proc[p] = "up" /\ Change(p, "ending")
              \/ proc[p] = "other" /\ Change(p, "free")
              \/ proc[p] \in {"ending", "other"} /\ UNCHANGED proc
         ELSE UNCHANGED proc
  /\ UNCHANGED <<pidfile, botpid, overlap, counts>>

\* Faulty variant: gives up waiting.
PollOnce ==
  /\ pc["update"] = "poll"
  /\ Goto("update", "erase")
  /\ UNCHANGED <<pidfile, proc, botpid, overlap, counts>>

\* while kill -CHLD $botpid; do sleep 10; done
Poll ==
  /\ pc["update"] = "poll"
  /\ ~Exists(botpid["update"])
  /\ Goto("update", "erase")
  /\ UNCHANGED <<pidfile, proc, botpid, overlap, counts>>

\* rm -f, then ./apnspusher.botchk.
Erase ==
  /\ pc["update"] = "erase"
  /\ pidfile' = NoPid
  /\ Goto("update", "test")
  /\ UNCHANGED <<proc, botpid, overlap, counts>>

update == Look \/ ReadPid \/ Interrupt \/ Poll \/ Erase \/ botchk("update")

-----------------------------------------------------------------------------
Program(p) == WritePid(p) \/ Finish(p)

Environment ==
  \/ Update
  \/ \E p \in Pids : Crash(p) \/ Reuse(p) \/ OtherEnds(p)

Next ==
  \/ Cron \/ botchk("cron") \/ update
  \/ \E p \in Pids : Program(p)
  \/ Environment

Spec == Init /\ [][Next]_vars

\* cron runs its job again and again; scripts that run go on; the program
\* boots, and ends after SIGINT (Lifecycle!SigintEnds).  Nothing is asked of
\* other processes.
Fairness ==
  /\ WF_vars(Cron) /\ WF_vars(botchk("cron")) /\ WF_vars(update)
  /\ \A p \in Pids : WF_vars(Program(p))

FairSpec == Spec /\ Fairness

-----------------------------------------------------------------------------
(* Properties                                                              *)

TypeOK ==
  /\ pidfile \in Pids \cup {NoPid}
  /\ proc \in [Pids -> {"free", "boot", "up", "ending", "other"}]
  /\ pc \in [Scripts -> {"off", "test", "cat", "kill", "rm", "load",
                         "look", "read", "int", "poll", "erase"}]
  /\ pc["cron"] \in {"off", "test", "cat", "kill", "rm", "load"}
  /\ botpid \in [Scripts -> Pids \cup {NoPid}]
  /\ overlap \in BOOLEAN
  /\ crashes \in 0 .. MaxCrashes /\ updates \in 0 .. MaxUpdates
  /\ reuses \in 0 .. MaxReuses

\* "Couldn't find the bot running" (apnspusher.botchk:46) is true as long as
\* no script begins while the other one runs or a program is booting: then
\* there is never a second instance, and the file names the one there is, so
\* that update.sh stops it and the cron job leaves it alone.
OneTrackedInstance ==
  ~overlap =>
    /\ \A p, q \in Instances : p = q
    /\ \A p \in Instances : proc[p] # "boot" => pidfile = p

\* A pid file that names a process which is none of ours, but exists.
Impostor == pidfile \in Pids /\ proc[pidfile] = "other"

\* However the program ended, it is started again, unless somebody else's
\* process has taken the pid in the file.
Restarted == Instances = {} ~> (Instances # {} \/ Impostor)

\* update.sh comes to its end, unless it waits for somebody else's process.
UpdateEnds ==
  pc["update"] # "off" ~>
    \/ pc["update"] = "off"
    \/ \E p \in Pids : botpid["update"] = p /\ proc[p] = "other"
=============================================================================
