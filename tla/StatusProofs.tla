--------------------------- MODULE StatusProofs ---------------------------
(***************************************************************************)
(* The status of a command tells the truth about its process, whatever     *)
(* requests run at once: an inductive proof for ServiceStore.  It rests on *)
(* facts about processes that, once true, stay true, so that an update may *)
(* put an old status back.                                                 *)
(***************************************************************************)
EXTENDS StoreProofs

SoundInv == StoreInv /\ StatusIsSound /\ StatusWillFit

\* What is known of a process is never taken back.
FactsStay ==
  /\ interrupted \subseteq interrupted'
  /\ \A c \in Cmds : /\ Reaped(c) => Reaped(c)' /\ proc'[c] = proc[c]
                     /\ proc[c] # "none" => proc'[c] # "none"

LEMMA CallFactsStay ==
  ASSUME CmdInv, NEW g \in Callers, CallStep(g)
  PROVE  FactsStay
<1> USE DEF CmdInv, FactsStay, Reaped
<1>1. CASE UNCHANGED <<proc, waiter, interrupted>>
  BY <1>1
<1>2. CASE StartForks(g)
  BY <1>2 DEF StartForks, CmdTypeOK, ExitsInOrder
<1>3. CASE Signal(g)
  BY <1>3 DEF Signal
<1> QED BY <1>1, <1>2, <1>3
        DEF CallStep, StartFails, MarkRunning, StopChecks, SignalFails, MarkStopped, RecvExit, procVars

LEMMA CommandFactsStay ==
  ASSUME CmdInv, NEW c \in Cmds,
         ProcessEnds(c) \/ WaiterStep(c) \/ RecvFinish(c) \/ Overwrite(c)
  PROVE  FactsStay
<1> USE DEF CmdInv, FactsStay, Reaped, CmdTypeOK
<1>1. CASE ProcessEnds(c)
  BY <1>1 DEF ProcessEnds, ExitsInOrder, Ends
<1>2. CASE Reap(c)         BY <1>2 DEF Reap
<1>3. CASE MarkCrashed(c)  BY <1>3 DEF MarkCrashed
<1>4. CASE SendExit(c)     BY <1>4 DEF SendExit
<1>5. CASE SendFinish(c)   BY <1>5 DEF SendFinish
<1>6. CASE RecvFinish(c) \/ Overwrite(c)
  BY <1>6 DEF RecvFinish, Overwrite
<1> QED BY <1>1, <1>2, <1>3, <1>4, <1>5, <1>6 DEF WaiterStep

LEMMA FactsStayNext == StoreInv /\ [Next]_vars => FactsStay
<1> SUFFICES ASSUME StoreInv, [CmdNext]_cmdVars PROVE FactsStay
  BY NextCommand
<1>1. ASSUME UNCHANGED procVars PROVE FactsStay
  BY <1>1 DEF procVars, FactsStay, Reaped
<1>2. ASSUME \E g \in Callers : CallStep(g) PROVE FactsStay
  BY <1>2, CallFactsStay DEF StoreInv
<1>3. ASSUME \E g \in Callers : Enter(g) \/ Leave(g) PROVE FactsStay
  BY <1>1, <1>3 DEF Enter, Leave
<1>4. ASSUME NEW c \in Cmds, ProcessEnds(c) \/ WaiterStep(c) \/ RecvFinish(c) \/ Overwrite(c)
      PROVE  FactsStay
  BY <1>4, CommandFactsStay DEF StoreInv
<1> QED BY <1>1, <1>2, <1>3, <1>4 DEF CmdNext, cmdVars

\* A status that fits a command goes on fitting it.
LEMMA StillFits ==
  ASSUME FactsStay, NEW c \in Cmds, NEW s, Fits(s, c)
  PROVE  /\ s = "stopped" => c \in interrupted'
         /\ s = "crashed" => Reaped(c)' /\ proc'[c] \in {"failed", "killed"}
         /\ s = "succeed" => Reaped(c)' /\ proc'[c] = "ok"
         /\ s = "running" => proc'[c] # "none"
  BY DEF FactsStay, Fits

\* So the status of a command that a step does not write is sound after it,
LEMMA UnwrittenFits ==
  ASSUME FactsStay, NEW c \in Cmds, Fits(status[c], c), status'[c] = status[c]
  PROVE  Fits(status[c], c)'
  BY StillFits DEF Fits

\* and so is one that an update keeps.
LEMMA KeptFits ==
  ASSUME FactsStay, NEW g \in Callers, job[g].svc \in Cmds, Fits(job[g].old, job[g].svc),
         job'[g].old = job[g].old, job'[g].svc = job[g].svc
  PROVE  Fits(job[g].old, job[g].svc)'
  BY StillFits DEF Fits

\* The status an update reads and keeps fits: Status derives it from the process.
LEMMA StatusFits ==
  ASSUME CmdInv, NEW c \in Cmds, Fits(status[c], c)
  PROVE  Fits(Status(c), c)
  BY DEF Fits, Status, CmdInv, CmdTypeOK, ExitsInOrder, Reaped, Ends

-----------------------------------------------------------------------------
\* The places where Start and Stop are about to write a status.
AboutToWrite == \A g \in Callers : /\ at[g] = "mark" => target[g] \in interrupted
                                   /\ at[g] = "forked" => proc[target[g]] # "none"

\* The updates that keep a status, and the waiters that are about to write one.
Kept == \A g \in Callers :
          job[g].pc \in {"lock", "fetch", "restore"} => Fits(job[g].old, job[g].svc)
CrashSeen == \A c \in Cmds : waiter[c] = "crash" => proc[c] # "ok"

LEMMA KeptStays ==
  ASSUME SoundInv, FactsStay, UNCHANGED job
  PROVE  Kept'
<1> SUFFICES ASSUME NEW g \in Callers, job[g].pc \in {"lock", "fetch", "restore"}
             PROVE  Fits(job[g].old, job[g].svc)'
  BY DEF Kept
<1>1. job[g].svc \in Cmds /\ Fits(job[g].old, job[g].svc)
  BY DEF SoundInv, StoreInv, StoreTypeOK, JobTypeOK, AtFind, StatusWillFit
<1> QED BY <1>1, KeptFits

\* Start and Stop write "error", "running" after a fork, and "stopped" after a signal.
LEMMA CallSound ==
  ASSUME SoundInv, FactsStay, NEW g \in Callers, CallStep(g)
  PROVE  StatusIsSound' /\ AboutToWrite' /\ CrashSeen'
<1>0. /\ target[g] \in Cmds /\ target' = target
      /\ CmdTypeOK /\ AboutToWrite
  BY DEF SoundInv, StatusWillFit, AboutToWrite, StoreInv, CmdInv, CmdTypeOK, CallStep, StartFails,
         StartForks, MarkRunning, StopChecks, SignalFails, Signal, MarkStopped, RecvExit, Goto
<1>1. AboutToWrite'
  <2> SUFFICES ASSUME NEW h \in Callers
               PROVE  /\ at'[h] = "mark" => target[h] \in interrupted'
                      /\ at'[h] = "forked" => proc'[target[h]] # "none"
    BY <1>0 DEF AboutToWrite
  <2>1. CASE at'[h] = at[h]
    BY <1>0, <2>1 DEF AboutToWrite, FactsStay, CmdTypeOK
  <2>2. CASE h = g /\ at'[h] \in {"mark", "forked"}
    <3>1. Signal(g) \/ StartForks(g)
      BY <1>0, <2>2 DEF CmdTypeOK, CallStep, StartFails, StartForks, MarkRunning, StopChecks,
                   SignalFails, Signal, MarkStopped, RecvExit, Goto
    <3> QED BY <1>0, <2>2, <3>1 DEF Signal, StartForks, CmdTypeOK, Goto
  <2>3. at'[h] = at[h] \/ h = g
    BY <1>0 DEF CmdTypeOK, CallStep, StartFails, StartForks, MarkRunning, StopChecks,
                SignalFails, Signal, MarkStopped, RecvExit, Goto
  <2> QED BY <2>1, <2>2, <2>3
<1>2. CrashSeen'
  BY <1>0 DEF CrashSeen, SoundInv, StatusWillFit, CmdTypeOK, CallStep, StartFails, StartForks,
              MarkRunning, StopChecks, SignalFails, Signal, MarkStopped, RecvExit, procVars
<1>3. StatusIsSound'
  <2> SUFFICES ASSUME NEW c \in Cmds PROVE Fits(status[c], c)'
    BY DEF StatusIsSound
  <2>1. CASE status'[c] = status[c]
    BY <2>1, UnwrittenFits DEF SoundInv, StatusIsSound
  <2>2. CASE c = target[g] /\ StartFails(g)
    BY <1>0, <2>2 DEF StartFails, SetStatus, Fits, CmdTypeOK
  <2>3. CASE c = target[g] /\ MarkRunning(g)
    BY <1>0, <2>3 DEF MarkRunning, Goto, SetStatus, Fits, CmdTypeOK, AboutToWrite
  <2>4. CASE c = target[g] /\ MarkStopped(g)
    BY <1>0, <2>4 DEF MarkStopped, Goto, SetStatus, Fits, CmdTypeOK, AboutToWrite
  <2>5. \/ status'[c] = status[c]
        \/ c = target[g] /\ (StartFails(g) \/ MarkRunning(g) \/ MarkStopped(g))
    BY <1>0 DEF CmdTypeOK, CallStep, StartFails, StartForks, MarkRunning, StopChecks,
                SignalFails, Signal, MarkStopped, RecvExit, SetStatus, procVars
  <2> QED BY <2>1, <2>2, <2>3, <2>4, <2>5
<1> QED BY <1>1, <1>2, <1>3

\* The waiter writes "crashed" once it has seen the process end badly.
LEMMA WaiterSound ==
  ASSUME SoundInv, FactsStay, UNCHANGED callVars, NEW c \in Cmds,
         ProcessEnds(c) \/ WaiterStep(c) \/ RecvFinish(c)
  PROVE  StatusIsSound' /\ AboutToWrite' /\ CrashSeen'
<1>0. /\ CmdTypeOK /\ ExitsInOrder /\ AboutToWrite /\ CrashSeen
  BY DEF SoundInv, StatusWillFit, AboutToWrite, CrashSeen, StoreInv, CmdInv
<1>1. AboutToWrite'
  BY <1>0 DEF AboutToWrite, callVars, FactsStay, CmdTypeOK
<1>2. CrashSeen'
  <2>1. CASE ProcessEnds(c)
    BY <1>0, <2>1 DEF ProcessEnds, CrashSeen, CmdTypeOK, ExitsInOrder, Reaped, Ends
  <2>2. CASE Reap(c)
    BY <1>0, <2>2 DEF Reap, CrashSeen, CmdTypeOK
  <2>3. CASE MarkCrashed(c) \/ SendExit(c) \/ SendFinish(c) \/ RecvFinish(c)
    BY <1>0, <2>3 DEF MarkCrashed, SendExit, SendFinish, RecvFinish, CrashSeen, CmdTypeOK
  <2> QED BY <2>1, <2>2, <2>3 DEF WaiterStep
<1>3. StatusIsSound'
  <2> SUFFICES ASSUME NEW d \in Cmds PROVE Fits(status[d], d)'
    BY DEF StatusIsSound
  <2>1. CASE status'[d] = status[d]
    BY <2>1, UnwrittenFits DEF SoundInv, StatusIsSound
  <2>2. CASE d = c /\ MarkCrashed(c)
    BY <1>0, <2>2 DEF MarkCrashed, SetStatus, Fits, CmdTypeOK, ExitsInOrder, Reaped, Ends, CrashSeen
  <2>3. status'[d] = status[d] \/ (d = c /\ MarkCrashed(c))
    BY <1>0 DEF ProcessEnds, WaiterStep, Reap, MarkCrashed, SendExit, SendFinish, RecvFinish,
                SetStatus, CmdTypeOK
  <2> QED BY <2>1, <2>2, <2>3
<1> QED BY <1>1, <1>2, <1>3

-----------------------------------------------------------------------------
\* A step of the store moves its goroutine into a call or out of one, and writes
\* no status but "updating" and the one that its update has kept.
LEMMA StoreStepWrites ==
  ASSUME StoreInv, NEW g \in Callers, StoreStep(g)
  PROVE  /\ UNCHANGED <<proc, waiter, interrupted>>
         /\ \A h \in Callers : \/ at'[h] = at[h] /\ target'[h] = target[h]
                               \/ at'[h] \in {"out", "start", "stop"}
         /\ \/ UNCHANGED status
            \/ SetStatus(job[g].svc, "updating")
            \/ job[g].pc = "restore" /\ SetStatus(job[g].svc, job[g].old)
<1>0. at \in [Callers -> {"out", "start", "forked", "stop", "signal", "mark", "recv", "nil", "err"}]
      /\ target \in [Callers -> Cmds \cup {NoCmd}]
  BY DEF StoreInv, CmdInv, CmdTypeOK
<1> USE DEF procVars, callVars, cmdVars
<1>1. CASE UNCHANGED cmdVars
  BY <1>1
<1>2. CASE UNCHANGED procVars /\ \E m \in {"start", "stop"}, c \in Cmds \cup {NoCmd} : Call(g, m, c)
  BY <1>0, <1>2 DEF Call
<1>3. CASE Leave(g)
  BY <1>0, <1>3 DEF Leave, Return
<1>4. CASE LockService(g)
  BY <1>4 DEF LockService
<1>5. CASE RestoreStatus(g)
  BY <1>5 DEF RestoreStatus
<1>6. CASE Launch(g) \/ StopOld(g)
  <2>1. job[g].svc \in Cmds
    BY <1>6 DEF Launch, StopOld, StoreInv, StoreTypeOK, JobTypeOK, AtFind
  <2> QED BY <1>2, <1>6, <2>1 DEF Launch, StopOld
<1>7. ASSUME NEW n \in Names, CallInLoop(g, n)
      PROVE  UNCHANGED procVars /\ \E m \in {"start", "stop"}, c \in Cmds \cup {NoCmd} : Call(g, m, c)
  <2>1. list[n] \in Cmds
    BY DEF StoreInv, StoreTypeOK, ObjTypeOK
  <2> QED BY <1>7, <2>1 DEF CallInLoop
<1> QED BY <1>1, <1>2, <1>3, <1>4, <1>5, <1>6, <1>7
        DEF StoreStep, Find, CheckStatus, AnnounceSave, CommitSave, Launched, StoppedOld,
            ReadOldStatus, FetchFails, FetchSucceeds, LockManager, EnterLoop, CalledInLoop,
            LoopFinishes, CallFails, BootstrapFails, BootstrapService

LEMMA StoreStepSound ==
  ASSUME SoundInv, FactsStay, NEW g \in Callers, StoreStep(g)
  PROVE  StatusIsSound' /\ AboutToWrite' /\ CrashSeen'
<1>0. /\ StoreInv /\ CmdTypeOK /\ JobTypeOK /\ AboutToWrite /\ CrashSeen
  BY DEF SoundInv, StatusWillFit, AboutToWrite, CrashSeen, StoreInv, StoreTypeOK, CmdInv
<1>1. AboutToWrite'
  BY <1>0, StoreStepWrites DEF AboutToWrite
<1>2. CrashSeen'
  BY <1>0, StoreStepWrites DEF CrashSeen
<1>3. StatusIsSound'
  <2> SUFFICES ASSUME NEW c \in Cmds PROVE Fits(status[c], c)'
    BY DEF StatusIsSound
  <2>1. CASE status'[c] = status[c]
    BY <2>1, UnwrittenFits DEF SoundInv, StatusIsSound
  <2>2. CASE status'[c] = "updating"
    BY <2>2 DEF Fits
  <2>3. CASE job[g].pc = "restore" /\ c = job[g].svc /\ status'[c] = job[g].old
    <3>1. Fits(job[g].old, c)
      BY <2>3 DEF SoundInv, StatusWillFit
    <3> QED BY <2>3, <3>1, StillFits DEF Fits
  <2> QED BY <1>0, <2>1, <2>2, <2>3, StoreStepWrites DEF SetStatus, CmdTypeOK
<1> QED BY <1>1, <1>2, <1>3

\* An update keeps the status it has just read, with its command, to the end.
LEMMA KeptStep ==
  ASSUME SoundInv, FactsStay, StoreInv', NEW g \in Callers, StoreStep(g)
  PROVE  Kept'
<1> SUFFICES ASSUME NEW h \in Callers, job'[h].pc \in {"lock", "fetch", "restore"}
             PROVE  Fits(job[h].old, job[h].svc)'
  BY DEF Kept
<1>0. JobTypeOK /\ Kept /\ StatusIsSound /\ CmdInv
  BY DEF SoundInv, StatusWillFit, Kept, StoreInv, StoreTypeOK
<1>1. CASE /\ job[h].pc \in {"lock", "fetch", "restore"}
           /\ job'[h].old = job[h].old /\ job'[h].svc = job[h].svc
  BY <1>0, <1>1, KeptFits DEF Kept, JobTypeOK, AtFind
<1>2. CASE h = g /\ ReadOldStatus(g)
  <2>1. job[g].svc \in Cmds
    BY <1>0, <1>2 DEF ReadOldStatus, At, JobTypeOK, AtFind
  <2>2. Fits(Status(job[g].svc), job[g].svc)
    BY <1>0, <2>1, StatusFits DEF StatusIsSound
  <2>3. /\ job'[g].old = Status(job[g].svc) /\ job'[g].svc = job[g].svc
        /\ UNCHANGED <<proc, waiter, interrupted>>
    BY <1>0, <1>2 DEF ReadOldStatus, JobTypeOK, Jobs, cmdVars, procVars
  <2> QED BY <1>2, <2>2, <2>3 DEF Fits, Reaped
<1>3. CASE h = g /\ (LockService(g) \/ FetchFails(g) \/ FetchSucceeds(g))
  <2>1. CASE LockService(g)
    BY <1>0, <1>1, <1>3, <2>1, LockEffect DEF LockService
  <2>2. ASSUME job[g].pc = "fetch", NEW pc \in AtFind, Move(g, pc)
        PROVE  Fits(job[h].old, job[h].svc)'
    BY <1>0, <1>1, <1>3, <2>2 DEF Move, JobTypeOK, Jobs
  <2> QED BY <1>3, <2>1, <2>2 DEF FetchFails, FetchSucceeds, AtFind
<1>4. CASE h # g
  <2>1. \E j : job' = [job EXCEPT ![g] = j]
    BY DEF StoreStep, Find, CheckStatus, Clone, AnnounceSave, CommitSave, Launch, Launched, StopOld,
           StoppedOld, ReadOldStatus, LockService, FetchFails, FetchSucceeds, RestoreStatus,
           LockManager, EnterLoop, CalledInLoop, LoopFinishes, CallFails, BootstrapFails,
           BootstrapService, CallInLoop, Take, EndLoop, Release, NextLoop, Move, Done
  <2> QED BY <1>0, <1>1, <1>4, <2>1 DEF JobTypeOK
<1>5. CASE ~(ReadOldStatus(g) \/ LockService(g) \/ FetchFails(g) \/ FetchSucceeds(g))
  <2>1. \/ \E pc \in {"launch", "commit", "starting", "stopping", "rlock", "loop"} : Move(g, pc)
        \/ Done(g) \/ Clone(g) \/ Find(g) \/ EnterLoop(g)
        \/ \E n \in Names, pc \in {"loop", "looping"} : Take(g, n, pc)
        \/ \E op \in {"startAll", "abort"} : NextLoop(g, op)
    BY <1>5 DEF StoreStep, CheckStatus, AnnounceSave, CommitSave, Launch, Launched, StopOld,
         StoppedOld, RestoreStatus, LockManager, CalledInLoop, LoopFinishes, CallFails,
         BootstrapFails, BootstrapService, CallInLoop, EndLoop, Release
  <2>2. job'[g].pc \notin {"lock", "fetch", "restore"}
    <3>1. CASE \E pc \in {"launch", "commit", "starting", "stopping", "rlock", "loop"} : Move(g, pc)
      BY <1>0, <3>1 DEF Move, JobTypeOK, Jobs
    <3>2. CASE Done(g)
      BY <1>0, <3>2 DEF Done, Idle, Job, JobTypeOK
    <3>3. CASE Clone(g) \/ Find(g) \/ EnterLoop(g)
      BY <1>0, <3>3 DEF Clone, Find, EnterLoop, JobTypeOK, Jobs
    <3>4. CASE \E n \in Names, pc \in {"loop", "looping"} : Take(g, n, pc)
      BY <1>0, <3>4 DEF Take, JobTypeOK, Jobs
    <3>5. CASE \E op \in {"startAll", "abort"} : NextLoop(g, op)
      BY <1>0, <3>5 DEF NextLoop, Job, JobTypeOK
    <3> QED BY <2>1, <3>1, <3>2, <3>3, <3>4, <3>5
  <2> QED BY <1>4, <2>2
<1> QED BY <1>2, <1>3, <1>4, <1>5

LEMMA SoundNext == SoundInv /\ [Next]_vars => SoundInv'
<1> SUFFICES ASSUME SoundInv, [Next]_vars PROVE SoundInv'
  OBVIOUS
<1>0. StoreInv' /\ FactsStay
  BY StoreNextInv, FactsStayNext DEF SoundInv
<1> DEFINE Goal == StatusIsSound' /\ AboutToWrite' /\ CrashSeen' /\ Kept'
<1>1. ASSUME NEW g \in Callers, GoStep(g) PROVE Goal
  <2>1. CASE StoreStep(g)
    BY <1>0, <2>1, StoreStepSound, KeptStep
  <2>2. CASE CallStep(g) /\ UNCHANGED storeVars
    BY <1>0, <2>2, CallSound, KeptStays DEF storeVars
  <2> QED BY <1>1, <2>1, <2>2 DEF GoStep
<1>2. ASSUME NEW c \in Cmds, UNCHANGED <<callVars, job>>,
             ProcessEnds(c) \/ WaiterStep(c) \/ RecvFinish(c)
      PROVE  Goal
  BY <1>0, <1>2, WaiterSound, KeptStays
<1>3. ASSUME NEW c \in Cmds, WaitStep(c) \/ ExitStep(c) PROVE Goal
  BY <1>2, <1>3 DEF WaitStep, ExitStep, Notice, storeVars
<1>4. ASSUME UNCHANGED cmdVars, Kept' PROVE Goal
  BY <1>4 DEF SoundInv, StatusWillFit, StatusIsSound, AboutToWrite, CrashSeen, Fits, Reaped,
              cmdVars, procVars, callVars
<1>5. ASSUME NEW g \in Http \cup Mqtt, NEW op \in Ops, NEW n \in Names, Request(g, op, n)
      PROVE  Goal
  <2>1. Kept'
    <3> SUFFICES ASSUME NEW h \in Callers, job'[h].pc \in {"lock", "fetch", "restore"}
                 PROVE  Fits(job[h].old, job[h].svc)'
      BY DEF Kept
    <3>1. job'[h] = job[h]
      BY <1>5 DEF Request, Job, SoundInv, StoreInv, StoreTypeOK, JobTypeOK
    <3> QED BY <1>0, <3>1, KeptFits
            DEF SoundInv, StatusWillFit, StoreInv, StoreTypeOK, JobTypeOK, AtFind
  <2> QED BY <1>4, <1>5, <2>1 DEF Request
<1>6. ASSUME Interrupt PROVE Goal
  <2>1. Kept'
    <3> SUFFICES ASSUME NEW h \in Callers, job'[h].pc \in {"lock", "fetch", "restore"}
                 PROVE  Fits(job[h].old, job[h].svc)'
      BY DEF Kept
    <3>1. job'[h] = job[h]
      BY <1>6 DEF Interrupt, Job, SoundInv, StoreInv, StoreTypeOK, JobTypeOK
    <3> QED BY <1>0, <3>1, KeptFits
            DEF SoundInv, StatusWillFit, StoreInv, StoreTypeOK, JobTypeOK, AtFind
  <2> QED BY <1>4, <1>6, <2>1 DEF Interrupt
<1>7. ASSUME UNCHANGED vars PROVE Goal
  BY <1>0, <1>4, <1>7, KeptStays DEF vars, storeVars
<1>8. ASSUME Connect PROVE Goal
  BY <1>0, <1>4, <1>8, KeptStays DEF Connect, cmdVars, procVars
<1>9. Goal
  BY <1>1, <1>3, <1>5, <1>6, <1>7, <1>8 DEF Next
<1> QED BY <1>0, <1>9 DEF SoundInv, StatusWillFit, AboutToWrite, CrashSeen, Kept

LEMMA SoundInit == (Init => SoundInv) /\ (InitUp => SoundInv)
<1>1. ASSUME Init PROVE StatusIsSound /\ StatusWillFit
  BY <1>1 DEF Init, CmdInit, CallsInit, StatusIsSound, StatusWillFit, Fits, Idle, Job
<1>2. ASSUME InitUp PROVE StatusIsSound /\ StatusWillFit
  BY <1>2 DEF InitUp, CallsInit, StatusIsSound, StatusWillFit, Fits, Idle, Job
<1> QED BY <1>1, <1>2, StoreInitInv, StoreInitUpInv DEF SoundInv

-----------------------------------------------------------------------------
\* No interleaving of requests, of the boot, of the shutdown and of the ends of
\* processes leaves a command with a status its process contradicts.
THEOREM StatusAlwaysSound == Spec => []StatusIsSound
<1>1. SoundInv => StatusIsSound
  BY DEF SoundInv
<1> QED BY <1>1, SoundInit, SoundNext, PTL DEF Spec

\* The same from the end of the boot on, where the runs about requests start.
THEOREM StatusAlwaysSoundUp == UpSpec => []StatusIsSound
<1>1. SoundInv => StatusIsSound
  BY DEF SoundInv
<1> QED BY <1>1, SoundInit, SoundNext, PTL DEF UpSpec
=============================================================================
