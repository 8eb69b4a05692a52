---------------------------- MODULE SerialProofs ----------------------------
(***************************************************************************)
(* What holds of ServiceStore as long as its requests do not disturb each  *)
(* other: the store knows every process it has, "updating" shows only      *)
(* while an update is under way, and a loop that stops all services stops  *)
(* them.  With overlapping requests none of the three holds; so the        *)
(* theorems come in two forms.  The first takes as hypothesis that a       *)
(* behaviour is undisturbed (Undisturbed, QuietStop), whatever the         *)
(* goroutines and the requests are; the second has none, for the instances *)
(* in which nothing can disturb (Serial).                                  *)
(*                                                                         *)
(* First what a step can do to a job, a call, a process, a status and the  *)
(* list; then who owns which command (OwnInv, which holds with any         *)
(* requests); then the invariant of undisturbed behaviours (SerialInv).    *)
(* At the end, what holds with any requests but restarts and updates: no   *)
(* crash goes unnoticed.                                                   *)
(***************************************************************************)
EXTENDS StatusProofs

\* g goes on to another place with its request, its command and the status it keeps.
Went(g, from, to) ==
  /\ job[g].pc = from /\ job'[g].pc = to
  /\ job'[g].op = job[g].op /\ job'[g].name = job[g].name
  /\ job'[g].svc = job[g].svc /\ job'[g].old = job[g].old

\* The kinds of steps.
\* Steps that change nothing but what goroutines do.
OnlyJobs == UNCHANGED <<cmdVars, objVars, lockVars>>

LEMMA NextKinds ==
  ASSUME StoreInv, [Next]_vars
  PROVE  \/ \E g \in Callers : StoreStep(g)
         \/ UNCHANGED storeVars /\ \E g \in Callers : CallStep(g)
         \/ /\ UNCHANGED <<callVars, objVars, lockVars, job>>
            /\ \E c \in Cmds : ProcessEnds(c) \/ WaiterStep(c) \/ RecvFinish(c)
         \/ /\ UNCHANGED <<cmdVars, objVars, lockVars>>
            /\ \E g \in Callers : /\ job[g] = Idle
                                  /\ \E op, n : \E pc \in {"pm", "find"} :
                                       job' = [job EXCEPT ![g] = Job(op, n, pc)]
         \/ UNCHANGED <<cmdVars, objVars, lockVars, job>>
<1>1. ASSUME NEW c \in Cmds, WaitStep(c) \/ ExitStep(c)
      PROVE  /\ UNCHANGED <<callVars, objVars, lockVars, job>>
             /\ ProcessEnds(c) \/ WaiterStep(c) \/ RecvFinish(c)
  BY <1>1 DEF WaitStep, ExitStep, Notice, storeVars
<1>2. ASSUME NEW g \in Http \cup Mqtt, NEW op \in Ops, NEW n \in Names, Request(g, op, n)
      PROVE  /\ UNCHANGED <<cmdVars, objVars, lockVars>> /\ g \in Callers /\ job[g] = Idle
             /\ \E m : \E pc \in {"pm", "find"} : job' = [job EXCEPT ![g] = Job(op, m, pc)]
  BY <1>2, CallersAre DEF Request
<1>3. ASSUME Interrupt
      PROVE  /\ UNCHANGED <<cmdVars, objVars, lockVars>>
             /\ \/ UNCHANGED job
                \/ job[Main] = Idle /\ job' = [job EXCEPT ![Main] = Job("shutdown", NoName, "pm")]
  BY <1>3 DEF Interrupt
<1>4. CASE Connect \/ UNCHANGED vars
  BY <1>4 DEF Connect, vars, storeVars
<1> QED BY <1>1, <1>2, <1>3, <1>4, CallersAre DEF Next, GoStep

-----------------------------------------------------------------------------
\* How a goroutine comes to where it is in a request: one disjunct per place.
FoundIt(g) == /\ job[g].pc = "find" /\ job'[g].pc \in {"status", "stop"} /\ OnlyJobs
              /\ job'[g].svc = list[job[g].name]
              /\ job'[g].op = job[g].op /\ job'[g].name = job[g].name
Cloned(g) == /\ \/ job[g].pc = "status" /\ Status(job[g].svc) \in Restartable
                \/ job[g].pc = "stopping" /\ at[g] = "nil"
             /\ Clone(g) /\ UNCHANGED <<procVars, list, lockVars>>
Checked(g) == /\ Went(g, "status", "launch") /\ job[g].op = "start"
              /\ Status(job[g].svc) \notin Restartable /\ OnlyJobs
Announced(g) == Went(g, "save", "commit") /\ UNCHANGED <<cmdVars, objVars>>
Saved(g) == /\ Went(g, "commit", "launch") /\ readers = {} /\ UNCHANGED <<cmdVars, owner>>
            /\ list' = [list EXCEPT ![job[g].name] = job[g].svc]
Called(g) == /\ \/ Went(g, "launch", "starting") /\ Call(g, "start", job[g].svc)
                \/ Went(g, "stop", "stopping") /\ Call(g, "stop", job[g].svc)
             /\ UNCHANGED <<procVars, objVars>>
KeptOld(g) == /\ job[g].pc = "status" /\ job'[g].pc = "lock" /\ OnlyJobs
              /\ job'[g].op = job[g].op /\ job'[g].name = job[g].name
              /\ job'[g].svc = job[g].svc /\ job'[g].old = Status(job[g].svc)
Locked(g) == Went(g, "lock", "fetch") /\ SetStatus(job[g].svc, "updating") /\ UNCHANGED callVars
Fetched(g) == /\ Went(g, "fetch", "stop") \/ Went(g, "fetch", "restore")
              /\ UNCHANGED cmdVars

Goes(g) == \/ FoundIt(g) \/ Cloned(g) \/ Checked(g) \/ Announced(g) \/ Saved(g)
           \/ Called(g) \/ KeptOld(g) \/ Locked(g) \/ Fetched(g)

\* A step of one goroutine leaves the jobs of the others alone.
LEMMA OneJob ==
  ASSUME JobTypeOK, NEW g \in Callers, StoreStep(g), NEW h \in Callers \ {g}
  PROVE  job'[h] = job[h]
<1>1. \E j : job' = [job EXCEPT ![g] = j]
  BY DEF StoreStep, Find, CheckStatus, Clone, AnnounceSave, CommitSave, Launch, Launched, StopOld,
         StoppedOld, ReadOldStatus, LockService, FetchFails, FetchSucceeds, RestoreStatus,
         LockManager, EnterLoop, CalledInLoop, LoopFinishes, CallFails, BootstrapFails,
         BootstrapService, CallInLoop, Take, EndLoop, Release, NextLoop, Move, Done
<1> QED BY <1>1, NewJobEffect

\* A step of a goroutine that has its command afterwards is one of these,
LEMMA StoreStepJob ==
  ASSUME StoreInv, NEW g \in Callers, StoreStep(g), job'[g].pc \in Found
  PROVE  Goes(g)
<1>0. JobTypeOK
  BY DEF StoreInv, StoreTypeOK
<1> USE DEF Goes
<1>1. ASSUME NEW from, NEW to, job[g].pc = from, Move(g, to) PROVE Went(g, from, to)
  BY <1>0, <1>1, MoveEffect DEF Went
<1>2. ~Done(g)
  BY <1>0, NewJobEffect DEF Done, Idle, Job, Found, AtFind
<1>3. CASE Find(g)
  BY <1>0, <1>3 DEF Find, FoundIt, OnlyJobs, JobTypeOK, Jobs
<1>4. CASE CheckStatus(g)
  BY <1>1, <1>4 DEF CheckStatus, At, Cloned, Checked, OnlyJobs, cmdVars, objVars
<1>5. CASE AnnounceSave(g)
  BY <1>1, <1>5 DEF AnnounceSave, Announced
<1>6. CASE CommitSave(g)
  BY <1>1, <1>6 DEF CommitSave, Saved
<1>7. CASE Launch(g) \/ StopOld(g)
  BY <1>1, <1>7 DEF Launch, StopOld, Called
<1>8. CASE StoppedOld(g)
  BY <1>2, <1>8 DEF StoppedOld, Leave, Cloned
<1>9. CASE ReadOldStatus(g)
  BY <1>0, <1>9 DEF ReadOldStatus, At, KeptOld, OnlyJobs, JobTypeOK, Jobs
<1>10. CASE LockService(g)
  BY <1>0, <1>10, LockEffect DEF LockService, Locked, Went
<1>11. CASE FetchFails(g) \/ FetchSucceeds(g)
  BY <1>1, <1>11 DEF FetchFails, FetchSucceeds, Fetched
<1>12. ~(LockManager(g) \/ CalledInLoop(g) \/ EnterLoop(g))
  BY <1>0, MoveEffect DEF LockManager, CalledInLoop, EnterLoop, JobTypeOK, Jobs, Found, AtFind
<1>13. ASSUME NEW n \in Names PROVE ~(BootstrapService(g, n) \/ CallInLoop(g, n))
  BY <1>0, TakeEffect DEF BootstrapService, CallInLoop, Found, AtFind
<1>14. ASSUME NEW op PROVE ~NextLoop(g, op)
  <2>1. NextLoop(g, op) => job'[g] = Job(op, NoName, "rlock")
    BY <1>0, NewJobEffect DEF NextLoop
  <2> QED BY <2>1 DEF Job, Found, AtFind
<1> QED BY <1>2, <1>3, <1>4, <1>5, <1>6, <1>7, <1>8, <1>9, <1>10, <1>11, <1>12, <1>13, <1>14
        DEF StoreStep, Launched, RestoreStatus, LoopFinishes, CallFails, BootstrapFails, EndLoop, Release

\* so whatever happens, it is where it was or came there by one of them.
LEMMA JobChange ==
  ASSUME StoreInv, [Next]_vars, NEW g \in Callers, job'[g].pc \in Found
  PROVE  job'[g] = job[g] \/ Goes(g)
<1>0. JobTypeOK
  BY DEF StoreInv, StoreTypeOK
<1>1. ASSUME NEW h \in Callers, StoreStep(h), h # g PROVE job'[g] = job[g]
  BY <1>0, <1>1, OneJob
<1>2. ASSUME NEW h \in Callers, NEW op, NEW n, NEW pc \in {"pm", "find"},
             job' = [job EXCEPT ![h] = Job(op, n, pc)]
      PROVE  job'[g] = job[g]
  <2>1. job'[h] = Job(op, n, pc) /\ (g # h => job'[g] = job[g])
    BY <1>0, <1>2, NewJobEffect
  <2> QED BY <2>1 DEF Job, Found, AtFind
<1> QED BY <1>1, <1>2, NextKinds, StoreStepJob DEF storeVars

-----------------------------------------------------------------------------
\* How a goroutine comes to where it is in a call: it is there already, a step of
\* Start or Stop brings it there, or it has just made the call.
LoopCall(g) ==
  /\ job[g].pc = "loop" /\ job'[g].pc = "looping" /\ job'[g].op = job[g].op
  /\ \E n \in job[g].todo :
       /\ job'[g].todo = job[g].todo \ {n}
       /\ Call(g, IF job[g].op = "startAll" THEN "start" ELSE "stop", list[n])
  /\ UNCHANGED <<procVars, objVars>>

\* A step inside of Start or Stop.
InCall(g) == CallStep(g) /\ UNCHANGED storeVars

\* Whoever returns from a call goes on to another place.
LEMMA LeaveMoves ==
  ASSUME JobTypeOK, CmdTypeOK, NEW g \in Callers, StoreStep(g), Leave(g)
  PROVE  job'[g] # job[g]
<1>1. at'[g] # at[g] /\ at[g] # "out"
  BY LeaveEffect
<1>2. CASE job[g].pc \in {"starting", "stopping"}
  <2>1. Done(g) \/ Clone(g)
    BY <1>2 DEF StoreStep, Find, CheckStatus, AnnounceSave, CommitSave, Launch, Launched, StopOld,
           StoppedOld, ReadOldStatus, LockService, FetchFails, FetchSucceeds, RestoreStatus,
           LockManager, EnterLoop, CalledInLoop, LoopFinishes, CallFails, BootstrapFails,
           BootstrapService, CallInLoop, At
  <2> QED BY <1>2, <2>1, NewJobEffect, CloneEffect DEF Done, Idle, Job
<1>3. CASE job[g].pc = "looping"
  <2>1. CASE CalledInLoop(g)
    BY <1>3, <2>1, MoveEffect DEF CalledInLoop
  <2>2. CASE CallFails(g)
    <3>1. Done(g) \/ NextLoop(g, "startAll") \/ NextLoop(g, "abort")
      BY <2>2 DEF CallFails, EndLoop, Release
    <3>2. ASSUME Done(g) PROVE job'[g].pc = "idle"
      <4>1. job'[g] = Idle
        BY <3>2, NewJobEffect DEF Done
      <4> QED BY <4>1 DEF Idle, Job
    <3>3. ASSUME NEW op \in {"startAll", "abort"}, NextLoop(g, op) PROVE job'[g].pc = "rlock"
      <4>1. job'[g] = Job(op, NoName, "rlock")
        BY <3>3, NewJobEffect DEF NextLoop
      <4> QED BY <4>1 DEF Job
    <3> QED BY <1>3, <3>1, <3>2, <3>3
  <2>3. CalledInLoop(g) \/ CallFails(g)
    <3>1. \A n \in Names : ~BootstrapService(g, n) /\ ~CallInLoop(g, n)
      BY <1>3 DEF BootstrapService, CallInLoop, At
    <3>2. ~(Find(g) \/ CheckStatus(g) \/ AnnounceSave(g) \/ CommitSave(g) \/ Launch(g) \/ Launched(g))
      BY <1>3 DEF Find, CheckStatus, AnnounceSave, CommitSave, Launch, Launched, At
    <3>3. ~(StopOld(g) \/ StoppedOld(g) \/ ReadOldStatus(g) \/ LockService(g))
      BY <1>3 DEF StopOld, StoppedOld, ReadOldStatus, LockService, At
    <3>4. ~(FetchFails(g) \/ FetchSucceeds(g) \/ RestoreStatus(g))
      BY <1>3 DEF FetchFails, FetchSucceeds, RestoreStatus
    <3>5. ~(LockManager(g) \/ EnterLoop(g) \/ LoopFinishes(g) \/ BootstrapFails(g))
      BY <1>3 DEF LockManager, EnterLoop, LoopFinishes, BootstrapFails, At
    <3> QED BY <3>1, <3>2, <3>3, <3>4, <3>5 DEF StoreStep
  <2> QED BY <2>1, <2>2, <2>3
<1>4. job[g].pc \in {"starting", "stopping", "looping"}
  <2>1. ~(Find(g) \/ CheckStatus(g) \/ AnnounceSave(g) \/ CommitSave(g))
    BY <1>1 DEF Find, CheckStatus, AnnounceSave, CommitSave, cmdVars, callVars
  <2>2. ~(ReadOldStatus(g) \/ LockService(g) \/ FetchFails(g) \/ FetchSucceeds(g) \/ RestoreStatus(g))
    BY <1>1 DEF ReadOldStatus, LockService, FetchFails, FetchSucceeds, RestoreStatus, cmdVars, callVars
  <2>3. ~(LockManager(g) \/ EnterLoop(g) \/ LoopFinishes(g) \/ BootstrapFails(g))
    BY <1>1 DEF LockManager, EnterLoop, LoopFinishes, BootstrapFails, cmdVars, callVars
  <2>4. ~(Launch(g) \/ StopOld(g))
    BY <1>1 DEF Launch, StopOld, Call
  <2>5. \A n \in Names : ~BootstrapService(g, n) /\ ~CallInLoop(g, n)
    BY <1>1 DEF BootstrapService, CallInLoop, Call, cmdVars, callVars
  <2> QED BY <2>1, <2>2, <2>3, <2>4, <2>5 DEF StoreStep, Launched, StoppedOld, CalledInLoop, CallFails
<1> QED BY <1>2, <1>3, <1>4

\* So a goroutine that is in a call was there already, or entered it just now.
LEMMA CallChange ==
  ASSUME PlaceInv, [Next]_vars, NEW g \in Callers,
         \/ at'[g] # "out"
         \/ at[g] \notin {"out", "nil", "err"}
         \/ at[g] # "out" /\ job'[g] = job[g]
  PROVE  \/ at'[g] = at[g] /\ target'[g] = target[g] /\ job'[g] = job[g]
         \/ InCall(g) \/ Called(g) \/ LoopCall(g)
<1>0. StoreInv /\ JobTypeOK /\ CmdTypeOK /\ CallInOrder(g)
  BY DEF PlaceInv, StoreInv, StoreTypeOK, CmdInv, InOrder
<1>1. ASSUME NEW h \in Callers, StoreStep(h), h # g
      PROVE  at'[g] = at[g] /\ target'[g] = target[g] /\ job'[g] = job[g]
  <2>1. job'[g] = job[g]
    BY <1>0, <1>1, OneJob
  <2>2. \/ UNCHANGED callVars
        \/ Leave(h)
        \/ \E m, c : Call(h, m, c)
    BY <1>1 DEF StoreStep, Find, CheckStatus, AnnounceSave, CommitSave, Launch, Launched, StopOld,
           StoppedOld, ReadOldStatus, LockService, FetchFails, FetchSucceeds, RestoreStatus,
           LockManager, EnterLoop, CalledInLoop, LoopFinishes, CallFails, BootstrapFails,
           BootstrapService, CallInLoop, cmdVars
  <2> QED BY <1>0, <1>1, <2>1, <2>2, CallEffect, LeaveEffect DEF callVars
<1>2. ASSUME StoreStep(g) PROVE Called(g) \/ LoopCall(g)
  <2>1. ASSUME UNCHANGED callVars, job[g].pc \notin {"starting", "stopping", "looping"} PROVE FALSE
    BY <1>0, <2>1 DEF CallInOrder, callVars
  <2>2. ~Leave(g)
    BY <1>0, <1>2, LeaveEffect, LeaveMoves
  <2>3. ASSUME NEW from, NEW to, job[g].pc = from, Move(g, to) PROVE Went(g, from, to)
    BY <1>0, <2>3, MoveEffect DEF Went
  <2>4. CASE Launch(g) \/ StopOld(g)
    BY <2>3, <2>4 DEF Launch, StopOld, Called
  <2>5. ASSUME NEW n \in Names, CallInLoop(g, n) PROVE LoopCall(g)
    BY <1>0, <2>5, TakeEffect DEF CallInLoop, At, LoopCall
  <2> QED BY <1>2, <2>1, <2>2, <2>4, <2>5
          DEF StoreStep, Find, CheckStatus, AnnounceSave, CommitSave, Launched,
              StoppedOld, ReadOldStatus, LockService, FetchFails, FetchSucceeds, RestoreStatus,
              LockManager, EnterLoop, CalledInLoop, LoopFinishes, CallFails, BootstrapFails,
              BootstrapService, At, cmdVars
<1>3. ASSUME NEW h \in Callers, CallStep(h), UNCHANGED storeVars, h # g
      PROVE  at'[g] = at[g] /\ target'[g] = target[g] /\ job'[g] = job[g]
  BY <1>0, <1>3, CallStepEffect DEF storeVars
<1>4. ASSUME NEW h \in Callers, job[h] = Idle, UNCHANGED callVars, NEW op, NEW n, NEW pc,
             job' = [job EXCEPT ![h] = Job(op, n, pc)]
      PROVE  at'[g] = at[g] /\ target'[g] = target[g] /\ job'[g] = job[g]
  <2>1. job[g].pc # "idle"
    BY <1>0, <1>4 DEF CallInOrder, callVars
  <2>2. job'[g] = job[g]
    BY <1>0, <1>4, <2>1, NewJobEffect DEF Idle, Job
  <2> QED BY <1>4, <2>2 DEF callVars
<1>5. ASSUME UNCHANGED <<callVars, job>>
      PROVE  at'[g] = at[g] /\ target'[g] = target[g] /\ job'[g] = job[g]
  BY <1>5 DEF callVars
<1> QED BY <1>0, <1>1, <1>2, <1>3, <1>4, <1>5, NextKinds DEF cmdVars, InCall

\* A process comes to be only through a Start, and is not live again after its end.
LEMMA ProcChange ==
  ASSUME StoreInv, [Next]_vars, NEW c \in Cmds
  PROVE  \/ proc'[c] = proc[c]
         \/ proc[c] = "live" /\ proc'[c] \in Ends
         \/ proc[c] = "none" /\ \E g \in Callers : at[g] = "start" /\ target[g] = c /\ StartForks(g)
<1>0. CmdTypeOK
  BY DEF StoreInv, CmdInv
<1>1. ASSUME NEW g \in Callers, StoreStep(g) PROVE proc' = proc
  BY <1>1, StoreStepWrites
<1>2. ASSUME NEW g \in Callers, CallStep(g), proc'[c] # proc[c]
      PROVE  proc[c] = "none" /\ at[g] = "start" /\ target[g] = c /\ StartForks(g)
  BY <1>0, <1>2 DEF CmdTypeOK, CallStep, StartFails, StartForks, MarkRunning, StopChecks,
                    SignalFails, Signal, MarkStopped, RecvExit, Goto, procVars
<1>3. ASSUME NEW d \in Cmds, ProcessEnds(d) \/ WaiterStep(d) \/ RecvFinish(d), proc'[c] # proc[c]
      PROVE  proc[c] = "live" /\ proc'[c] \in Ends
  BY <1>0, <1>3 DEF CmdTypeOK, ProcessEnds, WaiterStep, Reap, MarkCrashed, SendExit, SendFinish, RecvFinish
<1> QED BY <1>1, <1>2, <1>3, NextKinds DEF cmdVars, procVars

\* Who writes a status.
Writes(g, c, s) ==
  \/ s = "error" /\ target[g] = c /\ StartFails(g)
  \/ s = "running" /\ target[g] = c /\ MarkRunning(g)
  \/ s = "stopped" /\ target[g] = c /\ MarkStopped(g)
  \/ s = "updating" /\ job[g].svc = c /\ LockService(g)
  \/ s = job[g].old /\ job[g].svc = c /\ RestoreStatus(g)

\* Who writes the status of a command.
LEMMA StatusChange ==
  ASSUME StoreInv, [Next]_vars, NEW c \in Cmds
  PROVE  \/ status'[c] = status[c]
         \/ status'[c] = "crashed" /\ waiter[c] = "crash"
         \/ \E g \in Callers : Writes(g, c, status'[c])
<1>0. CmdTypeOK
  BY DEF StoreInv, CmdInv
<1>1. ASSUME NEW g \in Callers, StoreStep(g), status'[c] # status[c]
      PROVE  Writes(g, c, status'[c])
  <2>1. LockService(g) \/ RestoreStatus(g)
    BY <1>1 DEF StoreStep, Find, CheckStatus, AnnounceSave, CommitSave, Launch, Launched, StopOld,
         StoppedOld, ReadOldStatus, FetchFails, FetchSucceeds, LockManager, EnterLoop, CalledInLoop,
         LoopFinishes, CallFails, BootstrapFails, BootstrapService, CallInLoop, Leave, cmdVars, procVars
  <2> QED BY <1>0, <1>1, <2>1 DEF LockService, RestoreStatus, SetStatus, Writes, CmdTypeOK
<1>2. ASSUME NEW g \in Callers, CallStep(g), status'[c] # status[c]
      PROVE  Writes(g, c, status'[c])
  BY <1>0, <1>2 DEF CmdTypeOK, CallStep, StartFails, StartForks, MarkRunning, StopChecks,
                    SignalFails, Signal, MarkStopped, RecvExit, SetStatus, procVars, Writes
<1>3. ASSUME NEW d \in Cmds, ProcessEnds(d) \/ WaiterStep(d) \/ RecvFinish(d), status'[c] # status[c]
      PROVE  status'[c] = "crashed" /\ waiter[c] = "crash"
  BY <1>0, <1>3 DEF CmdTypeOK, ProcessEnds, WaiterStep, Reap, MarkCrashed, SendExit, SendFinish,
                    RecvFinish, SetStatus
<1> QED BY <1>1, <1>2, <1>3, NextKinds DEF cmdVars, procVars

\* Who writes the list, and who makes a command.
LEMMA ListChange ==
  ASSUME StoreInv, [Next]_vars, NEW n \in Names
  PROVE  \/ list'[n] = list[n]
         \/ \E g \in Callers : Saved(g) /\ job[g].name = n /\ list'[n] = job[g].svc
<1>0. JobTypeOK /\ ObjTypeOK
  BY DEF StoreInv, StoreTypeOK
<1>1. ASSUME NEW g \in Callers, StoreStep(g)
      PROVE  list' = list \/ CommitSave(g)
  BY <1>1 DEF StoreStep, Find, CheckStatus, AnnounceSave, Launch, Launched, StopOld,
         StoppedOld, ReadOldStatus, LockService, FetchFails, FetchSucceeds, RestoreStatus,
         LockManager, EnterLoop, CalledInLoop, LoopFinishes, CallFails, BootstrapFails,
         BootstrapService, CallInLoop, EndLoop, objVars
<1>2. ASSUME NEW g \in Callers, CommitSave(g) PROVE Saved(g)
  BY <1>0, <1>2, MoveEffect DEF CommitSave, Saved, Went
<1>3. ASSUME NEW g \in Callers, Saved(g), list'[n] # list[n]
      PROVE  job[g].name = n /\ list'[n] = job[g].svc
  BY <1>0, <1>3 DEF Saved, ObjTypeOK
<1> QED BY <1>1, <1>2, <1>3, NextKinds DEF objVars, storeVars

\* A command gets an owner when it is cloned,
LEMMA OwnerChange ==
  ASSUME StoreInv, [Next]_vars, NEW c \in Cmds
  PROVE  \/ owner'[c] = owner[c]
         \/ owner[c] = NoName /\ \E g \in Callers : owner'[c] = job[g].name /\ job[g].pc \in Found
<1>0. JobTypeOK /\ ObjTypeOK
  BY DEF StoreInv, StoreTypeOK
<1>1. ASSUME NEW g \in Callers, StoreStep(g)
      PROVE  owner' = owner \/ (Clone(g) /\ job[g].pc \in Found)
  BY <1>1 DEF StoreStep, Find, CheckStatus, AnnounceSave, CommitSave, Launch, Launched, StopOld,
         StoppedOld, ReadOldStatus, LockService, FetchFails, FetchSucceeds, RestoreStatus,
         LockManager, EnterLoop, CalledInLoop, LoopFinishes, CallFails, BootstrapFails,
         BootstrapService, CallInLoop, EndLoop, objVars, At, Found, AtFind
<1>2. ASSUME NEW g \in Callers, Clone(g), owner'[c] # owner[c]
      PROVE  owner[c] = NoName /\ owner'[c] = job[g].name
  BY <1>0, <1>2, CloneEffect DEF ObjTypeOK
<1> QED BY <1>1, <1>2, NextKinds DEF objVars, storeVars

\* and is interrupted by a Stop that holds it.
LEMMA InterruptChange ==
  ASSUME StoreInv, [Next]_vars, NEW c \in interrupted', c \notin interrupted
  PROVE  \E g \in Callers : at[g] = "signal" /\ target[g] = c
<1>1. ASSUME NEW g \in Callers, StoreStep(g) PROVE interrupted' = interrupted
  BY <1>1, StoreStepWrites
<1>2. ASSUME NEW g \in Callers, CallStep(g)
      PROVE  at[g] = "signal" /\ target[g] = c
  BY <1>2 DEF CallStep, StartFails, StartForks, MarkRunning, StopChecks,
                    SignalFails, Signal, MarkStopped, RecvExit, Goto, procVars
<1>3. ASSUME NEW d \in Cmds, ProcessEnds(d) \/ WaiterStep(d) \/ RecvFinish(d)
      PROVE  interrupted' = interrupted
  BY <1>3 DEF ProcessEnds, WaiterStep, Reap, MarkCrashed, SendExit, SendFinish, RecvFinish
<1> QED BY <1>1, <1>2, <1>3, NextKinds DEF cmdVars, procVars

-----------------------------------------------------------------------------
\* Every command belongs to one name, and one that is made for a name is touched by
\* nobody but its maker until it is in the list.
Holds(g) == LET c == job[g].svc IN
  /\ job[g].pc \in Found => owner[c] = job[g].name
  /\ job[g].pc \in {"save", "commit"} =>
       /\ proc[c] = "none" /\ status[c] = "idle" /\ c # list[job[g].name]
       /\ \A h \in Callers \ {g} : job[h].pc \in Found => job[h].svc # c
  /\ at[g] \in {"signal", "mark", "recv"} => proc[target[g]] # "none"

Owned ==
  /\ \A n \in Names : owner[list[n]] = n
  /\ \A c \in Cmds : owner[c] = NoName => proc[c] = "none" /\ status[c] = "idle"
  /\ \A c \in interrupted : proc[c] # "none"
  /\ \A g \in Callers : Holds(g)

\* The inductive invariant of ownership.
OwnInv == SoundInv /\ PlaceInv /\ Owned

\* What it says of each goroutine and of the lists.
LEMMA OwnInvTypes ==
  ASSUME OwnInv
  PROVE  /\ StoreInv /\ CmdTypeOK /\ ExitsInOrder /\ ObjTypeOK /\ LockTypeOK /\ JobTypeOK
         /\ NoName \notin Names
         /\ \A n \in Names : list[n] \in Cmds
         /\ \A g \in Callers : /\ InOrder(g) /\ Holds(g)
                               /\ job[g].pc \in AtFind => job[g].name \in Names
                               /\ job[g].pc \in Found => job[g].svc \in Cmds
  BY StoreAssumption
     DEF OwnInv, PlaceInv, Owned, StoreInv, CmdInv, StoreTypeOK, JobTypeOK, ObjTypeOK, Found

\* Whoever calls a command found it, or goes over the list.
LEMMA TargetIsOwned ==
  ASSUME OwnInv, NEW g \in Callers, at[g] # "out"
  PROVE  /\ target[g] \in Cmds /\ owner[target[g]] \in Names
         /\ \A h \in Callers : job[h].pc \in {"save", "commit"} => target[g] # job[h].svc
<1>0. /\ StoreInv /\ InOrder(g) /\ Holds(g) /\ \A n \in Names : list[n] \in Cmds
      /\ NoName \notin Names /\ \A n \in Names : owner[list[n]] = n
      /\ CmdTypeOK
  BY OwnInvTypes DEF OwnInv, Owned
<1>1. CASE job[g].pc \in {"starting", "stopping"}
  <2>1. target[g] = job[g].svc /\ job[g].pc \in Found /\ job[g].pc \in AtFind
    BY <1>0, <1>1 DEF InOrder, CallInOrder, Found, AtFind
  <2>2. owner[target[g]] = job[g].name /\ job[g].name \in Names /\ target[g] \in Cmds
    BY <1>0, <2>1, OwnInvTypes DEF Holds
  <2>3. ASSUME NEW h \in Callers, job[h].pc \in {"save", "commit"} PROVE target[g] # job[h].svc
    BY <1>1, <2>1, <2>3, OwnInvTypes DEF Holds
  <2> QED BY <2>2, <2>3
<1>2. CASE job[g].pc = "looping"
  <2>1. PICK n \in Names : target[g] = list[n]
    BY <1>0, <1>2 DEF InOrder, CallInOrder
  <2>2. ASSUME NEW h \in Callers, job[h].pc \in {"save", "commit"} PROVE target[g] # job[h].svc
    <3>1. Holds(h) /\ job[h].pc \in Found
      BY <2>2, OwnInvTypes DEF Found, AtFind
    <3> QED BY <1>0, <2>1, <2>2, <3>1 DEF Holds
  <2> QED BY <1>0, <2>1, <2>2
<1> QED BY <1>0, <1>1, <1>2 DEF InOrder, CallInOrder

\* So a command that nobody calls has its process and status left alone, but for the
\* updates of its name.
LEMMA UncalledStays ==
  ASSUME OwnInv, [Next]_vars, NEW c \in Cmds, proc[c] = "none",
         \A g \in Callers : at[g] # "out" => target[g] # c,
         \A g \in Callers : job[g].pc \in {"lock", "restore"} => job[g].svc # c
  PROVE  proc'[c] = "none" /\ status'[c] = status[c]
<1>0. StoreInv /\ CmdTypeOK /\ ExitsInOrder
  BY OwnInvTypes
<1>1. proc'[c] = "none"
  BY <1>0, ProcChange
<1>2. waiter[c] # "crash"
  BY <1>0 DEF ExitsInOrder
<1>3. ASSUME NEW g \in Callers, NEW s PROVE ~Writes(g, c, s)
  BY DEF Writes, StartFails, MarkRunning, MarkStopped, Goto, LockService, RestoreStatus
<1> QED BY <1>0, <1>1, <1>2, <1>3, StatusChange

\* A command that has been given to nobody has no process and no status,
LEMMA FreshStays ==
  ASSUME OwnInv, [Next]_vars, NEW c \in Cmds, proc[c] = "none",
         \/ owner[c] = NoName
         \/ \E h \in Callers : job[h].pc \in {"save", "commit"} /\ job[h].svc = c
  PROVE  proc'[c] = "none" /\ status'[c] = status[c]
<1>1. ASSUME NEW g \in Callers, at[g] # "out" PROVE target[g] # c
  BY <1>1, TargetIsOwned, OwnInvTypes
<1>2. ASSUME NEW g \in Callers, job[g].pc \in {"lock", "restore"} PROVE job[g].svc # c
  <2>1. job[g].pc \in Found /\ job[g].pc \in AtFind
    BY <1>2 DEF Found, AtFind
  <2>2. owner[job[g].svc] \in Names /\ NoName \notin Names
    BY <2>1, OwnInvTypes DEF Holds
  <2> QED BY <1>2, <2>1, <2>2, OwnInvTypes DEF Holds
<1> QED BY <1>1, <1>2, UncalledStays

\* A command keeps its owner,
LEMMA OwnerStays ==
  ASSUME OwnInv, [Next]_vars, NEW c \in Cmds, owner[c] # NoName
  PROVE  owner'[c] = owner[c]
  BY OwnInvTypes, OwnerChange

\* and a process, once there, stays one.
LEMMA ProcStays ==
  ASSUME StoreInv, [Next]_vars, NEW c \in Cmds, proc[c] # "none"
  PROVE  proc'[c] # "none"
  BY ProcChange DEF Ends

\* so the list holds commands of the right name, clones are unused until they are
\* launched, and only processes are interrupted.
LEMMA OwnedNames ==
  ASSUME OwnInv, [Next]_vars
  PROVE  /\ \A n \in Names : owner'[list'[n]] = n
         /\ \A c \in Cmds : owner'[c] = NoName => proc'[c] = "none" /\ status'[c] = "idle"
         /\ \A c \in interrupted' : c \in Cmds => proc'[c] # "none"
<1>0. /\ StoreInv /\ NoName \notin Names /\ \A n \in Names : list[n] \in Cmds /\ owner[list[n]] = n
      /\ \A c \in Cmds : owner[c] = NoName => proc[c] = "none" /\ status[c] = "idle"
      /\ \A c \in interrupted : proc[c] # "none"
  BY OwnInvTypes DEF OwnInv, Owned
<1>1. ASSUME NEW n \in Names PROVE owner'[list'[n]] = n
  <2>1. CASE list'[n] = list[n]
    BY <1>0, <2>1, OwnerStays
  <2>2. ASSUME NEW g \in Callers, Saved(g), job[g].name = n, list'[n] = job[g].svc
        PROVE  owner'[list'[n]] = n
    <3>1. job[g].pc \in Found
      BY <2>2 DEF Saved, Went, Found, AtFind
    <3>2. job[g].svc \in Cmds /\ owner[job[g].svc] = n
      BY <2>2, <3>1, OwnInvTypes DEF Holds
    <3> QED BY <1>0, <2>2, <3>2, OwnerStays
  <2> QED BY <1>0, <2>1, <2>2, ListChange
<1>2. ASSUME NEW c \in Cmds, owner'[c] = NoName PROVE proc'[c] = "none" /\ status'[c] = "idle"
  <2>1. owner[c] = NoName
    BY <1>2, OwnerStays
  <2> QED BY <1>0, <2>1, FreshStays
<1>3. ASSUME NEW c \in Cmds, c \in interrupted' PROVE proc'[c] # "none"
  <2>1. CASE c \in interrupted
    BY <1>0, <2>1, ProcStays
  <2>2. CASE c \notin interrupted
    <3>1. PICK g \in Callers : at[g] = "signal" /\ target[g] = c
      BY <1>0, <1>3, <2>2, InterruptChange
    <3>2. proc[c] # "none"
      BY <3>1, OwnInvTypes DEF Holds
    <3> QED BY <1>0, <3>2, ProcStays
  <2> QED BY <2>1, <2>2
<1> QED BY <1>1, <1>2, <1>3

\* A request holds a command of its name,
LEMMA HoldsName ==
  ASSUME OwnInv, [Next]_vars, NEW g \in Callers, job'[g].pc \in Found
  PROVE  owner'[job'[g].svc] = job'[g].name
<1>0. StoreInv /\ ObjTypeOK /\ JobTypeOK /\ NoName \notin Names /\ \A n \in Names : list[n] \in Cmds /\ owner[list[n]] = n
  BY OwnInvTypes DEF OwnInv, Owned
<1>1. CASE job[g].pc \in Found /\ job'[g].svc = job[g].svc /\ job'[g].name = job[g].name
  <2>1. job[g].svc \in Cmds /\ job[g].name \in Names /\ owner[job[g].svc] = job[g].name
    BY <1>1, OwnInvTypes DEF Holds, Found
  <2> QED BY <1>0, <1>1, <2>1, OwnerStays
<1>2. CASE FoundIt(g)
  <2>1. job[g].name \in Names
    BY <1>2, OwnInvTypes DEF FoundIt, AtFind
  <2> QED BY <1>0, <1>2, <2>1, OwnerStays DEF FoundIt
<1>3. CASE Cloned(g)
  BY <1>0, <1>3, CloneEffect DEF Cloned, ObjTypeOK
<1> QED BY <1>0, <1>1, <1>2, <1>3, JobChange
        DEF Goes, Checked, Announced, Saved, Called, KeptOld, Locked, Fetched, Went, Found, AtFind

\* and if it has made it, nobody else has it.
LEMMA HoldsAlone ==
  ASSUME OwnInv, [Next]_vars, NEW g \in Callers, job'[g].pc \in {"save", "commit"}
  PROVE  LET c == job'[g].svc IN
         /\ proc'[c] = "none" /\ status'[c] = "idle" /\ c # list'[job'[g].name]
         /\ \A h \in Callers \ {g} : job'[h].pc \in Found => job'[h].svc # c
<1>0. /\ StoreInv /\ ObjTypeOK /\ JobTypeOK /\ CmdTypeOK
      /\ NoName \notin Names /\ \A n \in Names : list[n] \in Cmds /\ owner[list[n]] = n
      /\ \A c \in Cmds : owner[c] = NoName => proc[c] = "none" /\ status[c] = "idle"
  BY OwnInvTypes DEF OwnInv, Owned
<1> DEFINE c == job'[g].svc
<1>1. CASE Cloned(g)
  <2>1. /\ c \in Cmds /\ owner[c] = NoName /\ job'[g].name = job[g].name
        /\ proc' = proc /\ status' = status /\ list' = list
        /\ \A h \in Callers \ {g} : job'[h] = job[h]
    BY <1>0, <1>1, CloneEffect DEF Cloned, procVars
  <2>2. job[g].name \in Names
    BY <1>1, OwnInvTypes DEF Cloned, AtFind
  <2>3. ASSUME NEW h \in Callers \ {g}, job'[h].pc \in Found PROVE job'[h].svc # c
    <3>1. job[h].pc \in Found /\ job[h].pc \in AtFind /\ job'[h] = job[h]
      BY <2>1, <2>3 DEF Found
    <3>2. owner[job[h].svc] \in Names
      BY <3>1, OwnInvTypes DEF Holds
    <3> QED BY <1>0, <2>1, <3>1, <3>2
  <2> QED BY <1>0, <2>1, <2>2, <2>3
<1>2. CASE job[g].pc \in {"save", "commit"} /\ job'[g].svc = job[g].svc /\ job'[g].name = job[g].name
  <2>1. /\ c \in Cmds /\ proc[c] = "none" /\ status[c] = "idle" /\ c # list[job[g].name]
        /\ \A h \in Callers \ {g} : job[h].pc \in Found => job[h].svc # c
        /\ owner[c] = job[g].name /\ job[g].name \in Names
    BY <1>2, OwnInvTypes DEF Holds, Found, AtFind
  <2>2. proc'[c] = "none" /\ status'[c] = "idle"
    BY <1>2, <2>1, FreshStays
  <2>3. c # list'[job'[g].name]
    <3>1. ASSUME NEW h \in Callers, Saved(h), job[h].svc = c PROVE FALSE
      <4>1. h = g
        BY <2>1, <3>1 DEF Saved, Went, Found, AtFind
      <4> QED BY <3>1, <4>1 DEF Saved, Went
    <3> QED BY <1>0, <1>2, <2>1, <3>1, ListChange
  <2>4. ASSUME NEW h \in Callers \ {g}, job'[h].pc \in Found, job'[h].svc = c PROVE FALSE
    <3>1. CASE job[h].pc \in Found /\ job'[h].svc = job[h].svc
      BY <2>1, <2>4, <3>1
    <3>2. CASE FoundIt(h)
      <4>1. job[h].name \in Names /\ c = list[job[h].name]
        BY <2>4, <3>2, OwnInvTypes DEF FoundIt, AtFind
      <4> QED BY <1>0, <2>1, <4>1
    <3>3. CASE Cloned(h)
      BY <1>0, <2>1, <2>4, <3>3, CloneEffect DEF Cloned
    <3> QED BY <1>0, <2>4, <3>1, <3>2, <3>3, JobChange
            DEF Goes, Checked, Announced, Saved, Called, KeptOld, Locked, Fetched, Went, Found, AtFind
  <2> QED BY <2>2, <2>3, <2>4
<1>3. job'[g].pc \in Found
  BY DEF Found, AtFind
<1> QED BY <1>0, <1>1, <1>2, <1>3, JobChange
        DEF Goes, FoundIt, Checked, Announced, Saved, Called, KeptOld, Locked, Fetched, Went

\* What a Stop is about to signal, or has signalled, is a process.
LEMMA HoldsProc ==
  ASSUME OwnInv, [Next]_vars, NEW g \in Callers, at'[g] \in {"signal", "mark", "recv"}
  PROVE  proc'[target'[g]] # "none"
<1>0. StoreInv /\ CmdTypeOK
  BY OwnInvTypes
<1>1. CASE at[g] \in {"signal", "mark", "recv"} /\ target'[g] = target[g]
  BY <1>0, <1>1, OwnInvTypes, TargetIsOwned, ProcStays DEF Holds
<1>2. CASE StopChecks(g)
  BY <1>0, <1>2 DEF StopChecks, NothingToStop, Goto, CmdTypeOK, procVars
<1>3. ~LoopCall(g) /\ ~Called(g)
  BY <1>0, CallEffect DEF LoopCall, Called
<1>4. CASE InCall(g)
  BY <1>0, <1>1, <1>2, <1>4 DEF InCall, CallStep, StartFails, StartForks, MarkRunning,
                    SignalFails, Signal, MarkStopped, RecvExit, Goto, CmdTypeOK
<1> QED BY <1>1, <1>3, <1>4, CallChange DEF OwnInv

\* Every step keeps ownership.
LEMMA OwnNext == OwnInv /\ [Next]_vars => OwnInv'
<1> SUFFICES ASSUME OwnInv, [Next]_vars PROVE OwnInv'
  OBVIOUS
<1>1. SoundInv' /\ PlaceInv'
  BY SoundNext, PlaceNext DEF OwnInv
<1>2. interrupted' \subseteq Cmds
  BY <1>1 DEF SoundInv, StoreInv, CmdInv, CmdTypeOK
<1>3. ASSUME NEW g \in Callers PROVE Holds(g)'
  BY HoldsName, HoldsAlone, HoldsProc DEF Holds
<1> QED BY <1>1, <1>2, <1>3, OwnedNames DEF OwnInv, Owned

-----------------------------------------------------------------------------
\* What disturbs the store: a request during the boot, which finds services that the
\* boot is about to start; two requests that name one service at once, each of which
\* stops, clones and saves for itself; and a start of a service whose process is there
\* already, whose error takes the place of its status (command.go:168-172).
Undisturbed ==
  /\ up = "booting" => \A g \in Http \cup Mqtt : job[g] = Idle
  /\ \A g, h \in Http \cup Mqtt : job[g].name = job[h].name /\ job[g].name # NoName => g = h
  /\ \A g \in Callers : At(g, {"start"}, "launch") => proc[job[g].svc] = "none"

\* If the process of c runs at all, somebody waits for its end.
Exiting(c) == proc[c] = "live" => \E h \in Callers : at[h] = "recv" /\ target[h] = c

\* What a status tells of the process, beyond Fits.
Settled(s, c) == (s = "error" => proc[c] # "live") /\ (s = "stopped" => Exiting(c))

\* A command that may be started: it has no process and did not fail to start.
Startable(c) == proc[c] = "none" /\ status[c] # "error"

\* Only of a process that may refuse an interrupt can "updating" be left behind
\* (command.go:152-154, services.go:216-218).
MayShow(s, c) == s = "updating" => c \in Foreign

\* What every request finds, as long as nothing disturbs it: its command is the listed
\* one until it replaces it, what it starts is fresh, what it saves replaces a command
\* that has ended or is about to, and the status it keeps was true.
Steady(g) == LET j == job[g] IN
  /\ j.pc \in Found \ {"save", "commit"} => j.svc = list[j.name]
  /\ j.pc = "launch" => status[j.svc] # "error" /\ (j.op # "start" => proc[j.svc] = "none")
  /\ at[g] = "start" => Startable(target[g])
  /\ j.pc = "stopping" => /\ at[g] = "nil" => proc[j.svc] # "live"
                          /\ at[g] = "err" => MayShow(status[j.svc], j.svc) \/ Reaped(j.svc)
  /\ j.pc \in {"save", "commit"} => Exiting(list[j.name])
  /\ j.pc \in {"lock", "fetch", "restore"} => Settled(j.old, j.svc) /\ MayShow(j.old, j.svc)

\* The services that the boot has yet to start.
Waits(n) == \/ job[Main].op = "bootstrap"
            \/ job[Main].op = "startAll" /\ (job[Main].pc \in {"pm", "rlock"} \/ n \in job[Main].todo)
\* Those have not run yet.
BootFresh == \A n \in Names : Waits(n) => proc[list[n]] = "none" /\ status[list[n]] = "idle"

UpdatePcs == {"fetch", "restore", "stop", "stopping", "save", "commit"}
\* An update that shows is in one of its places that come after the mark
\* (services.go:201-227).
UpdateUnderway ==
  \A n \in Names : ~MayShow(status[list[n]], list[n]) /\ ~Reaped(list[n])
    => \E g \in Callers : At(g, {"update"}, job[g].pc) /\ job[g].pc \in UpdatePcs /\ job[g].name = n

\* The inductive invariant.
SerialInv ==
  /\ OwnInv /\ BootFresh /\ UpdateUnderway /\ NoOrphanProcess
  /\ \A g \in Callers : Steady(g)
  /\ \A c \in Cmds : Settled(status[c], c)

\* What the proofs below take from the invariants.
LEMMA SerialFacts ==
  ASSUME SerialInv
  PROVE  /\ StoreInv /\ PlaceInv /\ CmdTypeOK /\ ExitsInOrder /\ ObjTypeOK /\ JobTypeOK
         /\ NoName \notin Names
         /\ \A n \in Names : list[n] \in Cmds /\ owner[list[n]] = n
         /\ \A g \in Callers : /\ Steady(g) /\ Holds(g)
                               /\ JobInOrder(g) /\ CallInOrder(g) /\ LocksOf(g)
                               /\ job[g].pc \in AtFind => job[g].name \in Names
                               /\ job[g].pc \in Found => job[g].svc \in Cmds /\ job[g].pc \in AtFind
         /\ \A c \in Cmds : Settled(status[c], c) /\ Fits(status[c], c)
         /\ \A c \in interrupted : proc[c] # "none"
  BY OwnInvTypes DEF SerialInv, OwnInv, InOrder, Owned, Found, SoundInv, StatusIsSound

\* Requests are served by others than main, and while nothing disturbs, none before
\* the boot is over and one at a time for a name.
LEMMA OneRequest ==
  ASSUME SerialInv, Undisturbed, NEW g \in Callers, job[g].pc \in AtFind
  PROVE  /\ g # Main /\ up # "booting"
         /\ \A h \in Callers : job[h].pc \in AtFind /\ job[h].name = job[g].name => h = g
<1>1. ASSUME NEW h \in Callers, job[h].pc \in AtFind
      PROVE  h # Main /\ h \in Http \cup Mqtt /\ job[h].name # NoName /\ job[h] # Idle
    <2>1. JobInOrder(h) /\ job[h].name \in Names /\ NoName \notin Names
      BY <1>1, SerialFacts
    <2>2. job[h] # Idle
      BY <1>1 DEF Idle, Job, AtFind
    <2>3. h # Main
      BY <1>1, <2>1, <2>2 DEF JobInOrder, AtFind, Loops, LoopPcs, BootOps
    <2> QED BY <2>1, <2>2, <2>3, StoreAssumption
<1> QED BY <1>1 DEF Undisturbed

\* A command is held by one request.
LEMMA OneHolder ==
  ASSUME SerialInv, Undisturbed, NEW g \in Callers, job[g].pc \in Found,
         NEW h \in Callers, job[h].pc \in Found, job[g].svc = job[h].svc
  PROVE  g = h
  BY SerialFacts, OneRequest DEF Holds

\* Whoever is about to start a command is the only one with that command, or its name.
LEMMA OnlyStarter ==
  ASSUME SerialInv, Undisturbed, NEW g \in Callers, at[g] = "start"
  PROVE  /\ \A h \in Callers : job[h].pc \in AtFind /\ job[h].name = owner[target[g]] => h = g
         /\ \A h \in Callers : at[h] = "start" /\ target[h] = target[g] => h = g
         /\ list[owner[target[g]]] = target[g]
<1>1. ASSUME NEW h \in Callers, at[h] = "start"
      PROVE  \/ /\ job[h].pc = "starting" /\ job[h].pc \in AtFind /\ target[h] = job[h].svc
                /\ owner[target[h]] = job[h].name /\ list[job[h].name] = target[h]
             \/ /\ h = Main /\ up = "booting"
                /\ \E n \in Names : target[h] = list[n]
  <2>1. JobInOrder(h) /\ CallInOrder(h) /\ Holds(h) /\ Steady(h) /\ Booting
    BY SerialFacts DEF PlaceInv
  <2>2. CASE job[h].pc = "starting"
    BY <2>1, <2>2 DEF CallInOrder, Holds, Steady, Found, AtFind
  <2>3. CASE job[h].pc = "looping"
    <3>1. job[h].op = "startAll" /\ \E n \in Names : target[h] = list[n]
      BY <1>1, <2>1, <2>3 DEF CallInOrder, InStop
    <3>2. h = Main
      BY <2>1, <3>1 DEF JobInOrder
    <3> QED BY <2>1, <3>1, <3>2 DEF Booting, BootOps
  <2>4. job[h].pc \in {"starting", "looping"}
    BY <1>1, <2>1 DEF CallInOrder, InStop
  <2> QED BY <2>2, <2>3, <2>4
<1> QED BY <1>1, OneRequest, SerialFacts

\* So a command that a request holds gets no process behind its back,
LEMMA HeldNotStarted ==
  ASSUME SerialInv, Undisturbed, [Next]_vars, NEW g \in Callers, job[g].pc \in AtFind,
         at[g] # "start", NEW c \in Cmds, owner[c] = job[g].name
  PROVE  (proc'[c] = "live" => proc[c] = "live") /\ (proc[c] = "none" => proc'[c] = "none")
  BY OnlyStarter, ProcChange, SerialFacts DEF Ends

\* nor a status that only a request may give it.
LEMMA HeldNotWritten ==
  ASSUME SerialInv, Undisturbed, NEW g \in Callers, job[g].pc \in Found,
         NEW h \in Callers, h # g, NEW s, Writes(h, job[g].svc, s)
  PROVE  s \in {"running", "stopped"}
<1>1. job[g].pc \in AtFind /\ owner[job[g].svc] = job[g].name
  BY SerialFacts DEF Holds
<1>2. ~StartFails(h) \/ target[h] # job[g].svc
  BY <1>1, OnlyStarter DEF StartFails, Goto
<1>3. job[h].pc \in {"lock", "restore"} => job[h].svc # job[g].svc
  BY OneHolder DEF Found, AtFind
<1> QED BY <1>2, <1>3 DEF Writes, LockService, RestoreStatus

\* Somebody who waits for the end of a process waits until it is there.
LEMMA ExitingStays ==
  ASSUME SerialInv, [Next]_vars, NEW c \in Cmds, Exiting(c), proc'[c] = "live" => proc[c] = "live"
  PROVE  Exiting(c)'
<1> SUFFICES ASSUME proc'[c] = "live", NEW h \in Callers, at[h] = "recv", target[h] = c
             PROVE  at'[h] = "recv" /\ target'[h] = c
  BY DEF Exiting
<1>0. StoreInv /\ PlaceInv /\ CmdTypeOK /\ ExitsInOrder /\ CallInOrder(h)
  BY SerialFacts
<1>1. ~InCall(h)
  BY <1>0 DEF InCall, CallStep, StartFails, StartForks, MarkRunning, StopChecks,
              SignalFails, Signal, MarkStopped, RecvExit, Goto, ExitsInOrder, Reaped, Ends
<1>2. ~Called(h) /\ ~LoopCall(h)
  BY <1>0, CallEffect DEF Called, LoopCall
<1> QED BY <1>0, <1>1, <1>2, CallChange

-----------------------------------------------------------------------------
\* What a step under which nothing is disturbed does to the parts of SerialInv.
\* A request goes on with the command listed under its name,
LEMMA ListedStays ==
  ASSUME SerialInv, Undisturbed, [Next]_vars, NEW g \in Callers,
         job'[g].pc \in Found \ {"save", "commit"}
  PROVE  job'[g].svc = list'[job'[g].name]
<1>0. StoreInv /\ ObjTypeOK /\ Steady(g) /\ (job[g].pc \in AtFind => job[g].name \in Names)
  BY SerialFacts
<1>1. ASSUME NEW h \in Callers, Saved(h) PROVE job[h].pc \in AtFind /\ job[h].pc = "commit"
  BY <1>1 DEF Saved, Went, AtFind
<1>2. CASE /\ job[g].pc \in Found \ {"save", "commit"}
           /\ job'[g].svc = job[g].svc /\ job'[g].name = job[g].name
  <2>1. job[g].svc = list[job[g].name] /\ job[g].pc \in AtFind /\ job[g].pc # "commit"
    BY <1>0, <1>2 DEF Steady, Found
  <2>2. list'[job[g].name] = list[job[g].name]
    BY <1>0, <1>1, <2>1, ListChange, OneRequest
  <2> QED BY <1>2, <2>1, <2>2
<1>3. CASE FoundIt(g)
  BY <1>3 DEF FoundIt, OnlyJobs, objVars
<1>4. CASE Saved(g)
  BY <1>0, <1>1, <1>4 DEF Saved, Went, ObjTypeOK
<1> QED BY <1>0, <1>2, <1>3, <1>4, JobChange, CloneEffect, SerialFacts
        DEF Goes, Cloned, Checked, Announced, Called, KeptOld, Locked, Fetched, Went, Found, AtFind

\* starts one that has not been started or, if that is what it was asked for, one
\* that has not failed to start,
LEMMA LaunchStays ==
  ASSUME SerialInv, Undisturbed, [Next]_vars, NEW g \in Callers, job'[g].pc = "launch"
  PROVE  /\ status'[job'[g].svc] # "error"
         /\ job'[g].op # "start" => proc'[job'[g].svc] = "none"
<1>0. StoreInv /\ CmdTypeOK /\ Steady(g) /\ Holds(g) /\ CallInOrder(g)
  BY SerialFacts
<1>1. CASE job'[g] = job[g]
  <2>1. /\ job[g].pc \in Found /\ job[g].pc \in AtFind /\ job[g].pc = "launch"
        /\ owner[job[g].svc] = job[g].name /\ job[g].svc \in Cmds
        /\ status[job[g].svc] # "error" /\ (job[g].op # "start" => proc[job[g].svc] = "none")
        /\ at[g] = "out"
    BY <1>0, <1>1, SerialFacts DEF Steady, Holds, CallInOrder, Found, AtFind
  <2>2. ASSUME NEW s PROVE ~Writes(g, job[g].svc, s)
    BY <2>1 DEF Writes, StartFails, MarkRunning, MarkStopped, Goto, LockService, RestoreStatus
  <2>3. status'[job[g].svc] # "error"
    BY <1>0, <2>1, <2>2, HeldNotWritten, StatusChange
  <2> QED BY <1>1, <2>1, <2>3, HeldNotStarted
<1>2. CASE Checked(g)
  <2>1. status' = status /\ job'[g].svc = job[g].svc /\ job'[g].op = "start"
    BY <1>2 DEF Checked, Went, OnlyJobs, cmdVars, procVars
  <2> QED BY <1>2, <2>1 DEF Checked, Status, Restartable
<1>3. CASE Saved(g)
  <2>1. status' = status /\ proc' = proc /\ job'[g].svc = job[g].svc
    BY <1>3 DEF Saved, Went, cmdVars, procVars
  <2>2. proc[job[g].svc] = "none" /\ status[job[g].svc] = "idle"
    BY <1>0, <1>3 DEF Holds, Saved, Went
  <2> QED BY <2>1, <2>2
<1> QED BY <1>0, <1>1, <1>2, <1>3, JobChange, CloneEffect, SerialFacts
        DEF Goes, FoundIt, Cloned, Announced, Called, KeptOld, Locked, Fetched, Went, Found, AtFind

\* what a call starts has no process,
LEMMA StartStays ==
  ASSUME SerialInv, Undisturbed, [Next]_vars, NEW g \in Callers, at'[g] = "start"
  PROVE  proc'[target'[g]] = "none" /\ status'[target'[g]] # "error"
<1>0. StoreInv /\ PlaceInv /\ CmdTypeOK /\ Steady(g) /\ Holds(g) /\ CallInOrder(g) /\ JobInOrder(g)
      /\ ObjTypeOK
  BY SerialFacts
<1>1. CASE at[g] = "start" /\ target'[g] = target[g]
  <2>1. target[g] \in Cmds /\ proc[target[g]] = "none" /\ status[target[g]] # "error"
    BY <1>0, <1>1 DEF Steady, Startable, CmdTypeOK
  <2>2. ~StartForks(g) /\ ~StartFails(g)
    BY <1>0, <1>1 DEF StartForks, StartFails, Goto, CmdTypeOK
  <2>3. proc'[target[g]] = "none"
    BY <1>0, <1>1, <2>1, <2>2, ProcChange, OnlyStarter
  <2>4. ASSUME NEW h \in Callers, Writes(h, target[g], "error") PROVE FALSE
    <3>1. ~StartFails(h) \/ target[h] # target[g]
      BY <1>1, <2>2, OnlyStarter DEF StartFails, Goto
    <3>2. RestoreStatus(h) /\ job[h].svc = target[g]
      BY <2>4, <3>1 DEF Writes
    <3>3. job[h].pc \in AtFind /\ job[h].name = owner[target[g]] /\ job[h].pc = "restore"
      BY <3>2, SerialFacts DEF RestoreStatus, Holds, Found, AtFind
    <3>4. h = g
      BY <1>1, <3>3, OnlyStarter
    <3> QED BY <1>0, <1>1, <3>3, <3>4 DEF CallInOrder
  <2> QED BY <1>0, <1>1, <2>1, <2>3, <2>4, StatusChange
<1>2. CASE Called(g)
  <2>1. Went(g, "launch", "starting") /\ target'[g] = job[g].svc /\ UNCHANGED procVars
    BY <1>0, <1>2, CallEffect DEF Called
  <2>2. status[job[g].svc] # "error" /\ proc[job[g].svc] = "none"
    BY <1>0, <2>1 DEF Steady, Undisturbed, At, Went
  <2> QED BY <2>1, <2>2 DEF procVars
<1>3. CASE LoopCall(g)
  <2>1. PICK n \in job[g].todo :
          Call(g, IF job[g].op = "startAll" THEN "start" ELSE "stop", list[n])
    BY <1>3 DEF LoopCall
  <2>2. job[g].op = "startAll" /\ target'[g] = list[n]
    BY <1>0, <2>1, CallEffect
  <2>3. g = Main /\ n \in Names
    BY <1>0, <2>2, SerialFacts DEF JobInOrder, JobTypeOK, Jobs
  <2>4. proc[list[n]] = "none" /\ status[list[n]] = "idle"
    BY <2>1, <2>2, <2>3 DEF SerialInv, BootFresh, Waits
  <2> QED BY <1>3, <2>2, <2>4 DEF LoopCall, procVars
<1>4. CASE InCall(g)
  BY <1>0, <1>4, CallStepEffect DEF InCall
<1> QED BY <1>0, <1>1, <1>2, <1>3, <1>4, CallChange

\* comes back from a Stop without an error only if there is no process, and with one
\* only if no update shows,
LEMMA StoppingStays ==
  ASSUME SerialInv, Undisturbed, [Next]_vars, NEW g \in Callers,
         job'[g].pc = "stopping", at'[g] \in {"nil", "err"}
  PROVE  /\ at'[g] = "nil" => proc'[job'[g].svc] # "live"
         /\ at'[g] = "err" => MayShow(status'[job'[g].svc], job'[g].svc) \/ Reaped(job[g].svc)'
<1>0. StoreInv /\ PlaceInv /\ CmdTypeOK /\ ExitsInOrder /\ Steady(g) /\ Holds(g) /\ CallInOrder(g)
  BY SerialFacts
<1>1. ~Called(g) /\ ~LoopCall(g)
  BY <1>0, CallEffect DEF Called, LoopCall
<1>2. job'[g] = job[g]
  BY <1>0, <1>1, CallChange DEF InCall, storeVars
<1>3. /\ job[g].pc = "stopping" /\ job[g].pc \in Found /\ job[g].pc \in AtFind
      /\ job[g].svc \in Cmds /\ owner[job[g].svc] = job[g].name
      /\ at[g] \in InStop /\ target[g] = job[g].svc
  BY <1>0, <1>2, SerialFacts DEF Holds, CallInOrder, Found, AtFind
<1> DEFINE c == job[g].svc
<1>4. CASE at'[g] = at[g]
  <2>1. proc'[c] = "live" => proc[c] = "live"
    BY <1>3, <1>4, HeldNotStarted
  <2>2. ASSUME NEW s PROVE ~Writes(g, c, s)
    BY <1>3, <1>4 DEF Writes, StartFails, MarkRunning, MarkStopped, Goto, LockService, RestoreStatus
  <2>3. MayShow(status[c], c) => MayShow(status'[c], c)
    BY <1>0, <1>3, <2>2, HeldNotWritten, StatusChange DEF MayShow
  <2>4. Reaped(c) => Reaped(c)'
    BY <1>0, <1>2, <1>3, FactsStayNext DEF FactsStay, Reaped
  <2> QED BY <1>0, <1>2, <1>3, <1>4, <2>1, <2>3, <2>4 DEF Steady
<1>5. CASE InCall(g)
  <2>1. Settled(status[c], c) /\ Fits(status[c], c)
    BY <1>3, SerialFacts
  <2>2. StopChecks(g) \/ SignalFails(g) \/ RecvExit(g)
    BY <1>0, <1>3, <1>5 DEF InCall, CallStep, StartFails, StartForks, MarkRunning, Signal, MarkStopped,
                            Goto, CmdTypeOK, InStop
  <2>3. CASE StopChecks(g)
    BY <1>0, <1>2, <1>3, <2>1, <2>3 DEF StopChecks, NothingToStop, Goto, CmdTypeOK, procVars,
                            Settled, Fits, ExitsInOrder, Ends, MayShow
  <2>4. CASE SignalFails(g)
    BY <1>0, <1>2, <1>3, <2>4 DEF SignalFails, Goto, CmdTypeOK, procVars, Reaped, MayShow
  <2>5. CASE RecvExit(g)
    BY <1>0, <1>2, <1>3, <2>5 DEF RecvExit, Goto, CmdTypeOK, ExitsInOrder, Reaped, Ends
  <2> QED BY <2>2, <2>3, <2>4, <2>5
<1> QED BY <1>0, <1>1, <1>4, <1>5, CallChange

\* replaces a command only when its process is gone or somebody waits for its end,
LEMMA SaveStays ==
  ASSUME SerialInv, Undisturbed, [Next]_vars, NEW g \in Callers, job'[g].pc \in {"save", "commit"}
  PROVE  Exiting(list[job[g].name])'
<1>0. StoreInv /\ CmdTypeOK /\ ExitsInOrder /\ Steady(g) /\ Holds(g) /\ CallInOrder(g) /\ JobTypeOK
  BY SerialFacts
<1>1. CASE Cloned(g)
  <2>1. /\ job[g].pc \in {"status", "stopping"} /\ job[g].pc \in Found
        /\ job[g].svc = list[job[g].name] /\ job[g].svc \in Cmds
        /\ job'[g].name = job[g].name /\ list' = list /\ proc' = proc
    BY <1>0, <1>1, CloneEffect, SerialFacts DEF Cloned, Steady, Found, AtFind, procVars
  <2> DEFINE c == list[job[g].name]
  <2>2. Exiting(c)
    <3>1. CASE job[g].pc = "stopping"
      BY <1>0, <1>1, <2>1, <3>1 DEF Cloned, Steady, Exiting
    <3>2. CASE Status(c) \in Restartable
      <4>1. Settled(status[c], c) /\ Fits(status[c], c)
        BY <2>1, SerialFacts
      <4> QED BY <1>0, <2>1, <3>2, <4>1 DEF Status, Restartable, Settled, Fits, Exiting, ExitsInOrder, Ends
    <3> QED BY <1>1, <2>1, <3>1, <3>2 DEF Cloned
  <2>3. c \in Cmds /\ list'[job'[g].name] = c
    BY <2>1
  <2>4. proc'[c] = "live" => proc[c] = "live"
    BY <2>1
  <2> QED BY <2>2, <2>3, <2>4, ExitingStays DEF Exiting
<1>2. CASE job[g].pc \in {"save", "commit"} /\ job'[g].name = job[g].name
  <2>1. /\ job[g].name \in Names /\ job[g].pc \in AtFind /\ at[g] = "out"
        /\ list[job[g].name] \in Cmds /\ owner[list[job[g].name]] = job[g].name
        /\ Exiting(list[job[g].name])
    BY <1>0, <1>2, SerialFacts DEF Steady, CallInOrder, AtFind
  <2>2. list'[job[g].name] = list[job[g].name]
    <3>1. ASSUME NEW h \in Callers, Saved(h), job[h].name = job[g].name PROVE FALSE
      <4>1. h = g
        BY <2>1, <3>1, OneRequest DEF Saved, Went, AtFind
      <4> QED BY <3>1, <4>1 DEF Saved, Went
    <3> QED BY <1>0, <2>1, <3>1, ListChange
  <2> DEFINE c == list[job[g].name]
  <2>4. proc'[c] = "live" => proc[c] = "live"
    BY <2>1, HeldNotStarted
  <2>5. list'[job'[g].name] = c
    BY <1>2, <2>2
  <2> QED BY <2>1, <2>4, <2>5, ExitingStays DEF Exiting
<1>3. job'[g].pc \in Found
  BY DEF Found, AtFind
<1> QED BY <1>0, <1>1, <1>2, <1>3, JobChange
        DEF Goes, FoundIt, Checked, Announced, Saved, Called, KeptOld, Locked, Fetched, Went

\* and puts back a status that still tells the truth and shows no update.
LEMMA OldStays ==
  ASSUME SerialInv, Undisturbed, [Next]_vars, NEW g \in Callers,
         job'[g].pc \in {"lock", "fetch", "restore"}
  PROVE  Settled(job[g].old, job[g].svc)' /\ MayShow(job'[g].old, job'[g].svc)
<1>0. StoreInv /\ CmdTypeOK /\ ExitsInOrder /\ Steady(g) /\ Holds(g) /\ CallInOrder(g) /\ JobInOrder(g)
  BY SerialFacts
<1>1. ASSUME job[g].pc \in Found, NEW c \in Cmds, c = job[g].svc, job'[g].svc = c, at[g] = "out",
             NEW s, s = job'[g].old, Settled(s, c)
      PROVE  Settled(job[g].old, job[g].svc)'
  <2>1. proc'[c] = "live" => proc[c] = "live"
    BY <1>0, <1>1, HeldNotStarted, SerialFacts DEF Holds
  <2>2. Exiting(c) => Exiting(c)'
    BY <2>1, ExitingStays
  <2> QED BY <1>1, <2>1, <2>2 DEF Settled, Exiting
<1>2. CASE job[g].pc \in {"lock", "fetch", "restore"} /\ job'[g].old = job[g].old /\ job'[g].svc = job[g].svc
  <2>1. job[g].pc \in Found /\ job[g].svc \in Cmds /\ at[g] = "out"
        /\ Settled(job[g].old, job[g].svc) /\ MayShow(job[g].old, job[g].svc)
    BY <1>0, <1>2, SerialFacts DEF Steady, CallInOrder, Found, AtFind
  <2> QED BY <1>1, <1>2, <2>1
<1>3. CASE KeptOld(g)
  <2>1. /\ job[g].pc = "status" /\ job[g].pc \in Found /\ job[g].pc \in AtFind
        /\ job[g].svc \in Cmds /\ at[g] = "out"
        /\ job[g].svc = list[job[g].name] /\ job[g].name \in Names
    BY <1>0, <1>3, SerialFacts DEF KeptOld, Steady, CallInOrder, Found, AtFind
  <2> DEFINE c == job[g].svc
             s == Status(c)
  <2>2. Settled(s, c)
    <3>1. Settled(status[c], c)
      BY <2>1, SerialFacts
    <3> QED BY <3>1 DEF Status, Settled
  <2>3. MayShow(s, c)
    <3>1. ASSUME s = "updating", c \notin Foreign PROVE FALSE
      <4>1. status[c] = "updating" /\ ~Reaped(c)
        BY <3>1 DEF Status
      <4>2. PICK h \in Callers : job[h].pc \in UpdatePcs /\ job[h].name = job[g].name
        BY <2>1, <3>1, <4>1 DEF SerialInv, UpdateUnderway, MayShow
      <4>3. h = g
        BY <2>1, <4>2, OneRequest DEF UpdatePcs, AtFind
      <4> QED BY <2>1, <4>2, <4>3 DEF UpdatePcs
    <3> QED BY <3>1 DEF MayShow
  <2>4. job'[g].old = s /\ job'[g].svc = c
    BY <1>3 DEF KeptOld
  <2> HIDE DEF s
  <2> QED BY <1>1, <2>1, <2>2, <2>3, <2>4
<1>4. job'[g].pc \in Found
  BY DEF Found, AtFind
<1> QED BY <1>0, <1>2, <1>3, <1>4, JobChange, CloneEffect, SerialFacts
        DEF Goes, FoundIt, Cloned, Checked, Announced, Saved, Called, Locked, Fetched, Went

\* A command with a booting error has no process, and one that was stopped has none
\* or is waited for.
LEMMA SettledStays ==
  ASSUME SerialInv, Undisturbed, [Next]_vars, NEW c \in Cmds
  PROVE  Settled(status[c], c)'
<1>0. /\ StoreInv /\ CmdTypeOK /\ ExitsInOrder /\ Settled(status[c], c) /\ Fits(status[c], c)
      /\ (c \in interrupted => proc[c] # "none")
  BY SerialFacts
<1>1. CASE status'[c] = status[c]
  <2>1. status[c] \in {"error", "stopped"} /\ proc'[c] = "live" => proc[c] = "live"
    <3>1. status[c] = "stopped" => proc[c] # "none"
      BY <1>0 DEF Fits
    <3>2. ASSUME NEW h \in Callers, at[h] = "start", target[h] = c PROVE status[c] # "error"
      BY <3>2, SerialFacts DEF Steady, Startable
    <3> QED BY <1>0, <3>1, <3>2, ProcChange DEF Ends
  <2> QED BY <1>0, <1>1, <2>1, ExitingStays DEF Settled, Exiting
<1>2. ASSUME NEW g \in Callers, Writes(g, c, status'[c]) PROVE Settled(status[c], c)'
  <2>1. CASE StartFails(g) /\ target[g] = c /\ status'[c] = "error"
    <3>1. proc[c] = "none" /\ proc' = proc
      BY <2>1, SerialFacts DEF StartFails, Goto, Steady, Startable
    <3> QED BY <2>1, <3>1 DEF Settled
  <2>2. CASE MarkStopped(g) /\ target[g] = c /\ status'[c] = "stopped"
    BY <1>0, <2>2 DEF MarkStopped, Goto, Settled, Exiting, CmdTypeOK
  <2>3. CASE RestoreStatus(g) /\ job[g].svc = c /\ status'[c] = job[g].old
    <3>1. Settled(job[g].old, c) /\ proc' = proc
      BY <2>3, SerialFacts DEF RestoreStatus, Steady
    <3> QED BY <2>3, <3>1, ExitingStays DEF Settled, Exiting
  <2>4. CASE status'[c] \in {"running", "updating"}
    BY <2>4 DEF Settled
  <2> QED BY <1>2, <2>1, <2>2, <2>3, <2>4 DEF Writes
<1>3. CASE status'[c] = "crashed"
  BY <1>3 DEF Settled
<1> QED BY <1>0, <1>1, <1>2, <1>3, StatusChange

\* The services that the boot has yet to start were so before.
LEMMA WaitsBefore ==
  ASSUME PlaceInv, [Next]_vars, NEW n \in Names, Waits(n)'
  PROVE  Waits(n)
<1>0. /\ StoreInv /\ JobTypeOK /\ Main \in Callers /\ JobInOrder(Main)
      /\ job[Main].pc \notin AtFind
  BY CallersAre DEF PlaceInv, StoreInv, StoreTypeOK, InOrder, JobInOrder, Idle, Job, Loops, LoopPcs,
                    BootOps, AtFind
<1> USE DEF Waits
<1>1. CASE job'[Main] = job[Main]
  BY <1>1
<1>2. ASSUME NEW g \in Callers, StoreStep(g), g # Main PROVE job'[Main] = job[Main]
  BY <1>0, <1>2, OneJob
<1>3. ASSUME StoreStep(Main) PROVE Waits(n)
  <2>1. CASE LockManager(Main) \/ CalledInLoop(Main)
    BY <1>0, <2>1, MoveEffect DEF LockManager, CalledInLoop
  <2>2. CASE EnterLoop(Main)
    BY <1>0, <2>2 DEF EnterLoop, JobTypeOK, Jobs
  <2>3. ASSUME NEW m \in Names, BootstrapService(Main, m) \/ CallInLoop(Main, m) PROVE Waits(n)
    BY <1>0, <2>3, TakeEffect DEF BootstrapService, CallInLoop, At
  <2>4. ASSUME NEW failed \in BOOLEAN, EndLoop(Main, failed) PROVE Waits(n)
    <3>1. ASSUME NEW s, Release(Main, s) PROVE FALSE
      <4>1. job'[Main] = Idle
        BY <1>0, <3>1, NewJobEffect DEF Release, Done
      <4> QED BY <4>1 DEF Idle, Job
    <3>2. ASSUME NextLoop(Main, "abort") PROVE FALSE
      <4>1. job'[Main] = Job("abort", NoName, "rlock")
        BY <1>0, <3>2, NewJobEffect DEF NextLoop
      <4> QED BY <4>1 DEF Job
    <3> QED BY <2>4, <3>1, <3>2 DEF EndLoop
  <2> QED BY <1>0, <1>3, <2>1, <2>2, <2>3, <2>4
          DEF StoreStep, Find, CheckStatus, AnnounceSave, CommitSave, Launch, Launched, StopOld,
              StoppedOld, ReadOldStatus, LockService, FetchFails, FetchSucceeds, RestoreStatus,
              LoopFinishes, CallFails, BootstrapFails, At, AtFind
<1>4. ASSUME NEW g \in Http \cup Mqtt, NEW op \in Ops, NEW m \in Names, Request(g, op, m)
      PROVE  job'[Main] = job[Main]
  BY <1>0, <1>4, StoreAssumption, NewJobEffect DEF Request
<1>5. ASSUME Interrupt PROVE job'[Main] = job[Main]
  <2>1. job' = job \/ job'[Main] = Job("shutdown", NoName, "pm")
    BY <1>0, <1>5, NewJobEffect DEF Interrupt
  <2> QED BY <2>1 DEF Job
<1>6. ASSUME UNCHANGED job PROVE job'[Main] = job[Main]
  BY <1>6
<1>7. ASSUME NEW c \in Cmds, WaitStep(c) \/ ExitStep(c) PROVE UNCHANGED job
  BY <1>7 DEF WaitStep, ExitStep, Notice, storeVars
<1>8. ASSUME Connect PROVE UNCHANGED job
  BY <1>8 DEF Connect
<1> QED BY <1>1, <1>2, <1>3, <1>4, <1>5, <1>6, <1>7, <1>8 DEF Next, GoStep, vars, storeVars

\* Nobody touches them in between.
LEMMA BootStays ==
  ASSUME SerialInv, Undisturbed, [Next]_vars
  PROVE  BootFresh'
<1> SUFFICES ASSUME NEW n \in Names, Waits(n)'
             PROVE  proc'[list'[n]] = "none" /\ status'[list'[n]] = "idle"
  BY DEF BootFresh
<1>0. /\ StoreInv /\ PlaceInv /\ OwnInv /\ Waits(n) /\ list[n] \in Cmds /\ owner[list[n]] = n
      /\ Main \in Callers
  BY WaitsBefore, SerialFacts, CallersAre DEF SerialInv
<1>1. proc[list[n]] = "none" /\ status[list[n]] = "idle"
  BY <1>0 DEF SerialInv, BootFresh
<1>2. ASSUME NEW g \in Callers, g # Main PROVE job[g] = Idle
  BY <1>0, <1>2, StoreAssumption DEF PlaceInv, Booting, Waits, BootOps, Undisturbed
<1>3. ASSUME NEW g \in Callers PROVE job[g].pc \notin AtFind
  <2>1. CASE g = Main
    BY <1>0, <2>1, OneRequest
  <2>2. CASE g # Main
    BY <1>2, <2>2 DEF Idle, Job, AtFind
  <2> QED BY <2>1, <2>2
<1>4. ASSUME NEW g \in Callers, at[g] # "out" PROVE target[g] # list[n]
  <2>1. CallInOrder(g) /\ JobInOrder(g)
    BY SerialFacts
  <2>2. job[g].pc = "looping"
    BY <1>3, <1>4, <2>1 DEF CallInOrder, AtFind
  <2>3. g = Main
    BY <1>2, <2>2 DEF Idle, Job
  <2>4. n \in job[g].todo /\ \E m \in Names \ job[g].todo : target[g] = list[m]
    BY <1>0, <2>1, <2>2, <2>3 DEF CallInOrder, Waits
  <2> QED BY <1>0, <2>4, SerialFacts
<1>5. proc'[list[n]] = "none" /\ status'[list[n]] = status[list[n]]
  <2>1. \A g \in Callers : job[g].pc \in {"lock", "restore"} => job[g].svc # list[n]
    BY <1>3 DEF AtFind
  <2> QED BY <1>0, <1>1, <1>4, <2>1, UncalledStays
<1>6. list'[n] = list[n]
  BY <1>0, <1>3, ListChange DEF Saved, Went, AtFind
<1> QED BY <1>1, <1>5, <1>6

\* An update that is under way ends only where "updating" does not show any more.
LEMMA UpdateGoes ==
  ASSUME SerialInv, [Next]_vars, NEW g \in Callers, At(g, {"update"}, job[g].pc), job[g].pc \in UpdatePcs
  PROVE  \/ /\ job'[g].pc \in UpdatePcs /\ job'[g].op = "update" /\ job'[g].name = job[g].name
         \/ RestoreStatus(g)
         \/ Saved(g)
         \/ job[g].pc = "stopping" /\ at[g] = "err" /\ UNCHANGED procVars
<1>0. StoreInv /\ JobTypeOK /\ CmdTypeOK
  BY SerialFacts
<1>1. CASE job'[g] = job[g]
  BY <1>1 DEF At
<1>2. ASSUME NEW h \in Callers, StoreStep(h), h # g PROVE job'[g] = job[g]
  BY <1>0, <1>2, OneJob
<1>3. ASSUME StoreStep(g), job'[g].pc \in Found
      PROVE  Saved(g) \/ (job'[g].pc \in UpdatePcs /\ job'[g].op = "update" /\ job'[g].name = job[g].name)
  BY <1>0, <1>3, StoreStepJob, CloneEffect
     DEF Goes, FoundIt, Cloned, Checked, Announced, Called, KeptOld, Locked, Fetched, Went, UpdatePcs, At
<1>4. ASSUME StoreStep(g), job'[g].pc \notin Found
      PROVE  RestoreStatus(g) \/ (job[g].pc = "stopping" /\ at[g] = "err" /\ UNCHANGED procVars)
  <2>1. ASSUME NEW pc \in Found PROVE ~Move(g, pc)
    BY <1>0, <1>4, MoveEffect
  <2>2. ~Clone(g)
    BY <1>0, <1>4, CloneEffect DEF Found, AtFind
  <2>3. CASE StoppedOld(g)
    BY <1>0, <2>2, <2>3, LeaveEffect DEF StoppedOld, At, Leave
  <2> QED BY <1>4, <2>1, <2>2, <2>3
          DEF StoreStep, Find, CheckStatus, AnnounceSave, CommitSave, Launch, Launched, StopOld,
              ReadOldStatus, LockService, FetchFails, FetchSucceeds, LockManager, EnterLoop,
              CalledInLoop, LoopFinishes, CallFails, BootstrapFails, BootstrapService, CallInLoop,
              At, UpdatePcs, Found, AtFind
<1>5. ASSUME NEW h \in Callers, job[h] = Idle, NEW op, NEW n, NEW pc,
             job' = [job EXCEPT ![h] = Job(op, n, pc)]
      PROVE  job'[g] = job[g]
  <2>1. h # g
    BY <1>5 DEF Idle, Job, UpdatePcs
  <2> QED BY <1>0, <1>5, <2>1, NewJobEffect
<1> QED BY <1>0, <1>1, <1>2, <1>3, <1>4, <1>5, NextKinds DEF storeVars

\* So while "updating" shows, there is an update,
LEMMA UpdateStays ==
  ASSUME SerialInv, Undisturbed, [Next]_vars
  PROVE  UpdateUnderway'
<1> SUFFICES ASSUME NEW n \in Names, status'[list'[n]] = "updating", list'[n] \notin Foreign,
                    ~Reaped(list[n])'
             PROVE  \E g \in Callers : /\ job'[g].op = "update" /\ job'[g].pc \in UpdatePcs
                                       /\ job'[g].name = n
  BY DEF UpdateUnderway, MayShow, At
<1>0. /\ StoreInv /\ CmdTypeOK /\ list[n] \in Cmds /\ owner[list[n]] = n
  BY SerialFacts
<1>1. list'[n] = list[n]
  <2>1. ASSUME NEW g \in Callers, Saved(g), list'[n] = job[g].svc PROVE FALSE
    <3>1. status' = status /\ status[job[g].svc] = "idle"
      BY <2>1, SerialFacts DEF Saved, Went, Holds, cmdVars, procVars
    <3> QED BY <2>1, <3>1
  <2> QED BY <1>0, <2>1, ListChange
<1> DEFINE c == list[n]
<1>2. ~Reaped(c)
  BY <1>0, <1>1, FactsStayNext DEF FactsStay, Reaped
<1>3. CASE status[c] = "updating"
  <2>1. PICK g \in Callers : At(g, {"update"}, job[g].pc) /\ job[g].pc \in UpdatePcs /\ job[g].name = n
    BY <1>1, <1>2, <1>3 DEF SerialInv, UpdateUnderway, MayShow
  <2>2. Steady(g)
    BY SerialFacts
  <2>3. ~RestoreStatus(g)
    <3>1. ASSUME RestoreStatus(g) PROVE FALSE
      <4>1. job[g].svc = c /\ job[g].old # "updating"
        BY <1>1, <2>1, <2>2, <3>1 DEF RestoreStatus, Steady, MayShow, Found, AtFind
      <4>2. status'[c] = job[g].old
        BY <1>0, <3>1, <4>1 DEF RestoreStatus, SetStatus, CmdTypeOK
      <4> QED BY <1>1, <4>1, <4>2
    <3> QED BY <3>1
  <2>4. ~Saved(g)
    <3>1. ASSUME Saved(g) PROVE FALSE
      <4>1. job[g].svc # c /\ list'[n] = job[g].svc
        BY <1>0, <2>1, <3>1, SerialFacts DEF Saved, Went, Holds, ObjTypeOK
      <4> QED BY <1>1, <4>1
    <3> QED BY <3>1
  <2>5. ~(job[g].pc = "stopping" /\ at[g] = "err")
    BY <1>1, <1>2, <1>3, <2>1, <2>2 DEF Steady, MayShow, Found, AtFind
  <2> QED BY <2>1, <2>3, <2>4, <2>5, UpdateGoes
<1>4. ASSUME NEW g \in Callers, LockService(g), job[g].svc = c
      PROVE  job'[g].op = "update" /\ job'[g].pc \in UpdatePcs /\ job'[g].name = n
  <2>1. job[g].pc = "lock"
    BY <1>4 DEF LockService
  <2>2. job[g].op = "update" /\ job[g].name = n
    BY <1>0, <1>4, <2>1, SerialFacts DEF JobInOrder, Holds, Found, AtFind
  <2> QED BY <1>4, <2>2, LockEffect, SerialFacts DEF UpdatePcs
<1>5. ASSUME NEW g \in Callers, RestoreStatus(g), job[g].svc = c PROVE job[g].old # "updating"
  BY <1>1, <1>5, SerialFacts DEF RestoreStatus, Steady, MayShow
<1> QED BY <1>0, <1>1, <1>3, <1>4, <1>5, StatusChange DEF Writes

\* and the list knows every process: a command is replaced only after its process
\* has ended or while a Stop, which is the same request, waits for that.
LEMMA OrphanStays ==
  ASSUME SerialInv, Undisturbed, [Next]_vars
  PROVE  NoOrphanProcess'
<1> SUFFICES ASSUME NEW c \in Cmds, proc'[c] = "live" PROVE list'[owner'[c]] = c
  BY DEF NoOrphanProcess
<1>0. StoreInv /\ OwnInv /\ NoName \notin Names /\ ObjTypeOK
      /\ (owner[c] = NoName => proc[c] = "none")
  BY SerialFacts DEF SerialInv, OwnInv, Owned
<1>1. CASE proc[c] = "live"
  <2>1. owner[c] \in Names /\ owner'[c] = owner[c] /\ list[owner[c]] = c
    BY <1>0, <1>1, OwnerStays DEF ObjTypeOK, SerialInv, NoOrphanProcess
  <2>2. ASSUME NEW g \in Callers, Saved(g), job[g].name = owner[c] PROVE FALSE
    <3>1. job[g].pc = "commit" /\ job[g].pc \in AtFind /\ readers = {} /\ Exiting(c)
      BY <2>1, <2>2, SerialFacts DEF Saved, Went, Steady, AtFind
    <3>2. PICK h \in Callers : at[h] = "recv" /\ target[h] = c
      BY <1>1, <3>1 DEF Exiting
    <3>3. job[h].pc = "stopping" /\ job[h].svc = c
      BY <3>1, <3>2, SerialFacts DEF CallInOrder, LocksOf, InStart
    <3>4. job[h].pc \in AtFind /\ job[h].name = owner[c]
      BY <3>3, SerialFacts DEF Holds, Found, AtFind
    <3> QED BY <2>2, <3>1, <3>3, <3>4, OneRequest
  <2> QED BY <1>0, <2>1, <2>2, ListChange
<1>2. CASE proc[c] # "live"
  <2>1. PICK g \in Callers : at[g] = "start" /\ target[g] = c /\ StartForks(g)
    BY <1>0, <1>2, ProcChange
  <2>2. list[owner[c]] = c /\ owner[c] \in Names
    BY <1>0, <2>1, OnlyStarter, TargetIsOwned
  <2>3. owner'[c] = owner[c]
    BY <1>0, <2>2, OwnerStays
  <2>4. list'[owner[c]] = c
    BY <1>0, <1>2, <2>2, ListChange DEF Saved, cmdVars, procVars
  <2> QED BY <2>3, <2>4
<1> QED BY <1>1, <1>2

\* Every undisturbed step keeps the invariant,
LEMMA SerialNext == SerialInv /\ Undisturbed /\ [Next]_vars => SerialInv'
<1> SUFFICES ASSUME SerialInv, Undisturbed, [Next]_vars PROVE SerialInv'
  OBVIOUS
<1>1. OwnInv'
  BY OwnNext DEF SerialInv
<1>2. ASSUME NEW g \in Callers PROVE Steady(g)'
  BY ListedStays, LaunchStays, StartStays, StoppingStays, SaveStays, OldStays DEF Steady, Startable
<1> QED BY <1>1, <1>2, BootStays, UpdateStays, OrphanStays, SettledStays DEF SerialInv

\* main saves every service under its name (main.go:317-321),
LEMMA InitOwner ==
  ASSUME StoreInit
  PROVE  /\ \A n \in Names : owner[list[n]] = n
         /\ \A c \in Cmds : owner[c] = NoName <=> c \notin {First[n] : n \in Names}
<1>1. /\ First \in [Names -> Cmds] /\ NoName \notin Names
      /\ \A m, n \in Names : First[m] = First[n] => m = n
  BY StoreAssumption
<1>2. ASSUME NEW n \in Names PROVE owner[First[n]] = n
  <2>1. \E m \in Names : First[m] = First[n]
    OBVIOUS
  <2>2. owner[First[n]] = CHOOSE m \in Names : First[m] = First[n]
    BY <1>1, <2>1 DEF StoreInit
  <2>3. (CHOOSE m \in Names : First[m] = First[n]) \in {m \in Names : First[m] = First[n]}
    BY <2>1
  <2> QED BY <1>1, <2>2, <2>3
<1>3. ASSUME NEW c \in Cmds, c \notin {First[n] : n \in Names} PROVE owner[c] = NoName
  BY <1>3 DEF StoreInit
<1>4. list = First
  BY DEF StoreInit
<1>5. \A n \in Names : owner[list[n]] = n
  BY <1>2, <1>4
<1>6. ASSUME NEW c \in Cmds, c \in {First[n] : n \in Names} PROVE owner[c] # NoName
  <2>1. PICK n \in Names : c = First[n]
    BY <1>6
  <2> QED BY <1>1, <1>2, <2>1
<1>7. \A c \in Cmds : owner[c] = NoName <=> c \notin {First[n] : n \in Names}
  BY <1>3, <1>6, Zenon
<1> QED BY <1>5, <1>7

\* and both initial states have it.
LEMMA SerialInit == (Init => SerialInv) /\ (InitUp => SerialInv)
<1>1. ASSUME Init PROVE SerialInv
  <2>1. /\ \A c \in Cmds : proc[c] = "none" /\ status[c] = "idle"
        /\ interrupted = {} /\ list = First /\ StoreInit
    BY <1>1 DEF Init, CmdInit, CallsInit, StoreInit
  <2>2. \A g \in Callers : at[g] = "out" /\ job[g].pc \in {"idle", "pm"}
    <3>1. at = [g \in Callers |-> "out"]
      BY <1>1 DEF Init, CmdInit, CallsInit
    <3>2. job = [g \in Callers |-> IF g = Main THEN Job("bootstrap", NoName, "pm") ELSE Idle]
      BY <1>1 DEF Init
    <3> QED BY <3>1, <3>2 DEF Idle, Job
  <2>3. \A g \in Callers : Holds(g) /\ Steady(g)
    BY <2>2 DEF Holds, Steady, Found, AtFind
  <2>4. Owned
    BY <2>1, <2>3, InitOwner DEF Owned
  <2>5. OwnInv
    BY <1>1, <2>4, SoundInit, PlaceInit DEF OwnInv
  <2>6. \A n \in Names : list[n] \in Cmds
    BY <2>1, StoreAssumption
  <2>7. BootFresh /\ UpdateUnderway /\ NoOrphanProcess
    BY <2>1, <2>6 DEF BootFresh, UpdateUnderway, MayShow, NoOrphanProcess
  <2>8. \A c \in Cmds : Settled(status[c], c)
    BY <2>1 DEF Settled
  <2> QED BY <2>3, <2>5, <2>7, <2>8 DEF SerialInv
<1>2. ASSUME InitUp PROVE SerialInv
  <2>1. /\ interrupted = {} /\ list = First /\ StoreInit
        /\ \A c \in Cmds : \/ proc[c] = "none" /\ status[c] = "idle"
                           \/ proc[c] = "live" /\ status[c] = "running" /\ \E n \in Names : c = First[n]
        /\ \A n \in Names : First[n] \in Cmds => proc[First[n]] = "live"
    BY <1>2 DEF InitUp, CallsInit, StoreInit
  <2>2. \A g \in Callers : at[g] = "out" /\ job[g].pc = "idle"
    BY <1>2 DEF InitUp, CallsInit, Idle, Job
  <2>3. \A g \in Callers : Holds(g) /\ Steady(g)
    BY <2>2 DEF Holds, Steady, Found, AtFind
  <2>4. \A n \in Names : list[n] \in Cmds
    BY <2>1, StoreAssumption
  <2>5. Owned
    BY <2>1, <2>3, <2>4, InitOwner DEF Owned
  <2>6. OwnInv
    BY <1>2, <2>5, SoundInit, PlaceInit DEF OwnInv
  <2>7. NoOrphanProcess
    BY <2>1, <2>4, InitOwner DEF NoOrphanProcess
  <2>8. \A n \in Names : ~Waits(n)
    BY <1>2, StoreAssumption DEF InitUp, Idle, Job, Waits
  <2>9. BootFresh /\ UpdateUnderway
    BY <2>1, <2>4, <2>8 DEF BootFresh, UpdateUnderway, MayShow
  <2>10. \A c \in Cmds : Settled(status[c], c)
    BY <2>1 DEF Settled
  <2> QED BY <2>3, <2>6, <2>7, <2>9, <2>10 DEF SerialInv
<1> QED BY <1>1, <1>2

-----------------------------------------------------------------------------
\* As long as nothing disturbs, the store knows every process it has
\* (services.go:251-265, 298-315; command.go:46-48),
THEOREM NoOrphansUndisturbed == (Spec \/ UpSpec) /\ []Undisturbed => []NoOrphanProcess
<1>1. SerialInv => NoOrphanProcess
  BY DEF SerialInv
<1> QED BY <1>1, SerialInit, SerialNext, PTL DEF Spec, UpSpec

\* A status that shows as "updating" is one that is marked and not reaped.
LEMMA UpdatingNow == SerialInv => UpdatingMeansUpdate
  BY DEF SerialInv, UpdateUnderway, MayShow, UpdatingMeansUpdate, Status, At

\* and "updating" shows only while an update of that service is under way
\* (services.go:201-213), unless its process may refuse the interrupt (216-218).
THEOREM UpdatingUndisturbed == (Spec \/ UpSpec) /\ []Undisturbed => []UpdatingMeansUpdate
  BY UpdatingNow, SerialInit, SerialNext, PTL DEF Spec, UpSpec

-----------------------------------------------------------------------------
\* The loop that stops all services, as long as nobody starts one meanwhile.
Stopper(g) == At(g, {"stopAll", "shutdown"}, job[g].pc) /\ job[g].pc \in {"loop", "looping"}

\* Nobody starts a command while a loop is stopping them all.
QuietStop ==
  \A g, h \in Callers : Stopper(g) => job[h].pc \notin {"launch", "starting"}

\* What the loop has gone through is stopped, up to the service it is at.
StopLoop ==
  \A g \in Callers : Stopper(g) =>
    \A n \in Names \ job[g].todo : proc[list[n]] = "live" => target[g] = list[n] /\ at[g] # "nil"

\* A Stop gives nil only when there is no process.
LEMMA NilMeansOver ==
  ASSUME SerialInv, NEW g \in Callers, at[g] \in InStop, InCall(g), at'[g] = "nil"
  PROVE  proc'[target[g]] # "live"
<1>0. CmdTypeOK /\ ExitsInOrder /\ target[g] \in Cmds
  BY SerialFacts, CallStepEffect DEF InCall
<1>1. Settled(status[target[g]], target[g]) /\ Fits(status[target[g]], target[g])
  BY <1>0, SerialFacts
<1>2. StopChecks(g) \/ RecvExit(g)
  BY <1>0 DEF InCall, CallStep, StartFails, StartForks, MarkRunning, SignalFails, Signal, MarkStopped,
              Goto, CmdTypeOK, InStop
<1>3. CASE StopChecks(g)
  BY <1>0, <1>1, <1>3 DEF StopChecks, NothingToStop, Goto, CmdTypeOK, procVars, Settled, Fits,
                          ExitsInOrder, Ends
<1>4. CASE RecvExit(g)
  BY <1>0, <1>4 DEF RecvExit, Goto, CmdTypeOK, ExitsInOrder, Reaped, Ends
<1> QED BY <1>2, <1>3, <1>4

\* How a goroutine comes to be in that loop.
LEMMA StopperChange ==
  ASSUME SerialInv, [Next]_vars, NEW g \in Callers, Stopper(g)'
  PROVE  \/ job'[g] = job[g]
         \/ job'[g].todo = Names
         \/ LoopCall(g)
         \/ Leave(g) /\ at[g] = "nil" /\ job'[g].todo = job[g].todo /\ Stopper(g) /\ UNCHANGED list
<1>0. StoreInv /\ JobTypeOK
  BY SerialFacts
<1> USE DEF Stopper, At
<1>1. CASE job'[g] = job[g]
  BY <1>1
<1>2. ASSUME NEW h \in Callers, StoreStep(h), h # g PROVE job'[g] = job[g]
  BY <1>0, <1>2, OneJob
<1>3. ASSUME StoreStep(g)
      PROVE  \/ job'[g].todo = Names
             \/ LoopCall(g)
             \/ Leave(g) /\ at[g] = "nil" /\ job'[g].todo = job[g].todo /\ Stopper(g) /\ UNCHANGED list
  <2>1. job'[g].pc \notin Found
    BY DEF Found, AtFind
  <2>2. ASSUME NEW pc \in Found \cup {"rlock"} PROVE ~Move(g, pc)
    BY <1>0, <2>1, <2>2, MoveEffect
  <2>3. ~Clone(g) /\ ~Done(g)
    BY <1>0, <2>1, CloneEffect, NewJobEffect DEF Found, AtFind, Done, Idle, Job
  <2>4. ASSUME NEW op PROVE ~NextLoop(g, op)
    <3>1. NextLoop(g, op) => job'[g] = Job(op, NoName, "rlock")
      BY <1>0, NewJobEffect DEF NextLoop
    <3> QED BY <3>1 DEF Job
  <2>5. CASE EnterLoop(g)
    BY <1>0, <2>5 DEF EnterLoop, JobTypeOK, Jobs
  <2>6. CASE CalledInLoop(g)
    BY <1>0, <2>6, MoveEffect DEF CalledInLoop, objVars
  <2>7. ASSUME NEW n \in Names, CallInLoop(g, n) PROVE LoopCall(g)
    BY <1>0, <2>7, TakeEffect DEF CallInLoop, LoopCall
  <2>8. ASSUME NEW n \in Names PROVE ~BootstrapService(g, n)
    BY <1>0, TakeEffect DEF BootstrapService
  <2>9. ~Find(g)
    BY <1>0 DEF Find, JobTypeOK, Jobs
  <2>10. ~ReadOldStatus(g)
    BY <1>0 DEF ReadOldStatus, JobTypeOK, Jobs
  <2>11. ~LockService(g)
    BY <1>0, <2>1, LockEffect DEF Found, AtFind
  <2> QED BY <1>3, <2>2, <2>3, <2>4, <2>5, <2>6, <2>7, <2>8, <2>9, <2>10, <2>11
          DEF StoreStep, CheckStatus, AnnounceSave, CommitSave, Launch, Launched, StopOld,
              StoppedOld, FetchFails, FetchSucceeds, RestoreStatus,
              LockManager, LoopFinishes, CallFails, BootstrapFails, EndLoop, Release, Found, AtFind
<1>4. ASSUME NEW h \in Callers, NEW op, NEW n, NEW pc \in {"pm", "find"},
             job' = [job EXCEPT ![h] = Job(op, n, pc)]
      PROVE  job'[g] = job[g]
  <2>1. job'[h] = Job(op, n, pc) /\ (g # h => job'[g] = job[g])
    BY <1>0, <1>4, NewJobEffect
  <2> QED BY <2>1 DEF Job
<1> QED BY <1>0, <1>1, <1>2, <1>3, <1>4, NextKinds DEF storeVars

\* Every step that is quiet keeps that,
LEMMA StopLoopNext ==
  ASSUME SerialInv, Undisturbed, QuietStop, StopLoop, [Next]_vars
  PROVE  StopLoop'
<1> SUFFICES ASSUME NEW g \in Callers, Stopper(g)', NEW n \in Names, n \notin job'[g].todo,
                    proc'[list'[n]] = "live"
             PROVE  target'[g] = list'[n] /\ at'[g] # "nil"
  BY DEF StopLoop
<1>0. /\ StoreInv /\ PlaceInv /\ CmdTypeOK /\ JobTypeOK /\ CallInOrder(g) /\ JobInOrder(g) /\ LocksOf(g)
      /\ list[n] \in Cmds /\ NoCmd \notin Cmds
  BY SerialFacts, NoCmdAssumption
<1>1. CASE job'[g] = job[g]
  <2>1. Stopper(g)
    BY <1>1 DEF Stopper, At
  <2>2. list'[n] = list[n]
    BY <1>0, <2>1, ListChange DEF Saved, Stopper, LocksOf
  <2>3. proc[list[n]] = "live"
    <3>1. ASSUME NEW h \in Callers, at[h] = "start" PROVE FALSE
      <4>1. CallInOrder(h) /\ JobInOrder(h) /\ Booting
        BY SerialFacts DEF PlaceInv
      <4>2. job[h].pc = "looping" /\ job[h].op = "startAll"
        BY <2>1, <3>1, <4>1 DEF CallInOrder, InStop, QuietStop
      <4>3. h = Main /\ up = "booting"
        BY <4>1, <4>2 DEF JobInOrder, Booting, BootOps
      <4>4. g # Main
        BY <2>1, <4>2, <4>3 DEF Stopper, At
      <4> QED BY <2>1, <4>3, <4>4, StoreAssumption DEF Undisturbed, Stopper, Idle, Job
    <3> QED BY <1>0, <2>2, <3>1, ProcChange DEF Ends
  <2>4. target[g] = list[n] /\ at[g] # "nil"
    BY <1>1, <2>1, <2>3 DEF StopLoop
  <2>5. at[g] \in InStop /\ at[g] # "out"
    BY <1>0, <2>1, <2>4 DEF CallInOrder, Stopper, At, InStop
  <2>6. CASE InCall(g)
    <3>1. target'[g] = target[g]
      BY <1>0, <2>6, CallStepEffect DEF InCall
    <3> QED BY <2>2, <2>4, <2>5, <2>6, <3>1, NilMeansOver
  <2>7. ~Called(g) /\ ~LoopCall(g)
    BY <1>1 DEF Called, LoopCall, Went
  <2> QED BY <1>0, <1>1, <2>2, <2>4, <2>5, <2>6, <2>7, CallChange
<1>2. CASE LoopCall(g)
  <2>1. PICK m \in job[g].todo : /\ job'[g].todo = job[g].todo \ {m}
                                 /\ Call(g, IF job[g].op = "startAll" THEN "start" ELSE "stop", list[m])
    BY <1>2 DEF LoopCall
  <2>2. /\ at[g] = "out" /\ at'[g] \in {"start", "stop"} /\ target'[g] = list[m]
        /\ list' = list /\ proc' = proc /\ Stopper(g)
    BY <1>0, <1>2, <2>1, CallEffect DEF LoopCall, objVars, procVars, Stopper, At
  <2>3. n = m
    BY <1>0, <2>1, <2>2 DEF StopLoop, CallInOrder
  <2> QED BY <2>2, <2>3
<1>3. CASE Leave(g) /\ at[g] = "nil" /\ job'[g].todo = job[g].todo /\ Stopper(g) /\ UNCHANGED list
  BY <1>3 DEF StopLoop, Leave, procVars
<1>4. job'[g].todo # Names
  OBVIOUS
<1> QED BY <1>1, <1>2, <1>3, <1>4, StopperChange

\* and no such loop runs at first.
LEMMA StopLoopInit == (Init => StopLoop) /\ (InitUp => StopLoop)
  BY DEF Init, InitUp, StopLoop, Stopper, At, Idle, Job

\* In a step that ends that loop no listed service has a process.
LEMMA StopLoopEnds ==
  ASSUME SerialInv, StopLoop, [Next]_vars, NEW g \in Callers,
         At(g, {"stopAll", "shutdown"}, "loop"), job'[g] = Idle, NEW n \in Names
  PROVE  proc[list[n]] # "live"
<1>0. StoreInv /\ JobTypeOK /\ CallInOrder(g) /\ list[n] \in Cmds /\ NoCmd \notin Cmds
  BY SerialFacts, NoCmdAssumption
<1>1. StoreStep(g)
  <2>1. job'[g] # job[g]
    BY DEF At, Idle, Job
  <2>2. ASSUME NEW h \in Callers, StoreStep(h), h # g PROVE job'[g] = job[g]
    BY <1>0, <2>2, OneJob
  <2>3. ASSUME NEW h \in Callers, job[h] = Idle, NEW op, NEW m, NEW pc,
               job' = [job EXCEPT ![h] = Job(op, m, pc)]
        PROVE  job'[g] = job[g]
    <3>1. h # g
      BY <2>3 DEF At, Idle, Job
    <3> QED BY <1>0, <2>3, <3>1, NewJobEffect
  <2> QED BY <1>0, <2>1, <2>2, <2>3, NextKinds DEF storeVars
<1>2. job[g].todo = {}
  <2>1. ASSUME NEW m \in Names, BootstrapService(g, m) \/ CallInLoop(g, m) PROVE FALSE
    BY <1>0, <2>1, TakeEffect DEF BootstrapService, CallInLoop, Idle, Job
  <2> QED BY <1>1, <2>1
          DEF StoreStep, Find, CheckStatus, AnnounceSave, CommitSave, Launch, Launched, StopOld,
              StoppedOld, ReadOldStatus, LockService, FetchFails, FetchSucceeds, RestoreStatus,
              LockManager, EnterLoop, CalledInLoop, LoopFinishes, CallFails, BootstrapFails, At
<1> QED BY <1>0, <1>2 DEF StopLoop, Stopper, At, CallInOrder

\* So as long as nothing disturbs and nobody starts a service meanwhile, a loop that
\* comes to its end has stopped every listed process (process_manager.go:73-82,
\* services.go:319-331).
THEOREM StopAllStopsQuiet == (Spec \/ UpSpec) /\ []Undisturbed /\ []QuietStop => StopAllStops
<1>1. SerialInv /\ StopLoop /\ [Next]_vars =>
      [\A g \in Callers :
         At(g, {"stopAll", "shutdown"}, "loop") /\ job'[g] = Idle
           => \A n \in Names : proc[list[n]] # "live"]_vars
  BY StopLoopEnds
<1> QED BY <1>1, SerialInit, SerialNext, StopLoopInit, StopLoopNext, PTL DEF Spec, UpSpec, StopAllStops

-----------------------------------------------------------------------------
\* An operator nobody talks to but the broker, whose messages are handled one at a
\* time by the one goroutine of the client, and no request to start a service.
Serial == Http = {} /\ (\A g, h \in Mqtt : g = h) /\ "start" \notin Ops

\* No message is handled during the boot, and nothing is done that nobody asked for.
Asked ==
  /\ up = "booting" => \A g \in Mqtt : job[g] = Idle
  /\ \A g \in Callers : job[g].op \in AllOps => job[g].op \in Ops

\* A step of a goroutine keeps what it does, or goes on to the next loop or to nothing.
LEMMA OpStays ==
  ASSUME JobTypeOK, NEW g \in Callers, StoreStep(g)
  PROVE  /\ job[g] # Idle
         /\ job'[g].op = job[g].op \/ job'[g].op \in {"none", "startAll", "abort"}
         /\ up' = "booting" => up = "booting"
<1>1. ASSUME NEW pc, Move(g, pc) PROVE job'[g].op = job[g].op
  BY <1>1, MoveEffect
<1>2. ASSUME Clone(g) PROVE job'[g].op = job[g].op
  BY <1>2, CloneEffect
<1>3. ASSUME Done(g) PROVE job'[g].op = "none"
  <2>1. job'[g] = Idle
    BY <1>3, NewJobEffect DEF Done
  <2> QED BY <2>1 DEF Idle, Job
<1>4. ASSUME NEW op, NextLoop(g, op) PROVE job'[g].op = op /\ up' = up
  <2>1. job'[g] = Job(op, NoName, "rlock")
    BY <1>4, NewJobEffect DEF NextLoop
  <2> QED BY <1>4, <2>1 DEF NextLoop, Job
<1>5. ASSUME NEW failed \in BOOLEAN, EndLoop(g, failed)
      PROVE  job'[g].op \in {"none", "startAll", "abort"} /\ (up' = "booting" => up = "booting")
  BY <1>3, <1>4, <1>5 DEF EndLoop, Release
<1>6. ASSUME NEW n, NEW pc, Take(g, n, pc) PROVE job'[g].op = job[g].op
  BY <1>6, TakeEffect
<1>7. CASE Find(g) \/ ReadOldStatus(g) \/ EnterLoop(g)
  BY <1>7 DEF Find, ReadOldStatus, EnterLoop, restVars, JobTypeOK, Jobs, At, Idle, Job
<1>8. CASE CheckStatus(g) \/ AnnounceSave(g) \/ CommitSave(g) \/ Launch(g) \/ Launched(g)
  BY <1>1, <1>2, <1>3, <1>8
     DEF CheckStatus, AnnounceSave, CommitSave, Launch, Launched, restVars, At, Idle, Job
<1>9. CASE StopOld(g) \/ StoppedOld(g)
  BY <1>1, <1>2, <1>3, <1>9 DEF StopOld, StoppedOld, restVars, Idle, Job
<1>14. CASE LockService(g)
  <2>1. job'[g].op = job[g].op
    BY <1>14, LockEffect
  <2> QED BY <1>14, <2>1 DEF LockService, restVars, Idle, Job
<1>10. CASE FetchFails(g) \/ FetchSucceeds(g) \/ RestoreStatus(g)
  BY <1>1, <1>3, <1>10 DEF FetchFails, FetchSucceeds, RestoreStatus, restVars, Idle, Job
<1>11. CASE LockManager(g) \/ CalledInLoop(g)
  BY <1>1, <1>11 DEF LockManager, CalledInLoop, restVars, Idle, Job
<1>12. CASE LoopFinishes(g) \/ CallFails(g) \/ BootstrapFails(g)
  <2>1. job[g].pc \in {"loop", "looping"}
    BY <1>12, Zenon DEF LoopFinishes, CallFails, BootstrapFails, At
  <2>2. PICK failed \in BOOLEAN : EndLoop(g, failed)
    BY <1>12 DEF LoopFinishes, CallFails, BootstrapFails
  <2> QED BY <1>5, <2>1, <2>2 DEF Idle, Job
<1>13. ASSUME NEW n \in Names, BootstrapService(g, n) \/ CallInLoop(g, n)
       PROVE  job[g] # Idle /\ job'[g].op = job[g].op /\ up' = up
  BY <1>6, <1>13 DEF BootstrapService, CallInLoop, restVars, At, Idle, Job
<1> QED BY <1>7, <1>8, <1>9, <1>10, <1>11, <1>12, <1>13, <1>14 DEF StoreStep

\* Every step keeps that,
LEMMA AskedNext == PlaceInv /\ Asked /\ [Next]_vars => Asked'
<1> SUFFICES ASSUME PlaceInv, Asked, [Next]_vars PROVE Asked'
  OBVIOUS
<1>0. JobTypeOK /\ Main \in Callers /\ Mqtt \subseteq Callers /\ Main \notin Mqtt /\ Http \cap Mqtt = {}
  BY StoreAssumption DEF PlaceInv, StoreInv, StoreTypeOK
<1>1. ASSUME NEW g \in Callers, StoreStep(g) PROVE Asked'
  <2>1. \A h \in Callers \ {g} : job'[h] = job[h]
    BY <1>0, <1>1, OneJob
  <2>2. up' = "booting" => g \notin Mqtt
    BY <1>0, <1>1, OpStays DEF Asked
  <2>3. ASSUME NEW h \in Callers, job'[h].op \in AllOps PROVE job'[h].op \in Ops
    BY <1>0, <1>1, <2>1, <2>3, OpStays DEF Asked, AllOps
  <2> QED BY <1>0, <1>1, <2>1, <2>2, <2>3, OpStays DEF Asked
<1>2. ASSUME NEW g \in Http \cup Mqtt, NEW op \in Ops, NEW n \in Names, Request(g, op, n) PROVE Asked'
  <2>1. g \in Callers /\ up' = up /\ (g \in Mqtt => up # "booting")
    BY <1>0, <1>2, CallersAre DEF Request, HttpServes, MqttServes
  <2> DEFINE j == IF op = "stopAll" THEN Job(op, NoName, "pm") ELSE Job(op, n, "find")
  <2>2. job'[g] = j /\ \A h \in Callers \ {g} : job'[h] = job[h]
    BY <1>0, <1>2, <2>1, NewJobEffect DEF Request
  <2>3. job'[g].op = op
    BY <2>2 DEF Job
  <2>4. ASSUME NEW h \in Callers, job'[h].op \in AllOps PROVE job'[h].op \in Ops
    BY <2>2, <2>3, <2>4 DEF Asked
  <2> QED BY <1>0, <2>1, <2>2, <2>4 DEF Asked
<1>3. ASSUME Interrupt PROVE Asked'
  <2>1. CASE UNCHANGED job
    BY <1>3, <2>1 DEF Interrupt, Asked
  <2>2. CASE job' = [job EXCEPT ![Main] = Job("shutdown", NoName, "pm")]
    <3>1. job'[Main] = Job("shutdown", NoName, "pm") /\ \A h \in Callers \ {Main} : job'[h] = job[h]
      BY <1>0, <2>2, NewJobEffect
    <3>2. job'[Main].op = "shutdown"
      BY <3>1 DEF Job
    <3> QED BY <1>0, <1>3, <3>1, <3>2 DEF Interrupt, Asked
  <2> QED BY <1>3, <2>1, <2>2 DEF Interrupt
<1>4. CASE UNCHANGED <<job, up>>
  BY <1>4 DEF Asked
<1>5. ASSUME NEW c \in Cmds, WaitStep(c) \/ ExitStep(c) PROVE UNCHANGED <<job, up>>
  BY <1>5 DEF WaitStep, ExitStep, Notice, storeVars, restVars
<1>6. ASSUME Connect PROVE Asked'
  BY <1>6 DEF Connect, Asked
<1> QED BY <1>1, <1>2, <1>3, <1>4, <1>5, <1>6 DEF Next, GoStep, vars, storeVars, restVars

\* and both initial states have it.
LEMMA AskedInit == (Init => Asked) /\ (InitUp => Asked)
<1>1. ASSUME Init PROVE Asked
  <2>1. \A g \in Callers : job[g].op \in {"bootstrap", "none"} /\ (g # Main => job[g] = Idle)
    BY <1>1 DEF Init, Idle, Job
  <2> QED BY <2>1, StoreAssumption DEF Asked, AllOps
<1>2. ASSUME InitUp PROVE Asked
  BY <1>2 DEF InitUp, Asked, AllOps, Idle, Job
<1> QED BY <1>1, <1>2

\* Whoever handles a request is then the one goroutine of the client.
LEMMA SerialUndisturbed ==
  ASSUME Serial
  PROVE  /\ SerialInv /\ Asked => Undisturbed
         /\ SerialInv /\ Asked /\ "shutdown" \notin Ops => QuietStop
<1> SUFFICES ASSUME SerialInv, Asked PROVE Undisturbed /\ ("shutdown" \notin Ops => QuietStop)
  OBVIOUS
<1>1. \A g \in Callers : JobInOrder(g) /\ (g # Main => g \in Mqtt)
  BY SerialFacts, StoreAssumption DEF Serial
<1>2. Undisturbed
  BY CallersAre DEF Serial, Asked, AllOps, Undisturbed, At
<1>3. ASSUME "shutdown" \notin Ops, NEW g \in Callers, NEW h \in Callers, Stopper(g),
             job[h].pc \in {"launch", "starting"}
      PROVE  FALSE
  <2>1. g \in Mqtt
    BY <1>1, <1>3 DEF Stopper, At, Asked, AllOps, JobInOrder, BootOps
  <2>2. h \in Mqtt
    <3>1. job[h] # Idle /\ job[h].op \notin Loops
      BY <1>1, <1>3 DEF JobInOrder, LoopPcs, Idle, Job
    <3> QED BY <1>1, <3>1 DEF JobInOrder, Loops
  <2>3. g = h
    BY <2>1, <2>2 DEF Serial
  <2> QED BY <1>3, <2>3 DEF Stopper
<1> QED BY <1>2, <1>3 DEF QuietStop

\* So the invariant holds throughout.
LEMMA SerialSpec ==
  ASSUME Serial
  PROVE  Spec \/ UpSpec => [](SerialInv /\ Asked)
<1>1. Init \/ InitUp => SerialInv /\ Asked
  BY SerialInit, AskedInit
<1>2. SerialInv /\ Asked /\ [Next]_vars => (SerialInv /\ Asked)'
  BY SerialNext, AskedNext, SerialUndisturbed, SerialFacts
<1> QED BY <1>1, <1>2, PTL DEF Spec, UpSpec

\* With one goroutine for the messages, no HTTP and no request to start a service, the
\* store knows every process it has, for any services and any number of requests
\* (services.go:251-265, 298-315; process_manager.go:51-72).
THEOREM NoOrphansSerial ==
  ASSUME Serial
  PROVE  Spec \/ UpSpec => []NoOrphanProcess
<1>1. SerialInv => NoOrphanProcess
  BY DEF SerialInv
<1> QED BY <1>1, SerialSpec, PTL

\* There "updating" shows only while an update is under way, unless the process may
\* refuse the interrupt (services.go:201-218),
THEOREM UpdatingSerial ==
  ASSUME Serial
  PROVE  Spec \/ UpSpec => []UpdatingMeansUpdate
  BY UpdatingNow, SerialSpec, PTL

\* and unless an interrupt shuts the operator down, a loop that stops all services and
\* comes to its end has stopped them (process_manager.go:73-82).
THEOREM StopAllStopsSerial ==
  ASSUME Serial, "shutdown" \notin Ops
  PROVE  Spec \/ UpSpec => StopAllStops
<1>1. SerialInv /\ Asked => Undisturbed /\ QuietStop
  BY SerialUndisturbed
<1> QED BY <1>1, SerialSpec, StopAllStopsQuiet, PTL

-----------------------------------------------------------------------------
\* Somebody is told of the end of c: an observer still listens, or has passed on the
\* failure, or there was none.
Watched(c) == observers[c] > 0 \/ c \in notices \/ proc[c] = "ok"

\* A command is watched from the moment on at which it may get a process.
WatchInv ==
  \A c \in Cmds :
    (proc[c] # "none" \/ \E g \in Callers : at[g] = "start" /\ target[g] = c) => Watched(c)

\* Observers leave one at a time, and not without having told.
LEMMA WatchedStays ==
  ASSUME PlaceInv, [Next]_vars, NEW c \in Cmds, Watched(c)
  PROVE  Watched(c)'
<1>0. /\ StoreInv /\ CmdTypeOK /\ ExitsInOrder /\ JobTypeOK
      /\ observers \in [Cmds -> Nat] /\ list \in [Names -> Cmds]
  BY DEF PlaceInv, StoreInv, StoreTypeOK, CmdInv, RestTypeOK, ObjTypeOK
<1>1. proc[c] = "ok" => proc'[c] = "ok"
  BY <1>0, ProcChange
<1>2. ASSUME NEW d \in Cmds, NEW n \in {0, 1}, Observe(d, n), notices' = notices PROVE Watched(c)'
  <2>1. observers'[c] \in {observers[c], observers[c] + 1} /\ observers[c] \in Nat
    BY <1>0, <1>2 DEF Observe
  <2> QED BY <1>1, <1>2, <2>1 DEF Watched
<1>3. CASE UNCHANGED <<observers, notices>>
  BY <1>1, <1>3 DEF Watched
<1>4. ASSUME NEW g \in Callers, Launch(g) PROVE Watched(c)'
  <2>1. job[g].svc \in Cmds /\ notices' = notices
    BY <1>0, <1>4 DEF Launch, JobTypeOK, AtFind
  <2>2. CASE job[g].op = "start"
    BY <1>2, <1>4, <2>1, <2>2 DEF Launch
  <2>3. CASE job[g].op # "start"
    BY <1>2, <1>4, <2>1, <2>3 DEF Launch
  <2> QED BY <2>2, <2>3
<1>5. ASSUME NEW g \in Callers, NEW n \in Names, CallInLoop(g, n) PROVE Watched(c)'
  <2>1. list[n] \in Cmds /\ notices' = notices
    BY <1>0, <1>5 DEF CallInLoop
  <2>2. CASE job[g].op = "startAll"
    BY <1>2, <1>5, <2>1, <2>2 DEF CallInLoop
  <2>3. CASE job[g].op # "startAll"
    BY <1>2, <1>5, <2>1, <2>3 DEF CallInLoop
  <2> QED BY <2>2, <2>3
<1>6. ASSUME NEW d \in Cmds, Notice(d) PROVE Watched(c)'
  <2>1. proc' = proc /\ notices \subseteq notices' /\ (proc[d] # "ok" => d \in notices')
    BY <1>6 DEF Notice, RecvFinish
  <2>2. d # c => observers'[c] = observers[c]
    BY <1>0, <1>6 DEF Notice, Observe
  <2> QED BY <1>1, <2>1, <2>2 DEF Watched
<1>7. ASSUME NEW g \in Callers, StoreStep(g), ~Launch(g), \A n \in Names : ~CallInLoop(g, n)
      PROVE  UNCHANGED <<observers, notices>>
  BY <1>7 DEF StoreStep, Find, CheckStatus, AnnounceSave, CommitSave, Launched, StopOld,
         StoppedOld, ReadOldStatus, LockService, FetchFails, FetchSucceeds, RestoreStatus,
         LockManager, EnterLoop, CalledInLoop, LoopFinishes, CallFails, BootstrapFails,
         BootstrapService, EndLoop, restVars
<1>8. ASSUME \/ \E g \in Callers : CallStep(g) /\ UNCHANGED storeVars
             \/ \E g \in Http \cup Mqtt, op \in Ops, n \in Names : Request(g, op, n)
             \/ Interrupt \/ Connect \/ UNCHANGED vars
             \/ \E d \in Cmds : ExitStep(d) \/ (WaiterStep(d) /\ UNCHANGED <<callVars, storeVars>>)
      PROVE  UNCHANGED <<observers, notices>>
  BY <1>8 DEF Request, Interrupt, Connect, ExitStep, vars, storeVars, restVars
<1> QED BY <1>3, <1>4, <1>5, <1>6, <1>7, <1>8 DEF Next, GoStep, WaitStep

\* Whoever enters Start without a restart or an update has sent an observer ahead.
LEMMA WatchedBefore ==
  ASSUME PlaceInv, Asked, "restart" \notin Ops, "update" \notin Ops, [Next]_vars,
         NEW g \in Callers, at'[g] = "start", at[g] # "start"
  PROVE  target'[g] \in Cmds /\ observers'[target'[g]] > 0
<1>0. /\ StoreInv /\ CmdTypeOK /\ JobTypeOK /\ JobInOrder(g)
      /\ observers \in [Cmds -> Nat] /\ list \in [Names -> Cmds]
  BY DEF PlaceInv, StoreInv, StoreTypeOK, CmdInv, RestTypeOK, ObjTypeOK, InOrder
<1>1. ASSUME NEW c \in Cmds, Observe(c, 1) PROVE observers'[c] > 0
  BY <1>0, <1>1 DEF Observe
<1>2. ASSUME NEW h \in Callers, NEW m, NEW c, Call(h, m, c)
      PROVE  h = g /\ m = "start" /\ target'[g] = c
  BY <1>0, <1>2, CallEffect
<1>3. ASSUME NEW h \in Callers, Launch(h) PROVE target'[g] \in Cmds /\ observers'[target'[g]] > 0
  <2>1. h = g /\ target'[g] = job[g].svc /\ job[g].svc \in Cmds
    BY <1>0, <1>2, <1>3 DEF Launch, JobTypeOK, AtFind
  <2>2. job[g].op = "start"
    BY <1>0, <1>3, <2>1, CallersAre DEF Launch, JobInOrder, Loops, LoopPcs, BootOps, Asked, AllOps, Idle, Job
  <2> QED BY <1>1, <1>3, <2>1, <2>2 DEF Launch
<1>4. ASSUME NEW h \in Callers, NEW n \in Names, CallInLoop(h, n)
      PROVE  target'[g] \in Cmds /\ observers'[target'[g]] > 0
  <2>1. list[n] \in Cmds /\ Call(h, IF job[h].op = "startAll" THEN "start" ELSE "stop", list[n])
    BY <1>0, <1>4 DEF CallInLoop
  <2>2. job[h].op = "startAll" /\ target'[g] = list[n]
    BY <1>2, <2>1
  <2> QED BY <1>1, <1>4, <2>1, <2>2 DEF CallInLoop
<1>5. \/ \E h \in Callers : Launch(h)
      \/ \E h \in Callers, n \in Names : CallInLoop(h, n)
  <2>1. ASSUME NEW h \in Callers, StopOld(h) PROVE FALSE
    BY <1>2, <2>1 DEF StopOld
  <2>2. ASSUME NEW h \in Callers, CallStep(h) PROVE FALSE
    BY <1>0, <2>2, CallStepEffect
  <2>3. ASSUME NEW h \in Callers, Leave(h) PROVE FALSE
    BY <1>0, <2>3, LeaveEffect
  <2>4. ~UNCHANGED callVars
    BY DEF callVars
  <2>5. ASSUME NEW h \in Callers, StoreStep(h) PROVE Launch(h) \/ \E n \in Names : CallInLoop(h, n)
    BY <2>1, <2>3, <2>4, <2>5
       DEF StoreStep, Find, CheckStatus, AnnounceSave, CommitSave, Launched, StoppedOld,
           ReadOldStatus, LockService, FetchFails, FetchSucceeds, RestoreStatus,
           LockManager, EnterLoop, CalledInLoop, LoopFinishes, CallFails, BootstrapFails,
           BootstrapService, cmdVars
  <2> QED BY <1>0, <2>2, <2>4, <2>5, NextKinds DEF cmdVars
<1> QED BY <1>3, <1>4, <1>5

LEMMA WatchNext ==
  ASSUME "restart" \notin Ops, "update" \notin Ops
  PROVE  PlaceInv /\ Asked /\ WatchInv /\ [Next]_vars => WatchInv'
<1> SUFFICES ASSUME PlaceInv, Asked, WatchInv, [Next]_vars, NEW c \in Cmds,
                    proc'[c] # "none" \/ \E g \in Callers : at'[g] = "start" /\ target'[g] = c
             PROVE  Watched(c)'
  BY DEF WatchInv
<1>0. StoreInv /\ CmdTypeOK
  BY DEF PlaceInv, StoreInv, CmdInv
<1>1. CASE proc'[c] # "none"
  <2>1. Watched(c)
    BY <1>0, <1>1, ProcChange DEF WatchInv
  <2> QED BY <2>1, WatchedStays
<1>2. ASSUME NEW g \in Callers, at'[g] = "start", target'[g] = c PROVE Watched(c)'
  <2>1. CASE at[g] # "start"
    BY <1>2, <2>1, WatchedBefore DEF Watched
  <2>2. CASE at[g] = "start"
    <3>1. ~Called(g) /\ ~LoopCall(g)
      BY <2>2 DEF Called, LoopCall, Call
    <3>2. target'[g] = target[g]
      BY <1>0, <1>2, <2>2, <3>1, CallChange, CallStepEffect DEF InCall
    <3> QED BY <1>2, <2>2, <3>2, WatchedStays DEF WatchInv
  <2> QED BY <2>1, <2>2
<1> QED BY <1>1, <1>2

LEMMA WatchInit == (Init => WatchInv) /\ (InitUp => WatchInv)
  BY DEF Init, InitUp, CmdInit, CallsInit, WatchInv, Watched

\* Without restarts and updates no crash is silent, for any services and any requests
\* at once: StartService and the boot start a command through its Service, which watches
\* it (services.go:90-107, 251-265).  So the bare starts of RestartService and of Update
\* are the only cause of the silent crash.
THEOREM NoSilentCrashWatched ==
  ASSUME "restart" \notin Ops, "update" \notin Ops
  PROVE  Spec \/ UpSpec => []NoSilentCrash
<1>1. PlaceInv /\ WatchInv => NoSilentCrash
  BY DEF PlaceInv, StoreInv, CmdInv, ExitsInOrder, WatchInv, Watched, NoSilentCrash
<1>2. PlaceInv /\ Asked /\ WatchInv /\ [Next]_vars => (PlaceInv /\ Asked /\ WatchInv)'
  BY PlaceNext, AskedNext, WatchNext
<1> QED BY <1>1, <1>2, PlaceInit, AskedInit, WatchInit, PTL DEF Spec, UpSpec
=============================================================================
