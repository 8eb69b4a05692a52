---------------------------- MODULE StoreProofs ----------------------------
(***************************************************************************)
(* What TLAPS proves of module ServiceStore for any services, requests and *)
(* goroutines: its types; that it drives its commands only through the     *)
(* calls of module Command, so that every theorem of CommandProofs holds   *)
(* of the commands of a running store; and where a goroutine can be in its *)
(* request and in a call, with the mutexes that it holds there.            *)
(***************************************************************************)
EXTENDS ServiceStore, CommandProofs

StoreInv == CmdInv /\ StoreTypeOK

\* The goroutines that act on requests and on the boot are callers of Command.
LEMMA CallersAre ==
  /\ Main \in Callers
  /\ Http \cup Mqtt \subseteq Callers
BY StoreAssumption

\* A derived status is a status.
LEMMA StatusType == ASSUME CmdTypeOK, NEW c \in Cmds PROVE Status(c) \in Statuses
  BY DEF CmdTypeOK, Status, Statuses

\* The clone that a request makes is a command that has not been used.
LEMMA CloneIsUnused ==
  ASSUME NEW c, Unused(c) # {}
  PROVE  (CHOOSE d \in Unused(c) : TRUE) \in Unused(c)
  OBVIOUS

-----------------------------------------------------------------------------
\* The calls the store makes.  Every step of it is a step of module Command or
\* leaves the commands alone.
LEMMA EntersCommand ==
  ASSUME NEW g \in Callers, NEW c \in Cmds, NEW m \in {"start", "stop"},
         Call(g, m, c), UNCHANGED procVars
  PROVE  CmdNext
  BY DEF Enter, CmdNext

LEMMA LeavesCommand ==
  ASSUME NEW g \in Callers, Leave(g)
  PROVE  CmdNext
  BY DEF CmdNext

LEMMA SetsStatus ==
  ASSUME NEW c \in Cmds, NEW s \in Statuses, SetStatus(c, s),
         UNCHANGED <<proc, waiter, interrupted, exitError, finish, callVars>>
  PROVE  CmdNext
<1>1. Overwrite(c) /\ UNCHANGED callVars
  BY DEF Overwrite
<1> QED BY <1>1 DEF CmdNext

LEMMA StoreStepCommand ==
  ASSUME StoreInv, NEW g \in Callers, StoreStep(g)
  PROVE  [CmdNext]_cmdVars
<1> USE DEF StoreInv, StoreTypeOK
<1>1. CASE UNCHANGED cmdVars
  BY <1>1
<1>2. CASE Launch(g)
  <2>1. job[g].svc \in Cmds
    BY <1>2 DEF Launch, JobTypeOK, AtFind
  <2> QED BY <1>2, <2>1, EntersCommand DEF Launch
<1>3. CASE StopOld(g)
  <2>1. job[g].svc \in Cmds
    BY <1>3 DEF StopOld, JobTypeOK, AtFind
  <2> QED BY <1>3, <2>1, EntersCommand DEF StopOld
<1>4. ASSUME NEW n \in Names, CallInLoop(g, n) PROVE CmdNext
  <2>1. list[n] \in Cmds
    BY DEF ObjTypeOK
  <2>2. PICK m \in {"start", "stop"} : Call(g, m, list[n])
    BY <1>4 DEF CallInLoop
  <2> QED BY <1>4, <2>1, <2>2, EntersCommand DEF CallInLoop
<1>5. CASE LockService(g)
  <2>1. job[g].svc \in Cmds /\ "updating" \in Statuses
    BY <1>5 DEF LockService, JobTypeOK, AtFind, Statuses
  <2> QED BY <1>5, <2>1, SetsStatus DEF LockService
<1>6. CASE RestoreStatus(g)
  <2>1. job[g].svc \in Cmds /\ job[g].old \in Statuses
    BY <1>6 DEF RestoreStatus, JobTypeOK, AtFind, Jobs
  <2> QED BY <1>6, <2>1, SetsStatus DEF RestoreStatus
<1>7. CASE Leave(g)
  BY <1>7, LeavesCommand
<1> QED BY <1>1, <1>2, <1>3, <1>4, <1>5, <1>6, <1>7
        DEF StoreStep, Find, CheckStatus, AnnounceSave, CommitSave, Launched, StoppedOld,
            ReadOldStatus, FetchFails, FetchSucceeds, LockManager, EnterLoop, CalledInLoop,
            LoopFinishes, CallFails, BootstrapFails, BootstrapService

LEMMA NextCommand == StoreInv /\ [Next]_vars => [CmdNext]_cmdVars
<1> SUFFICES ASSUME StoreInv, [Next]_vars PROVE [CmdNext]_cmdVars
  OBVIOUS
<1>1. ASSUME NEW g \in Callers, GoStep(g) PROVE [CmdNext]_cmdVars
  <2>1. CASE StoreStep(g)  BY <2>1, StoreStepCommand
  <2>2. CASE CallStep(g)   BY <2>2 DEF CmdNext
  <2> QED BY <1>1, <2>1, <2>2 DEF GoStep
<1>2. ASSUME NEW c \in Cmds, WaitStep(c) \/ ExitStep(c) PROVE [CmdNext]_cmdVars
  BY <1>2 DEF WaitStep, ExitStep, Notice, CmdNext
<1>3. ASSUME NEW g \in Http \cup Mqtt, NEW op \in Ops, NEW n \in Names, Request(g, op, n)
      PROVE  UNCHANGED cmdVars
  BY <1>3 DEF Request
<1>4. CASE Interrupt \/ Connect \/ UNCHANGED vars
  BY <1>4 DEF Interrupt, Connect, vars
<1> QED BY <1>1, <1>2, <1>3, <1>4 DEF Next

-----------------------------------------------------------------------------
\* Types.  The operator starts well-typed, before its boot as well as after it.
LEMMA JobTypes ==
  ASSUME NEW op \in AllOps \cup {"none", "bootstrap", "startAll", "abort"},
         NEW n \in Names \cup {NoName},
         NEW pc \in AtFind \cup {"idle", "pm", "rlock", "loop", "looping"}
  PROVE  Job(op, n, pc) \in Jobs
<1>1. 0 \in 0 .. MaxHead
  BY StoreAssumption
<1> QED BY <1>1 DEF Job, Jobs, Statuses

LEMMA StoreInitTypes == StoreInit => ObjTypeOK /\ LockTypeOK
  BY StoreAssumption DEF StoreInit, ObjTypeOK, LockTypeOK

LEMMA StoreInitInv == Init => StoreInv
<1> SUFFICES ASSUME Init PROVE StoreInv
  OBVIOUS
<1>1. CmdInv
  BY InitInv DEF Init
<1>2. RestTypeOK
  BY StoreAssumption DEF Init, StoreInit, RestTypeOK
<1>3. Idle \in Jobs /\ Job("bootstrap", NoName, "pm") \in Jobs
  BY JobTypes DEF Idle
<1>4. JobTypeOK
  BY <1>3 DEF Init, JobTypeOK, Idle, Job, AtFind
<1> QED BY <1>1, <1>2, <1>4, StoreInitTypes DEF Init, StoreInv, StoreTypeOK

LEMMA StoreInitUpInv == InitUp => StoreInv
<1> SUFFICES ASSUME InitUp PROVE StoreInv
  OBVIOUS
<1>1. CmdInv
  BY DEF InitUp, CallsInit, CmdInv, CmdTypeOK, ExitsInOrder, Reaped, Statuses, Ends
<1>2. RestTypeOK
  BY StoreAssumption DEF InitUp, StoreInit, RestTypeOK
<1>3. Idle \in Jobs
  BY JobTypes DEF Idle, AllOps
<1>4. JobTypeOK
  BY <1>3 DEF InitUp, JobTypeOK, Idle, Job, AtFind
<1> QED BY <1>1, <1>2, <1>4, StoreInitTypes DEF InitUp, StoreInv, StoreTypeOK

\* What a step does to the locals of a goroutine is one of three things: it goes
\* on to another place, it goes there with its command, or it starts or ends a job.
LEMMA MoveTypes ==
  ASSUME JobTypeOK, NEW g \in Callers,
         NEW pc \in AtFind \cup {"idle", "pm", "rlock", "loop", "looping"},
         Move(g, pc), pc \in AtFind => job[g].pc \in AtFind \ {"find"}
  PROVE  JobTypeOK'
  BY DEF JobTypeOK, Jobs, Move

LEMMA NewJobTypes ==
  ASSUME JobTypeOK, NEW g \in Callers, NEW j \in Jobs,
         job' = [job EXCEPT ![g] = j],
         j.pc \in AtFind => j.name \in Names,
         j.pc \in AtFind \ {"find"} => j.svc \in Cmds
  PROVE  JobTypeOK'
  BY DEF JobTypeOK

LEMMA TakeTypes ==
  ASSUME JobTypeOK, NEW g \in Callers, NEW n \in Names, NEW pc \in {"loop", "looping"},
         Take(g, n, pc)
  PROVE  JobTypeOK'
<1> DEFINE j == [job[g] EXCEPT !.todo = @ \ {n}, !.pc = pc]
<1>1. j \in Jobs /\ j.pc \notin AtFind
  BY DEF JobTypeOK, Jobs, AtFind
<1>2. job' = [job EXCEPT ![g] = j]
  BY DEF Take, JobTypeOK
<1> HIDE DEF j
<1> QED BY <1>1, <1>2, NewJobTypes

LEMMA DoneTypes ==
  ASSUME JobTypeOK, NEW g \in Callers, Done(g)
  PROVE  JobTypeOK'
<1>1. Idle \in Jobs
  BY JobTypes DEF Idle, AllOps
<1> QED BY <1>1, NewJobTypes DEF Done, Idle, Job, AtFind

LEMMA CloneTypes ==
  ASSUME StoreTypeOK, NEW g \in Callers, Clone(g),
         job[g].pc \in AtFind \ {"find"}, UNCHANGED <<list, head>>
  PROVE  ObjTypeOK' /\ JobTypeOK'
<1> DEFINE new == CHOOSE d \in Unused(job[g].svc) : TRUE
<1>1. new \in Cmds
  BY CloneIsUnused DEF Clone, Unused
<1>2. job[g].name \in Names /\ job[g].svc \in Cmds
  BY DEF StoreTypeOK, JobTypeOK
<1>d. /\ owner' = [owner EXCEPT ![new] = job[g].name]
      /\ version' = [version EXCEPT ![new] = version[job[g].svc]]
      /\ job' = [job EXCEPT ![g].svc = new, ![g].pc = "save"]
  BY DEF Clone
<1> HIDE DEF new
<1>3. ObjTypeOK'
  BY <1>d, <1>1, <1>2 DEF StoreTypeOK, ObjTypeOK
<1> DEFINE j == [job[g] EXCEPT !.svc = new, !.pc = "save"]
<1>4. j \in Jobs /\ j.name \in Names /\ j.svc \in Cmds
  BY <1>1, <1>2 DEF StoreTypeOK, JobTypeOK, Jobs, AtFind
<1>5. job' = [job EXCEPT ![g] = j]
  BY <1>d DEF StoreTypeOK, JobTypeOK
<1> HIDE DEF j
<1>6. JobTypeOK'
  BY <1>4, <1>5, NewJobTypes DEF StoreTypeOK
<1> QED BY <1>3, <1>6

\* A request keeps the types through StartService, StopService and RestartService...
LEMMA RequestStepTypes ==
  ASSUME StoreInv, NEW g \in Callers,
         \/ Find(g) \/ CheckStatus(g) \/ AnnounceSave(g) \/ CommitSave(g)
         \/ Launch(g) \/ Launched(g) \/ StopOld(g) \/ StoppedOld(g)
  PROVE  StoreTypeOK'
<1> USE DEF StoreInv
<1>0. JobTypeOK /\ LockTypeOK /\ ObjTypeOK /\ RestTypeOK
  BY DEF StoreTypeOK
<1>l. ASSUME UNCHANGED lockVars PROVE LockTypeOK'
  BY <1>0, <1>l DEF lockVars, LockTypeOK
<1>r. ASSUME UNCHANGED restVars PROVE RestTypeOK'
  BY <1>0, <1>r DEF restVars, RestTypeOK
<1>o. ASSUME UNCHANGED objVars PROVE ObjTypeOK'
  BY <1>0, <1>o DEF objVars, ObjTypeOK
<1>1. CASE Find(g)
  <2> DEFINE j == [job[g] EXCEPT !.svc = list[job[g].name],
                     !.pc = IF job[g].op \in {"start", "update"} THEN "status" ELSE "stop"]
  <2>1. j \in Jobs /\ j.name \in Names /\ j.svc \in Cmds
    BY <1>0, <1>1 DEF Find, JobTypeOK, ObjTypeOK, Jobs, AtFind
  <2>2. job' = [job EXCEPT ![g] = j]
    BY <1>0, <1>1 DEF Find, JobTypeOK
  <2> HIDE DEF j
  <2>3. JobTypeOK'
    BY <1>0, <2>1, <2>2, NewJobTypes
  <2> QED BY <1>1, <2>3, <1>l, <1>r, <1>o DEF Find, StoreTypeOK
<1>2. CASE CheckStatus(g)
  <2>1. CASE Clone(g)
    BY <1>2, <2>1, CloneTypes, <1>l, <1>r DEF CheckStatus, At, AtFind, StoreTypeOK
  <2>2. CASE Move(g, "launch") /\ UNCHANGED <<owner, version>>
    <3>1. JobTypeOK'
      BY <1>0, <1>2, <2>2, MoveTypes DEF CheckStatus, At, AtFind
    <3> QED BY <1>2, <2>2, <3>1, <1>l, <1>r, <1>o DEF CheckStatus, StoreTypeOK, objVars
  <2> QED BY <1>2, <2>1, <2>2 DEF CheckStatus
<1>3. CASE AnnounceSave(g)
  <2>1. JobTypeOK'
    BY <1>0, <1>3, MoveTypes DEF AnnounceSave, AtFind
  <2> QED BY <1>0, <1>3, <2>1, <1>r, <1>o DEF AnnounceSave, LockTypeOK, StoreTypeOK
<1>4. CASE CommitSave(g)
  <2>1. JobTypeOK'
    BY <1>0, <1>4, MoveTypes DEF CommitSave, AtFind
  <2>2. ObjTypeOK'
    BY <1>0, <1>4 DEF CommitSave, ObjTypeOK, JobTypeOK, AtFind
  <2> QED BY <1>0, <1>4, <2>1, <2>2, <1>r DEF CommitSave, LockTypeOK, StoreTypeOK
<1>5. CASE Launch(g)
  <2>1. JobTypeOK'
    BY <1>0, <1>5, MoveTypes DEF Launch, AtFind
  <2>2. RestTypeOK'
    BY <1>0, <1>5 DEF Launch, Observe, RestTypeOK, JobTypeOK, AtFind
  <2> QED BY <1>5, <2>1, <2>2, <1>l, <1>o DEF Launch, StoreTypeOK
<1>6. CASE Launched(g)
  BY <1>0, <1>6, DoneTypes, <1>l, <1>r, <1>o DEF Launched, StoreTypeOK
<1>7. CASE StopOld(g)
  <2>1. JobTypeOK'
    BY <1>0, <1>7, MoveTypes DEF StopOld, AtFind
  <2> QED BY <1>7, <2>1, <1>l, <1>r, <1>o DEF StopOld, StoreTypeOK
<1>8. CASE StoppedOld(g)
  <2>1. CASE Clone(g)
    BY <1>8, <2>1, CloneTypes, <1>l, <1>r DEF StoppedOld, AtFind, StoreTypeOK
  <2>2. CASE Done(g) /\ UNCHANGED <<owner, version>>
    BY <1>0, <1>8, <2>2, DoneTypes, <1>l, <1>r, <1>o DEF StoppedOld, StoreTypeOK, objVars
  <2> QED BY <1>8, <2>1, <2>2 DEF StoppedOld
<1> QED BY <1>1, <1>2, <1>3, <1>4, <1>5, <1>6, <1>7, <1>8

\* ... and through Update.
LEMMA UpdateStepTypes ==
  ASSUME StoreInv, NEW g \in Callers,
         ReadOldStatus(g) \/ LockService(g) \/ FetchFails(g) \/ FetchSucceeds(g) \/ RestoreStatus(g)
  PROVE  StoreTypeOK'
<1> USE DEF StoreInv
<1>0. JobTypeOK /\ LockTypeOK /\ ObjTypeOK /\ RestTypeOK
  BY DEF StoreTypeOK
<1>l. ASSUME UNCHANGED lockVars PROVE LockTypeOK'
  BY <1>0, <1>l DEF lockVars, LockTypeOK
<1>r. ASSUME UNCHANGED restVars PROVE RestTypeOK'
  BY <1>0, <1>r DEF restVars, RestTypeOK
<1>o. ASSUME UNCHANGED objVars PROVE ObjTypeOK'
  BY <1>0, <1>o DEF objVars, ObjTypeOK
<1>h. MaxHead \in Nat
  BY StoreAssumption
<1>1. CASE ReadOldStatus(g)
  <2> DEFINE j == [job[g] EXCEPT !.old = Status(job[g].svc), !.pc = "lock"]
  <2>1. job[g].svc \in Cmds /\ job[g].name \in Names
    BY <1>0, <1>1 DEF ReadOldStatus, At, JobTypeOK, AtFind
  <2>2. Status(job[g].svc) \in Statuses
    BY <2>1, StatusType DEF CmdInv
  <2>3. j \in Jobs /\ j.name \in Names /\ j.svc \in Cmds
    BY <1>0, <2>1, <2>2 DEF JobTypeOK, Jobs, AtFind
  <2>4. job' = [job EXCEPT ![g] = j]
    BY <1>0, <1>1 DEF ReadOldStatus, JobTypeOK
  <2> HIDE DEF j
  <2>5. JobTypeOK'
    BY <1>0, <2>3, <2>4, NewJobTypes
  <2> QED BY <1>1, <2>5, <1>l, <1>r, <1>o DEF ReadOldStatus, StoreTypeOK
<1>2. CASE LockService(g)
  <2>3. PICK oldest \in Heads(job[g].name) :
          job' = [job EXCEPT ![g].from = oldest, ![g].pc = "fetch"]
    BY <1>2 DEF LockService
  <2>4. job[g].name \in Names /\ job[g].svc \in Cmds
    BY <1>0, <1>2 DEF LockService, JobTypeOK, AtFind
  <2>5. oldest \in 0 .. MaxHead
    BY <1>0, <2>4 DEF Heads, ObjTypeOK, JobTypeOK, Jobs
  <2> DEFINE j == [job[g] EXCEPT !.from = oldest, !.pc = "fetch"]
  <2>6. j \in Jobs /\ j.name \in Names /\ j.svc \in Cmds
    BY <1>0, <2>4, <2>5 DEF JobTypeOK, Jobs, AtFind
  <2>7. job' = [job EXCEPT ![g] = j]
    BY <1>0, <2>3 DEF JobTypeOK
  <2> HIDE DEF j
  <2>1. JobTypeOK'
    BY <1>0, <2>6, <2>7, NewJobTypes
  <2>2. LockTypeOK'
    BY <1>0, <1>2 DEF LockService, LockTypeOK
  <2> QED BY <1>2, <2>1, <2>2, <1>r, <1>o DEF LockService, StoreTypeOK
<1>3. CASE FetchFails(g)
  <2>1. JobTypeOK'
    BY <1>0, <1>3, MoveTypes DEF FetchFails, AtFind
  <2>2. LockTypeOK'
    BY <1>0, <1>3 DEF FetchFails, LockTypeOK
  <2>3. job[g].name \in Names
    BY <1>0, <1>3 DEF FetchFails, JobTypeOK, AtFind
  <2>4. PICK h \in job[g].from .. MaxHead : head' = [head EXCEPT ![job[g].name] = h]
    BY <1>3 DEF FetchFails
  <2>5. h \in 0 .. MaxHead
    BY <1>0, <1>h, <2>3 DEF JobTypeOK, Jobs
  <2>6. ObjTypeOK'
    BY <1>0, <1>3, <2>4, <2>5 DEF FetchFails, ObjTypeOK
  <2> QED BY <1>3, <2>1, <2>2, <2>6, <1>r DEF FetchFails, StoreTypeOK
<1>4. CASE FetchSucceeds(g)
  <2>2. LockTypeOK'
    BY <1>0, <1>4 DEF FetchSucceeds, LockTypeOK
  <2>3. job[g].name \in Names /\ job[g].pc = "fetch"
    BY <1>0, <1>4 DEF FetchSucceeds, JobTypeOK, AtFind
  <2>4. PICK h \in job[g].from .. MaxHead :
          /\ head' = [head EXCEPT ![job[g].name] = h]
          /\ version' = [version EXCEPT ![job[g].svc] = h]
          /\ Move(g, "stop") \/ Move(g, "restore")
    BY <1>4 DEF FetchSucceeds
  <2>5. h \in 0 .. MaxHead
    BY <1>0, <1>h, <2>3 DEF JobTypeOK, Jobs
  <2>6. ObjTypeOK'
    BY <1>0, <1>4, <2>4, <2>5 DEF FetchSucceeds, ObjTypeOK
  <2>1. JobTypeOK'
    BY <1>0, <2>3, <2>4, MoveTypes DEF AtFind
  <2> QED BY <1>4, <2>1, <2>2, <2>6, <1>r DEF FetchSucceeds, StoreTypeOK
<1>5. CASE RestoreStatus(g)
  BY <1>0, <1>5, DoneTypes, <1>l, <1>r, <1>o DEF RestoreStatus, StoreTypeOK
<1> QED BY <1>1, <1>2, <1>3, <1>4, <1>5

\* The end of a loop ends the job, or starts the next loop of the boot.
LEMMA EndLoopTypes ==
  ASSUME StoreInv, NEW g \in Callers, NEW failed \in BOOLEAN, EndLoop(g, failed)
  PROVE  StoreTypeOK'
<1> USE DEF StoreInv
<1>0. JobTypeOK /\ LockTypeOK /\ ObjTypeOK /\ RestTypeOK
  BY DEF StoreTypeOK
<1>1. \/ \E s \in {"waiting", "dead", up} : Release(g, s)
      \/ \E op \in {"startAll", "abort"} : NextLoop(g, op)
  BY DEF EndLoop
<1>2. CASE \E s \in {"waiting", "dead", up} : Release(g, s)
  <2>1. PICK s \in {"waiting", "dead", up} : Release(g, s)
    BY <1>2
  <2>2. JobTypeOK'
    BY <1>0, <2>1, DoneTypes DEF Release
  <2>3. LockTypeOK'
    BY <1>0, <2>1 DEF EndLoop, Release, LockTypeOK
  <2>4. RestTypeOK' /\ ObjTypeOK'
    BY <1>0, <2>1 DEF EndLoop, Release, RestTypeOK, ObjTypeOK, objVars
  <2> QED BY <2>2, <2>3, <2>4 DEF StoreTypeOK
<1>3. CASE \E op \in {"startAll", "abort"} : NextLoop(g, op)
  <2>1. PICK op \in {"startAll", "abort"} : NextLoop(g, op)
    BY <1>3
  <2>2. Job(op, NoName, "rlock") \in Jobs
    BY JobTypes
  <2>3. JobTypeOK'
    BY <1>0, <2>1, <2>2, NewJobTypes DEF NextLoop, Job, AtFind
  <2>4. LockTypeOK'
    BY <1>0, <2>1 DEF EndLoop, NextLoop, LockTypeOK
  <2>5. RestTypeOK' /\ ObjTypeOK'
    BY <1>0, <2>1 DEF EndLoop, NextLoop, RestTypeOK, ObjTypeOK, objVars
  <2> QED BY <2>3, <2>4, <2>5 DEF StoreTypeOK
<1> QED BY <1>1, <1>2, <1>3

\* The steps of the loops over all services keep the types.
LEMMA LoopStepTypes ==
  ASSUME StoreInv, NEW g \in Callers,
         \/ LockManager(g) \/ EnterLoop(g) \/ CalledInLoop(g)
         \/ LoopFinishes(g) \/ CallFails(g) \/ BootstrapFails(g)
         \/ \E n \in Names : BootstrapService(g, n) \/ CallInLoop(g, n)
  PROVE  StoreTypeOK'
<1> USE DEF StoreInv
<1>0. JobTypeOK /\ LockTypeOK /\ ObjTypeOK /\ RestTypeOK
  BY DEF StoreTypeOK
<1>l. ASSUME UNCHANGED lockVars PROVE LockTypeOK'
  BY <1>0, <1>l DEF lockVars, LockTypeOK
<1>r. ASSUME UNCHANGED restVars PROVE RestTypeOK'
  BY <1>0, <1>r DEF restVars, RestTypeOK
<1>o. ASSUME UNCHANGED objVars PROVE ObjTypeOK'
  BY <1>0, <1>o DEF objVars, ObjTypeOK
<1>1. CASE LockManager(g)
  <2>1. JobTypeOK'
    BY <1>0, <1>1, MoveTypes DEF LockManager, AtFind
  <2>2. LockTypeOK' /\ RestTypeOK'
    BY <1>0, <1>1 DEF LockManager, LockTypeOK, RestTypeOK
  <2> QED BY <1>1, <2>1, <2>2, <1>o DEF LockManager, StoreTypeOK
<1>2. CASE EnterLoop(g)
  <2> DEFINE j == [job[g] EXCEPT !.pc = "loop", !.todo = Names]
  <2>1. j \in Jobs /\ j.pc \notin AtFind
    BY <1>0 DEF JobTypeOK, Jobs, AtFind
  <2>2. job' = [job EXCEPT ![g] = j]
    BY <1>0, <1>2 DEF EnterLoop, JobTypeOK
  <2> HIDE DEF j
  <2>3. JobTypeOK'
    BY <1>0, <2>1, <2>2, NewJobTypes
  <2>4. LockTypeOK'
    BY <1>0, <1>2 DEF EnterLoop, LockTypeOK
  <2> QED BY <1>2, <2>3, <2>4, <1>r, <1>o DEF EnterLoop, StoreTypeOK
<1>3. CASE CalledInLoop(g)
  <2>1. JobTypeOK'
    BY <1>0, <1>3, MoveTypes DEF CalledInLoop, AtFind
  <2> QED BY <1>3, <2>1, <1>l, <1>r, <1>o DEF CalledInLoop, StoreTypeOK
<1>4. CASE LoopFinishes(g) \/ CallFails(g)
  BY <1>4, EndLoopTypes DEF LoopFinishes, CallFails
<1>5. CASE BootstrapFails(g)
  BY <1>5, EndLoopTypes DEF BootstrapFails
<1>6. ASSUME NEW n \in Names, BootstrapService(g, n) PROVE StoreTypeOK'
  <2>1. JobTypeOK'
    BY <1>0, <1>6, TakeTypes DEF BootstrapService
  <2>2. PICK h \in 0 .. MaxHead : /\ head' = [head EXCEPT ![n] = h]
                                 /\ version' = [version EXCEPT ![list[n]] = h]
    BY <1>6 DEF BootstrapService
  <2>3. ObjTypeOK'
    BY <1>0, <1>6, <2>2 DEF BootstrapService, ObjTypeOK
  <2> QED BY <1>6, <2>1, <2>3, <1>l, <1>r DEF BootstrapService, StoreTypeOK
<1>7. ASSUME NEW n \in Names, CallInLoop(g, n) PROVE StoreTypeOK'
  <2>1. JobTypeOK'
    BY <1>0, <1>7, TakeTypes DEF CallInLoop
  <2>2. RestTypeOK'
    BY <1>0, <1>7 DEF CallInLoop, Observe, RestTypeOK, ObjTypeOK
  <2> QED BY <1>7, <2>1, <2>2, <1>l, <1>o DEF CallInLoop, StoreTypeOK
<1> QED BY <1>1, <1>2, <1>3, <1>4, <1>5, <1>6, <1>7

\* Requests, the interrupt and the observers keep the types.
LEMMA OtherStepTypes ==
  ASSUME StoreInv,
         \/ \E g \in Http \cup Mqtt, op \in Ops, n \in Names : Request(g, op, n)
         \/ Interrupt \/ Connect
         \/ \E c \in Cmds : Notice(c)
  PROVE  StoreTypeOK'
<1> USE DEF StoreInv
<1>0. JobTypeOK /\ LockTypeOK /\ ObjTypeOK /\ RestTypeOK
  BY DEF StoreTypeOK
<1>l. ASSUME UNCHANGED lockVars PROVE LockTypeOK'
  BY <1>0, <1>l DEF lockVars, LockTypeOK
<1>o. ASSUME UNCHANGED objVars PROVE ObjTypeOK'
  BY <1>0, <1>o DEF objVars, ObjTypeOK
<1>j. ASSUME UNCHANGED job PROVE JobTypeOK'
  BY <1>0, <1>j DEF JobTypeOK
<1>1. ASSUME NEW g \in Http \cup Mqtt, NEW op \in Ops, NEW n \in Names, Request(g, op, n)
      PROVE  StoreTypeOK'
  <2> DEFINE j == IF op = "stopAll" THEN Job(op, NoName, "pm") ELSE Job(op, n, "find")
  <2>1. Job(op, NoName, "pm") \in Jobs /\ Job(op, n, "find") \in Jobs
    BY JobTypes, StoreAssumption DEF AtFind
  <2>2. /\ j \in Jobs
        /\ j.pc \in AtFind => j.name \in Names
        /\ j.pc \in AtFind \ {"find"} => j.svc \in Cmds
    BY <2>1 DEF Job, AtFind
  <2>3. g \in Callers /\ job' = [job EXCEPT ![g] = j]
    BY <1>1, CallersAre DEF Request
  <2> HIDE DEF j
  <2>4. JobTypeOK'
    BY <1>0, <2>2, <2>3, NewJobTypes
  <2>5. RestTypeOK'
    BY <1>0, <1>1, StoreAssumption DEF Request, RestTypeOK
  <2> QED BY <1>1, <2>4, <2>5, <1>l, <1>o DEF Request, StoreTypeOK
<1>2. CASE Interrupt
  <2>1. Job("shutdown", NoName, "pm") \in Jobs
    BY JobTypes DEF AllOps
  <2>2. JobTypeOK'
    <3>1. CASE UNCHANGED job
      BY <3>1, <1>j
    <3>2. CASE job' = [job EXCEPT ![Main] = Job("shutdown", NoName, "pm")]
      BY <1>0, <2>1, <3>2, CallersAre, NewJobTypes DEF Job, AtFind
    <3> QED BY <1>2, <3>1, <3>2 DEF Interrupt
  <2>3. RestTypeOK'
    BY <1>0, <1>2 DEF Interrupt, RestTypeOK
  <2> QED BY <1>2, <2>2, <2>3, <1>l, <1>o DEF Interrupt, StoreTypeOK
<1>3. ASSUME NEW c \in Cmds, Notice(c) PROVE StoreTypeOK'
  <2>1. RestTypeOK'
    BY <1>0, <1>3 DEF Notice, Observe, RestTypeOK
  <2> QED BY <1>3, <2>1, <1>l, <1>o, <1>j DEF Notice, StoreTypeOK
<1>4. CASE Connect
  <2>1. RestTypeOK'
    BY <1>0, <1>4 DEF Connect, RestTypeOK
  <2> QED BY <1>4, <2>1, <1>l, <1>o, <1>j DEF Connect, StoreTypeOK
<1> QED BY <1>1, <1>2, <1>3, <1>4

LEMMA StoreNextInv == StoreInv /\ [Next]_vars => StoreInv'
<1> SUFFICES ASSUME StoreInv, [Next]_vars PROVE StoreInv'
  OBVIOUS
<1>0. CmdInv'
  BY NextCommand, StepInv DEF StoreInv
<1>1. ASSUME UNCHANGED storeVars PROVE StoreTypeOK'
  BY <1>1 DEF storeVars, objVars, lockVars, restVars, StoreInv, StoreTypeOK,
              ObjTypeOK, LockTypeOK, RestTypeOK, JobTypeOK
<1>2. ASSUME NEW g \in Callers, GoStep(g) PROVE StoreTypeOK'
  BY <1>1, <1>2, RequestStepTypes, UpdateStepTypes, LoopStepTypes DEF GoStep, StoreStep
<1>3. ASSUME NEW c \in Cmds, WaitStep(c) \/ ExitStep(c) PROVE StoreTypeOK'
  BY <1>1, <1>3, OtherStepTypes DEF WaitStep, ExitStep
<1>4. ASSUME NEW g \in Http \cup Mqtt, NEW op \in Ops, NEW n \in Names, Request(g, op, n)
      PROVE  StoreTypeOK'
  BY <1>4, OtherStepTypes
<1>5. ASSUME Interrupt \/ Connect PROVE StoreTypeOK'
  BY <1>5, OtherStepTypes
<1>6. ASSUME UNCHANGED vars PROVE StoreTypeOK'
  BY <1>1, <1>6 DEF vars
<1>7. StoreTypeOK'
  BY <1>2, <1>3, <1>4, <1>5, <1>6 DEF Next
<1> QED BY <1>0, <1>7 DEF StoreInv

-----------------------------------------------------------------------------
\* The types of the store hold from the start of the operator on.
THEOREM StoreTypeCorrect == Spec => [](CmdTypeOK /\ StoreTypeOK)
<1>1. StoreInv => CmdTypeOK /\ StoreTypeOK
  BY DEF StoreInv, CmdInv
<1> QED BY <1>1, StoreInitInv, StoreNextInv, PTL DEF Spec

\* The store drives its commands only through the calls of module Command
\* (services.go:57-64, 216-227, 251-265, 298-315).
THEOREM StoreImplementsCommand == Spec => ImplementsCommand
<1>1. Init => CmdInit
  BY DEF Init
<1> QED BY <1>1, StoreInitInv, StoreNextInv, NextCommand, PTL
        DEF Spec, ImplementsCommand, CmdSpec

\* So in the whole store, with any number of requests at once, no waiter blocks
\* and a Stop that sent its signal returns only after the process was reaped,
THEOREM StoreStopsWaitForExit == Spec => []WaiterNeverBlocks /\ StopReturnsAfterExit
  BY StoreImplementsCommand, WaiterIsNeverBlocked, StopWaitsForExit, PTL DEF ImplementsCommand

\* and each of its commands is a one-shot command.
THEOREM StoreCommandsAreOneShot == Spec => ImplementsOneShot
  BY StoreImplementsCommand, CommandIsOneShot, PTL DEF ImplementsCommand

-----------------------------------------------------------------------------
\* Where a goroutine can be in Start and in Stop (command.go:129-187),
InStart == {"start", "forked", "nil", "err"}
InStop == {"stop", "signal", "mark", "recv", "nil", "err"}
\* and the jobs that are loops over the list, those of the boot first
\* (process_manager.go:26-66).
BootOps == {"bootstrap", "startAll", "abort"}
Loops == BootOps \cup {"stopAll", "shutdown"}
LoopPcs == {"pm", "rlock", "loop", "looping"}
\* The places of a request that has its command.
Found == AtFind \ {"find"}

\* Which job has which steps.
JobInOrder(g) == LET j == job[g] IN
  /\ j.op = "none" => j = Idle
  /\ j.pc = "idle" => j.op = "none"
  /\ g = Main => j.op \in BootOps \cup {"none", "shutdown"}
  /\ g # Main => j.op \in {"none", "start", "stop", "restart", "update", "stopAll"}
  /\ j.op \in Loops <=> j.pc \in LoopPcs
  /\ j.op \in Loops => j.name = NoName
  /\ j.pc = "status" => j.op \in {"start", "update"}
  /\ j.pc \in {"lock", "fetch", "restore"} => j.op = "update"
  /\ j.pc \in {"stop", "stopping"} => j.op # "start"
  /\ j.pc \in {"save", "commit", "launch", "starting"} => j.op # "stop"

\* Which of its steps are inside a Start or a Stop, and of which command.
CallInOrder(g) == LET j == job[g] IN
  /\ at[g] = "out" => target[g] = NoCmd
  /\ j.pc \notin {"starting", "stopping", "looping"} => at[g] = "out"
  /\ j.pc = "starting" => at[g] \in InStart /\ target[g] = j.svc
  /\ j.pc = "stopping" => at[g] \in InStop /\ target[g] = j.svc
  /\ j.pc = "looping" => /\ j.op = "startAll" => at[g] \in InStart
                         /\ j.op # "startAll" => at[g] \in InStop /\ j.op # "bootstrap"
                         /\ \E n \in Names \ j.todo : target[g] = list[n]

\* Which mutexes it holds: LocksHeld, for one goroutine.
LocksOf(g) ==
  /\ pm = g <=> job[g].pc \in {"rlock", "loop", "looping"}
  /\ g \in readers <=> job[g].pc \in {"loop", "looping"}
  /\ writer = g <=> job[g].pc = "commit"
  /\ \A c \in Cmds : lock[c] = g <=> job[g].pc = "fetch" /\ job[g].svc = c

\* main is in its boot exactly while the operator is booting.
Booting == up = "booting" <=> job[Main].op \in BootOps

\* Where every goroutine is, taken together: the inductive invariant of LocksHeld.
InOrder(g) == JobInOrder(g) /\ CallInOrder(g) /\ LocksOf(g)

PlaceInv == StoreInv /\ Booting /\ \A g \in Callers : InOrder(g)

\* What the helpers of the store change in the job of one goroutine.
LEMMA MoveEffect ==
  ASSUME JobTypeOK, NEW g \in Callers, NEW pc, Move(g, pc)
  PROVE  /\ job'[g].pc = pc /\ job'[g].op = job[g].op /\ job'[g].name = job[g].name
         /\ job'[g].svc = job[g].svc /\ job'[g].old = job[g].old /\ job'[g].todo = job[g].todo
         /\ \A h \in Callers \ {g} : job'[h] = job[h]
  BY DEF Move, JobTypeOK, Jobs

LEMMA TakeEffect ==
  ASSUME JobTypeOK, NEW g \in Callers, NEW n, NEW pc, Take(g, n, pc)
  PROVE  /\ job'[g].pc = pc /\ job'[g].op = job[g].op /\ job'[g].name = job[g].name
         /\ job'[g].svc = job[g].svc /\ job'[g].old = job[g].old
         /\ n \in job[g].todo /\ job'[g].todo = job[g].todo \ {n}
         /\ \A h \in Callers \ {g} : job'[h] = job[h]
  BY DEF Take, JobTypeOK, Jobs

LEMMA CloneEffect ==
  ASSUME JobTypeOK, NEW g \in Callers, Clone(g)
  PROVE  /\ job'[g].pc = "save" /\ job'[g].op = job[g].op /\ job'[g].name = job[g].name
         /\ job'[g].svc \in Cmds /\ owner[job'[g].svc] = NoName
         /\ job'[g].svc \in Foreign <=> job[g].svc \in Foreign
         /\ owner' = [owner EXCEPT ![job'[g].svc] = job[g].name]
         /\ \A h \in Callers \ {g} : job'[h] = job[h]
<1> DEFINE new == CHOOSE d \in Unused(job[g].svc) : TRUE
<1>1. new \in Unused(job[g].svc)
  BY CloneIsUnused DEF Clone
<1>2. /\ owner' = [owner EXCEPT ![new] = job[g].name]
      /\ job' = [job EXCEPT ![g].svc = new, ![g].pc = "save"]
  BY DEF Clone
<1> HIDE DEF new
<1> QED BY <1>1, <1>2 DEF Unused, JobTypeOK, Jobs

\* An update that takes the mutex of its service goes on to git.
LEMMA LockEffect ==
  ASSUME JobTypeOK, NEW g \in Callers, LockService(g)
  PROVE  /\ job'[g].pc = "fetch" /\ job'[g].op = job[g].op /\ job'[g].name = job[g].name
         /\ job'[g].svc = job[g].svc /\ job'[g].old = job[g].old /\ job'[g].todo = job[g].todo
         /\ \A h \in Callers \ {g} : job'[h] = job[h]
<1>1. PICK oldest : job' = [job EXCEPT ![g].from = oldest, ![g].pc = "fetch"]
  BY DEF LockService
<1> QED BY <1>1 DEF JobTypeOK, Jobs

\* A job that begins or ends is that of one goroutine.
LEMMA NewJobEffect ==
  ASSUME JobTypeOK, NEW g \in Callers, NEW j, job' = [job EXCEPT ![g] = j]
  PROVE  job'[g] = j /\ \A h \in Callers \ {g} : job'[h] = job[h]
  BY DEF JobTypeOK

\* A Call, a Leave and a step inside of a call are of one goroutine.
LEMMA CallEffect ==
  ASSUME CmdTypeOK, NEW g \in Callers, NEW m, NEW c, Call(g, m, c)
  PROVE  /\ at[g] = "out" /\ at'[g] = m /\ target'[g] = c
         /\ \A h \in Callers \ {g} : at'[h] = at[h] /\ target'[h] = target[h]
  BY DEF Call, CmdTypeOK

\* The end of a call,
LEMMA LeaveEffect ==
  ASSUME CmdTypeOK, NEW g \in Callers, Leave(g)
  PROVE  /\ at[g] \in {"nil", "err"} /\ at'[g] = "out" /\ target'[g] = NoCmd
         /\ \A h \in Callers \ {g} : at'[h] = at[h] /\ target'[h] = target[h]
         /\ UNCHANGED procVars
  BY DEF Leave, Return, CmdTypeOK

\* and a step inside of it.
LEMMA CallStepEffect ==
  ASSUME CmdTypeOK, NEW g \in Callers, CallStep(g)
  PROVE  /\ target' = target /\ target[g] \in Cmds
         /\ \A h \in Callers \ {g} : at'[h] = at[h]
         /\ \/ at[g] = "start" /\ at'[g] \in {"forked", "err"}
            \/ at[g] = "forked" /\ at'[g] = "nil"
            \/ at[g] = "stop" /\ at'[g] \in {"nil", "err", "signal"}
            \/ at[g] = "signal" /\ at'[g] \in {"mark", "err"}
            \/ at[g] = "mark" /\ at'[g] = "recv"
            \/ at[g] = "recv" /\ at'[g] \in {"nil", "err"}
  BY DEF CmdTypeOK, CallStep, StartFails, StartForks, MarkRunning, StopChecks,
         SignalFails, Signal, MarkStopped, RecvExit, Goto

-----------------------------------------------------------------------------
\* A step of g leaves what the others have alone.
LEMMA OthersInOrder ==
  ASSUME PlaceInv, NEW h \in Callers,
         job'[h] = job[h], at'[h] = at[h], target'[h] = target[h],
         pm' = h <=> pm = h, writer' = h <=> writer = h, h \in readers' <=> h \in readers,
         \A c \in Cmds : lock'[c] = h <=> lock[c] = h,
         list' = list \/ readers = {}
  PROVE  InOrder(h)'
<1>0. InOrder(h)
  BY DEF PlaceInv
<1>1. JobInOrder(h)' /\ LocksOf(h)'
  BY <1>0 DEF InOrder, JobInOrder, LocksOf, Idle, Job
<1>2. job[h].pc = "looping" => list' = list
  BY <1>0 DEF InOrder, LocksOf
<1>3. CallInOrder(h)'
  BY <1>0, <1>2 DEF InOrder, CallInOrder
<1> QED BY <1>1, <1>3 DEF InOrder

\* So a step of one goroutine takes nobody else out of order.
LEMMA StepLeavesOthers ==
  ASSUME PlaceInv, NEW g \in Callers, StoreStep(g), NEW h \in Callers \ {g}
  PROVE  InOrder(h)'
<1>0. CmdTypeOK /\ JobTypeOK /\ LockTypeOK /\ Nobody \notin Callers
  BY StoreAssumption DEF PlaceInv, StoreInv, CmdInv, StoreTypeOK
<1>1. job'[h] = job[h]
  <2>1. \E j : job' = [job EXCEPT ![g] = j]
    BY DEF StoreStep, Find, CheckStatus, Clone, AnnounceSave, CommitSave, Launch, Launched, StopOld,
           StoppedOld, ReadOldStatus, LockService, FetchFails, FetchSucceeds, RestoreStatus,
           LockManager, EnterLoop, CalledInLoop, LoopFinishes, CallFails, BootstrapFails,
           BootstrapService, CallInLoop, Take, EndLoop, Release, NextLoop, Move, Done
  <2> QED BY <1>0, <2>1, NewJobEffect
<1>2. at'[h] = at[h] /\ target'[h] = target[h]
  <2>1. \/ UNCHANGED callVars
        \/ Leave(g)
        \/ \E m, c : Call(g, m, c)
    BY DEF StoreStep, Find, CheckStatus, AnnounceSave, CommitSave, Launch, Launched, StopOld,
           StoppedOld, ReadOldStatus, LockService, FetchFails, FetchSucceeds, RestoreStatus,
           LockManager, EnterLoop, CalledInLoop, LoopFinishes, CallFails, BootstrapFails,
           BootstrapService, CallInLoop, cmdVars
  <2> QED BY <1>0, <2>1, CallEffect, LeaveEffect DEF callVars
<1>3. /\ pm' = h <=> pm = h
      /\ writer' = h <=> writer = h
      /\ h \in readers' <=> h \in readers
      /\ \A c \in Cmds : lock'[c] = h <=> lock[c] = h
  <2> USE <1>0 DEF lockVars
  <2>1. CASE UNCHANGED lockVars
    BY <2>1
  <2>2. CASE AnnounceSave(g) \/ CommitSave(g)
    BY <2>2 DEF PlaceInv, InOrder, LocksOf, AnnounceSave, CommitSave
  <2>3. CASE LockService(g)
    BY <2>3 DEF LockService, LockTypeOK
  <2>4. CASE FetchFails(g) \/ FetchSucceeds(g)
    <3>1. /\ lock' = [lock EXCEPT ![job[g].svc] = Nobody] /\ job[g].pc = "fetch"
          /\ UNCHANGED <<pm, writer, readers>> /\ job[g].svc \in Cmds
      BY <2>4 DEF FetchFails, FetchSucceeds, JobTypeOK, AtFind
    <3>2. lock[job[g].svc] = g
      BY <3>1 DEF PlaceInv, InOrder, LocksOf
    <3> QED BY <3>1, <3>2 DEF LockTypeOK
  <2>5. CASE LockManager(g) \/ EnterLoop(g)
    BY <2>5 DEF LockManager, EnterLoop
  <2>6. CASE LoopFinishes(g) \/ CallFails(g) \/ BootstrapFails(g)
    <3>1. /\ job[g].pc \in {"loop", "looping"} /\ (pm' = pm \/ pm' = Nobody)
          /\ readers' = readers \ {g} /\ UNCHANGED <<lock, writer>>
      BY <2>6 DEF LoopFinishes, CallFails, BootstrapFails, At, EndLoop, Release, NextLoop
    <3>2. pm = g
      BY <3>1 DEF PlaceInv, InOrder, LocksOf
    <3> QED BY <3>1, <3>2
  <2> QED BY <2>1, <2>2, <2>3, <2>4, <2>5, <2>6
          DEF StoreStep, Find, CheckStatus, Launch, Launched, StopOld, StoppedOld, ReadOldStatus,
              RestoreStatus, CalledInLoop, BootstrapService, CallInLoop
<1>4. list' = list \/ readers = {}
  BY DEF StoreStep, Find, CheckStatus, AnnounceSave, CommitSave, Launch, Launched, StopOld,
         StoppedOld, ReadOldStatus, LockService, FetchFails, FetchSucceeds, RestoreStatus,
         LockManager, EnterLoop, CalledInLoop, LoopFinishes, CallFails, BootstrapFails,
         BootstrapService, CallInLoop, EndLoop, objVars
<1> QED BY <1>1, <1>2, <1>3, <1>4, OthersInOrder

\* What a step of g does to the place of g itself: a request on one service...
LEMMA RequestStepOrder ==
  ASSUME PlaceInv, NEW g \in Callers,
         \/ Find(g) \/ CheckStatus(g) \/ AnnounceSave(g) \/ CommitSave(g)
         \/ Launch(g) \/ Launched(g) \/ StopOld(g) \/ StoppedOld(g)
  PROVE  InOrder(g)'
<1>0. /\ CmdTypeOK /\ JobTypeOK /\ LockTypeOK /\ Nobody \notin Callers /\ InOrder(g)
  BY StoreAssumption DEF PlaceInv, StoreInv, CmdInv, StoreTypeOK
<1>n. job[g].op = "none" => job[g].pc = "idle"
  BY <1>0 DEF InOrder, JobInOrder, Idle, Job
<1> USE <1>n DEF InOrder, JobInOrder, CallInOrder, LocksOf, LoopPcs, InStart, InStop, Loops, BootOps
<1>c. ASSUME UNCHANGED cmdVars PROVE at' = at /\ target' = target
  BY <1>c DEF cmdVars, callVars
<1>l. ASSUME UNCHANGED lockVars PROVE UNCHANGED <<lock, readers, writer, pm>>
  BY <1>l DEF lockVars
<1>1. CASE Find(g)
  <2>1. /\ job'[g].pc = IF job[g].op \in {"start", "update"} THEN "status" ELSE "stop"
        /\ job'[g].op = job[g].op /\ job'[g].name = job[g].name
    BY <1>0, <1>1 DEF Find, JobTypeOK, Jobs
  <2>2. /\ at' = at /\ target' = target /\ UNCHANGED <<lock, readers, writer, pm>>
        /\ job[g].pc = "find"
    BY <1>1, <1>c, <1>l DEF Find
  <2>3. JobInOrder(g)'
    BY <1>0, <2>1, <2>2
  <2>4. CallInOrder(g)' /\ LocksOf(g)'
    BY <1>0, <2>1, <2>2
  <2> QED BY <2>3, <2>4
<1>2. CASE CheckStatus(g)
  <2>1. CASE Clone(g)
    BY <1>0, <1>2, <1>c, <1>l, <2>1, CloneEffect DEF CheckStatus, At
  <2>2. CASE Move(g, "launch")
    BY <1>0, <1>2, <1>c, <1>l, <2>2, MoveEffect DEF CheckStatus, At
  <2> QED BY <1>2, <2>1, <2>2 DEF CheckStatus
<1>3. CASE AnnounceSave(g)
  BY <1>0, <1>3, <1>c, MoveEffect DEF AnnounceSave
<1>4. CASE CommitSave(g)
  BY <1>0, <1>4, <1>c, MoveEffect DEF CommitSave
<1>5. CASE Launch(g)
  BY <1>0, <1>5, <1>l, MoveEffect, CallEffect DEF Launch
<1>6. CASE Launched(g)
  <2>1. job'[g] = Idle
    BY <1>0, <1>6, NewJobEffect DEF Launched, Done
  <2> QED BY <1>0, <1>6, <1>l, <2>1, LeaveEffect DEF Launched, Idle, Job
<1>7. CASE StopOld(g)
  BY <1>0, <1>7, <1>l, MoveEffect, CallEffect DEF StopOld
<1>8. CASE StoppedOld(g)
  <2>1. CASE Clone(g) /\ job[g].op # "stop"
    BY <1>0, <1>8, <1>l, <2>1, CloneEffect, LeaveEffect DEF StoppedOld
  <2>2. CASE Done(g)
    <3>1. job'[g] = Idle
      BY <1>0, <2>2, NewJobEffect DEF Done
    <3> QED BY <1>0, <1>8, <1>l, <3>1, LeaveEffect DEF StoppedOld, Idle, Job
  <2> QED BY <1>8, <2>1, <2>2 DEF StoppedOld
<1> QED BY <1>1, <1>2, <1>3, <1>4, <1>5, <1>6, <1>7, <1>8

\* ... the update of one,
LEMMA UpdateStepOrder ==
  ASSUME PlaceInv, NEW g \in Callers,
         ReadOldStatus(g) \/ LockService(g) \/ FetchFails(g) \/ FetchSucceeds(g) \/ RestoreStatus(g)
  PROVE  InOrder(g)'
<1>0. /\ CmdTypeOK /\ JobTypeOK /\ LockTypeOK /\ Nobody \notin Callers /\ InOrder(g)
      /\ job[g].pc \in Found => job[g].svc \in Cmds
  BY StoreAssumption DEF PlaceInv, StoreInv, CmdInv, StoreTypeOK, JobTypeOK, Found
<1> USE DEF InOrder, JobInOrder, CallInOrder, LocksOf, LoopPcs, InStart, InStop, Loops, BootOps
<1>c. ASSUME UNCHANGED callVars PROVE at' = at /\ target' = target
  BY <1>c DEF callVars
<1>1. CASE ReadOldStatus(g)
  <2>1. job'[g].pc = "lock" /\ job'[g].op = job[g].op /\ job'[g].name = job[g].name
    BY <1>0, <1>1 DEF ReadOldStatus, JobTypeOK, Jobs
  <2> QED BY <1>0, <1>1, <1>c, <2>1 DEF ReadOldStatus, At, cmdVars, lockVars
<1>2. CASE LockService(g)
  BY <1>0, <1>2, <1>c, LockEffect DEF LockService, LockTypeOK, Found, AtFind
<1>3. CASE FetchFails(g)
  BY <1>0, <1>3, <1>c, MoveEffect DEF FetchFails, LockTypeOK, Found, AtFind, cmdVars
<1>4. CASE FetchSucceeds(g)
  <2>1. PICK pc \in {"stop", "restore"} : Move(g, pc)
    BY <1>4 DEF FetchSucceeds
  <2> QED BY <1>0, <1>4, <1>c, <2>1, MoveEffect DEF FetchSucceeds, LockTypeOK, Found, AtFind, cmdVars
<1>5. CASE RestoreStatus(g)
  <2>1. job'[g] = Idle
    BY <1>0, <1>5, NewJobEffect DEF RestoreStatus, Done
  <2> QED BY <1>0, <1>5, <1>c, <2>1 DEF RestoreStatus, Idle, Job, lockVars
<1> QED BY <1>1, <1>2, <1>3, <1>4, <1>5

\* ... and the loops over all of them.
LEMMA LoopStepOrder ==
  ASSUME PlaceInv, NEW g \in Callers,
         \/ LockManager(g) \/ EnterLoop(g) \/ CalledInLoop(g)
         \/ LoopFinishes(g) \/ CallFails(g) \/ BootstrapFails(g)
         \/ \E n \in Names : BootstrapService(g, n) \/ CallInLoop(g, n)
  PROVE  InOrder(g)'
<1>0. /\ CmdTypeOK /\ JobTypeOK /\ LockTypeOK /\ Nobody \notin Callers /\ InOrder(g)
  BY StoreAssumption DEF PlaceInv, StoreInv, CmdInv, StoreTypeOK
<1> USE DEF InOrder, JobInOrder, CallInOrder, LocksOf, LoopPcs, InStart, InStop, Loops, BootOps
<1>c. ASSUME UNCHANGED cmdVars PROVE at' = at /\ target' = target
  BY <1>c DEF cmdVars, callVars
<1>l. ASSUME UNCHANGED lockVars PROVE UNCHANGED <<lock, readers, writer, pm>>
  BY <1>l DEF lockVars
<1>1. CASE LockManager(g)
  BY <1>0, <1>1, <1>c, MoveEffect DEF LockManager
<1>2. CASE EnterLoop(g)
  <2>1. job'[g].pc = "loop" /\ job'[g].op = job[g].op /\ job'[g].name = job[g].name
    BY <1>0, <1>2 DEF EnterLoop, JobTypeOK, Jobs
  <2> QED BY <1>0, <1>2, <1>c, <2>1 DEF EnterLoop
<1>3. CASE CalledInLoop(g)
  BY <1>0, <1>3, <1>l, MoveEffect, LeaveEffect DEF CalledInLoop
<1>4. CASE LoopFinishes(g) \/ CallFails(g) \/ BootstrapFails(g)
  <2>1. /\ job[g].pc \in {"loop", "looping"} /\ readers' = readers \ {g}
        /\ UNCHANGED <<lock, writer>>
        /\ \E failed \in BOOLEAN : EndLoop(g, failed)
    BY <1>4 DEF LoopFinishes, CallFails, BootstrapFails, At, EndLoop
  <2>2. at'[g] = "out" /\ target'[g] = NoCmd
    BY <1>0, <1>4, <1>c, LeaveEffect DEF LoopFinishes, CallFails, BootstrapFails, At
  <2>3. CASE \E s : Release(g, s)
    <3>1. job'[g] = Idle /\ pm' = Nobody
      BY <1>0, <2>3, NewJobEffect DEF Release, Done
    <3> QED BY <1>0, <2>1, <2>2, <3>1 DEF Idle, Job
  <2>4. CASE g = Main /\ \E op \in {"startAll", "abort"} : NextLoop(g, op)
    <3>1. PICK op \in {"startAll", "abort"} : NextLoop(g, op)
      BY <2>4
    <3>2. job'[g] = Job(op, NoName, "rlock") /\ pm' = pm
      BY <1>0, <3>1, NewJobEffect DEF NextLoop
    <3> QED BY <1>0, <2>1, <2>2, <2>4, <3>2 DEF Job
  <2> QED BY <1>0, <2>1, <2>3, <2>4 DEF EndLoop
<1>5. ASSUME NEW n \in Names, BootstrapService(g, n) PROVE InOrder(g)'
  BY <1>0, <1>5, <1>c, <1>l, TakeEffect DEF BootstrapService, At
<1>6. ASSUME NEW n \in Names, CallInLoop(g, n) PROVE InOrder(g)'
  <2>1. /\ job'[g].pc = "looping" /\ job'[g].op = job[g].op /\ job'[g].name = job[g].name
        /\ n \in Names \ job'[g].todo /\ job[g].pc = "loop" /\ job[g].op # "bootstrap"
    BY <1>0, <1>6, TakeEffect DEF CallInLoop, At
  <2>2. at'[g] = (IF job[g].op = "startAll" THEN "start" ELSE "stop") /\ target'[g] = list[n]
    BY <1>0, <1>6, CallEffect DEF CallInLoop
  <2> QED BY <1>0, <1>6, <1>l, <2>1, <2>2 DEF CallInLoop, objVars
<1> QED BY <1>1, <1>2, <1>3, <1>4, <1>5, <1>6

\* The operator boots as long as main is in one of the loops of the boot.
LEMMA BootStep ==
  ASSUME PlaceInv, NEW g \in Callers, StoreStep(g)
  PROVE  Booting'
<1>0. /\ Booting /\ JobTypeOK /\ InOrder(g) /\ Main \in Callers
  BY CallersAre DEF PlaceInv, StoreInv, StoreTypeOK
<1> USE DEF Booting, BootOps
<1>1. CASE UNCHANGED up /\ job'[Main].op = job[Main].op
  BY <1>0, <1>1
<1>2. CASE LoopFinishes(g) \/ CallFails(g) \/ BootstrapFails(g)
  <2>1. PICK failed \in BOOLEAN : EndLoop(g, failed)
    BY <1>2 DEF LoopFinishes, CallFails, BootstrapFails
  <2>2. ASSUME NEW s, Release(g, s) PROVE up' = s /\ job'[g] = Idle /\ (g # Main => job'[Main] = job[Main])
    BY <1>0, <2>2, NewJobEffect DEF Release, Done
  <2>3. ASSUME NEW op, NextLoop(g, op)
        PROVE  up' = up /\ job'[g].op = op /\ (g # Main => job'[Main] = job[Main])
    <3>1. job'[g] = Job(op, NoName, "rlock") /\ (g # Main => job'[Main] = job[Main])
      BY <1>0, <2>3, NewJobEffect DEF NextLoop
    <3> QED BY <2>3, <3>1 DEF NextLoop, Job
  <2>4. CASE g = Main
    <3>1. job[g].op \in {"bootstrap", "startAll", "abort", "shutdown"}
      BY <1>0, <2>1, <2>4 DEF EndLoop, InOrder, JobInOrder
    <3>2. \/ \E s \in {"waiting", "dead"} : Release(g, s)
          \/ job[g].op \in BootOps /\ \E op \in {"startAll", "abort"} : NextLoop(g, op)
      BY <2>1, <3>1 DEF EndLoop
    <3> QED BY <1>0, <2>2, <2>3, <2>4, <3>2 DEF Idle, Job
  <2>5. CASE g # Main
    <3>1. job[g].op = "stopAll" /\ Release(g, up)
      BY <1>0, <2>1, <2>5 DEF EndLoop, InOrder, JobInOrder
    <3> QED BY <1>0, <2>2, <2>5, <3>1
  <2> QED BY <2>4, <2>5
<1>3. CASE LockManager(g)
  BY <1>0, <1>3, MoveEffect DEF LockManager
<1>4. CASE g # Main /\ UNCHANGED up
  <2>1. \E j : job' = [job EXCEPT ![g] = j]
    BY DEF StoreStep, Find, CheckStatus, Clone, AnnounceSave, CommitSave, Launch, Launched, StopOld,
           StoppedOld, ReadOldStatus, LockService, FetchFails, FetchSucceeds, RestoreStatus,
           LockManager, EnterLoop, CalledInLoop, LoopFinishes, CallFails, BootstrapFails,
           BootstrapService, CallInLoop, Take, EndLoop, Release, NextLoop, Move, Done
  <2> QED BY <1>0, <1>1, <1>4, <2>1, NewJobEffect
<1>5. CASE EnterLoop(g) \/ CalledInLoop(g)
  BY <1>0, <1>1, <1>5, MoveEffect DEF EnterLoop, CalledInLoop, JobTypeOK, Jobs, restVars
<1>6. ASSUME NEW n \in Names, BootstrapService(g, n) \/ CallInLoop(g, n) PROVE Booting'
  BY <1>0, <1>1, <1>6, TakeEffect DEF BootstrapService, CallInLoop, restVars
<1>7. CASE /\ job[g].pc \in AtFind /\ UNCHANGED up
  BY <1>0, <1>4, <1>7 DEF InOrder, JobInOrder, AtFind, Loops, LoopPcs, Idle, Job
<1> QED BY <1>2, <1>3, <1>5, <1>6, <1>7
        DEF StoreStep, Find, CheckStatus, AnnounceSave, CommitSave, Launch, Launched, StopOld,
            StoppedOld, ReadOldStatus, LockService, FetchFails, FetchSucceeds, RestoreStatus,
            At, AtFind, restVars

\* The steps inside of a call, of the processes and of their observers,
LEMMA CallOrder ==
  ASSUME PlaceInv, NEW g \in Callers, CallStep(g), UNCHANGED storeVars, NEW h \in Callers
  PROVE  InOrder(h)'
<1>0. CmdTypeOK /\ InOrder(h)
  BY DEF PlaceInv, StoreInv, CmdInv
<1>1. job' = job /\ pm' = pm /\ writer' = writer /\ readers' = readers /\ lock' = lock /\ list' = list
  BY DEF storeVars, lockVars, objVars
<1>2. CASE h # g
  BY <1>0, <1>1, <1>2, CallStepEffect, OthersInOrder
<1>3. CASE h = g
  <2>1. JobInOrder(h)' /\ LocksOf(h)'
    BY <1>0, <1>1 DEF InOrder, JobInOrder, LocksOf, Idle, Job
  <2>2. CallInOrder(h)'
    BY <1>0, <1>1, <1>3, CallStepEffect DEF InOrder, CallInOrder, InStart, InStop
  <2> QED BY <2>1, <2>2 DEF InOrder
<1> QED BY <1>2, <1>3

\* The end of a process and what is sent about it keep the order,
LEMMA QuietOrder ==
  ASSUME PlaceInv, UNCHANGED <<callVars, objVars, lockVars, job, up>>
  PROVE  Booting' /\ \A h \in Callers : InOrder(h)'
<1>1. at' = at /\ target' = target
  BY DEF callVars
<1>2. pm' = pm /\ writer' = writer /\ readers' = readers /\ lock' = lock /\ list' = list
  BY DEF lockVars, objVars
<1>3. ASSUME NEW h \in Callers PROVE InOrder(h)'
  BY <1>1, <1>2, OthersInOrder
<1> QED BY <1>3 DEF PlaceInv, Booting

\* and the beginning of a request and of the shutdown.
LEMMA NewJobOrder ==
  ASSUME PlaceInv, NEW g \in Callers, job[g] = Idle,
         UNCHANGED <<callVars, objVars, lockVars>>,
         NEW op, NEW n, NEW pc, job' = [job EXCEPT ![g] = Job(op, n, pc)],
         op \in Loops => n = NoName /\ pc = "pm",
         op \notin Loops => pc = "find" /\ op \in {"start", "stop", "restart", "update"},
         g = Main => op = "shutdown", g # Main => op \in {"start", "stop", "restart", "update", "stopAll"},
         NEW h \in Callers
  PROVE  InOrder(h)'
<1>0. JobTypeOK /\ InOrder(h)
  BY DEF PlaceInv, StoreInv, StoreTypeOK
<1>1. at' = at /\ target' = target /\ list' = list
  BY DEF callVars, objVars
<1>2. pm' = pm /\ writer' = writer /\ readers' = readers /\ lock' = lock
  BY DEF lockVars
<1>3. CASE h # g
  BY <1>0, <1>1, <1>2, <1>3, NewJobEffect, OthersInOrder
<1>4. CASE h = g
  <2>1. job[g].pc = "idle"
    BY DEF Idle, Job
  <2>2. job'[g].op = op /\ job'[g].pc = pc /\ job'[g].name = n
    <3>1. job'[g] = Job(op, n, pc)
      BY <1>0, NewJobEffect
    <3> QED BY <3>1 DEF Job
  <2>3. JobInOrder(h)'
    BY <1>4, <2>2 DEF JobInOrder, Loops, LoopPcs, BootOps
  <2>4. CallInOrder(h)' /\ LocksOf(h)'
    BY <1>0, <1>1, <1>2, <1>4, <2>1, <2>2 DEF InOrder, CallInOrder, LocksOf
  <2> QED BY <2>3, <2>4 DEF InOrder
<1> QED BY <1>3, <1>4

\* Every step keeps the order,
LEMMA PlaceNext == PlaceInv /\ [Next]_vars => PlaceInv'
<1> SUFFICES ASSUME PlaceInv, [Next]_vars PROVE PlaceInv'
  OBVIOUS
<1>0. StoreInv' /\ JobTypeOK /\ Booting
  BY StoreNextInv DEF PlaceInv, StoreInv, StoreTypeOK
<1> DEFINE Goal == Booting' /\ \A h \in Callers : InOrder(h)'
<1>1. ASSUME NEW g \in Callers, StoreStep(g) PROVE Goal
  <2>1. InOrder(g)'
    BY <1>1, RequestStepOrder, UpdateStepOrder, LoopStepOrder DEF StoreStep
  <2> QED BY <1>1, <2>1, StepLeavesOthers, BootStep
<1>2. ASSUME NEW g \in Callers, CallStep(g), UNCHANGED storeVars PROVE Goal
  BY <1>0, <1>2, CallOrder DEF storeVars, restVars, Booting
<1>3. ASSUME NEW c \in Cmds, WaitStep(c) \/ ExitStep(c) PROVE Goal
  BY <1>3, QuietOrder DEF WaitStep, ExitStep, Notice, storeVars, restVars
<1>4. ASSUME NEW g \in Http \cup Mqtt, NEW op \in Ops, NEW n \in Names, Request(g, op, n)
      PROVE  Goal
  <2>1. g \in Callers /\ g # Main /\ op \in {"start", "stop", "restart", "update", "stopAll"}
    BY <1>4, StoreAssumption DEF Request, AllOps
  <2>2. \A h \in Callers : InOrder(h)'
    <3>1. CASE op = "stopAll"
      BY <1>4, <2>1, <3>1, NewJobOrder DEF Request, Loops, BootOps, cmdVars
    <3>2. CASE op # "stopAll"
      BY <1>4, <2>1, <3>2, NewJobOrder DEF Request, Loops, BootOps, cmdVars
    <3> QED BY <3>1, <3>2
  <2>3. job'[Main] = job[Main] /\ up' = up
    BY <1>0, <1>4, <2>1, CallersAre, NewJobEffect DEF Request
  <2> QED BY <1>0, <2>2, <2>3 DEF Booting
<1>5. ASSUME Interrupt PROVE Goal
  <2>1. CASE UNCHANGED job
    <3>1. \A h \in Callers : InOrder(h)'
      BY <1>5, <2>1, OthersInOrder DEF Interrupt, cmdVars, callVars, lockVars, objVars
    <3> QED BY <1>0, <1>5, <2>1, <3>1 DEF Interrupt, Booting
  <2>2. CASE job' = [job EXCEPT ![Main] = Job("shutdown", NoName, "pm")] /\ UNCHANGED up
    <3>1. \A h \in Callers : InOrder(h)'
      BY <1>5, <2>2, CallersAre, NewJobOrder DEF Interrupt, Loops, BootOps, cmdVars
    <3>2. job'[Main].op = "shutdown"
      <4>1. job'[Main] = Job("shutdown", NoName, "pm")
        BY <1>0, <2>2, CallersAre, NewJobEffect
      <4> QED BY <4>1 DEF Job
    <3> QED BY <1>0, <1>5, <2>2, <3>1, <3>2 DEF Interrupt, Booting, BootOps
  <2> QED BY <1>5, <2>1, <2>2 DEF Interrupt
<1>6. ASSUME UNCHANGED vars PROVE Goal
  BY <1>6, QuietOrder DEF vars, cmdVars, storeVars, restVars
<1>8. ASSUME Connect PROVE Goal
  <2>1. \A h \in Callers : InOrder(h)'
    BY <1>8, OthersInOrder DEF Connect, cmdVars, callVars, lockVars, objVars
  <2> QED BY <1>0, <1>8, <2>1 DEF Connect, Booting
<1>7. Goal
  BY <1>1, <1>2, <1>3, <1>4, <1>5, <1>6, <1>8 DEF Next, GoStep
<1> QED BY <1>0, <1>7 DEF PlaceInv

\* and both initial states have it.
LEMMA PlaceInit == (Init => PlaceInv) /\ (InitUp => PlaceInv)
<1> USE StoreAssumption DEF PlaceInv, StoreInit, InOrder, JobInOrder, CallInOrder, LocksOf, Booting,
      Loops, BootOps, LoopPcs, CallsInit, Idle, Job
<1>1. ASSUME Init PROVE PlaceInv
  BY <1>1, StoreInitInv DEF Init, CmdInit
<1>2. ASSUME InitUp PROVE PlaceInv
  BY <1>2, StoreInitUpInv DEF InitUp
<1> QED BY <1>1, <1>2

\* No mutex outlives the code it guards, from the start of the operator on
THEOREM StoreLocksHeld == Spec => []LocksHeld
<1>1. PlaceInv => LocksHeld
  BY DEF PlaceInv, InOrder, LocksOf, LocksHeld
<1> QED BY <1>1, PlaceInit, PlaceNext, PTL DEF Spec

\* and from the end of its boot on.
THEOREM StoreLocksHeldUp == UpSpec => []LocksHeld
<1>1. PlaceInv => LocksHeld
  BY DEF PlaceInv, InOrder, LocksOf, LocksHeld
<1> QED BY <1>1, PlaceInit, PlaceNext, PTL DEF UpSpec
=============================================================================
