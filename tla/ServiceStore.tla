---------------------------- MODULE ServiceStore ----------------------------
(***************************************************************************)
(* services.go with the parts of process_manager.go that drive it: the     *)
(* map from service names to Service objects, the requests that start,     *)
(* stop, restart and update one service, and the three loops over all of   *)
(* them (Bootstrap, Start, Stop), and the shutdown of main.go.  Each HTTP  *)
(* request runs in a goroutine of its own, from before the services are    *)
(* kicked off; MQTT messages are handled one at a time, after it.          *)
(*                                                                         *)
(* A Service object holds one command and every Save makes a new object,   *)
(* so both are named by the command.  The calls Command.Start and          *)
(* Command.Stop are those of module Command, step by step.  Requests for   *)
(* unknown names change nothing and are left out.                          *)
(***************************************************************************)
EXTENDS Command, Naturals, FiniteSets

CONSTANTS Names,        \* service names
          First,        \* First[n]: the command main saves under n
          Http, Mqtt,   \* goroutines that serve requests
          Main,         \* the goroutine of main()
          Ops,          \* the requests that are sent, and whether there is a "shutdown"
          MaxRequests,  \* bound: requests sent in one behaviour
          MaxHead,      \* bound: revisions of a repository
          NoName, Nobody

AllOps == {"start", "stop", "restart", "update", "stopAll", "shutdown"}

ASSUME StoreAssumption ==
  /\ First \in [Names -> Cmds]
  /\ \A m, n \in Names : First[m] = First[n] => m = n
  /\ Callers = Http \cup Mqtt \cup {Main}
  /\ Main \notin Http \cup Mqtt /\ Http \cap Mqtt = {}
  /\ Ops \subseteq AllOps
  /\ MaxRequests \in Nat /\ MaxHead \in Nat
  /\ NoName \notin Names /\ Nobody \notin Callers

VARIABLES list,       \* list[n]: ServiceStore.list
          owner,      \* owner[c]: the name c was made for, NoName before
          version,    \* version[c]: Command.Version
          head,       \* head[n]: Repo.head, counting revisions
          lock,       \* lock[c]: holder of the mutex of the Service of c
          readers,    \* goroutines that hold ServiceStore.mu.RLock across a loop
          writer,     \* the goroutine that has announced ServiceStore.mu.Lock
          pm,         \* holder of the mutex of ProcessManager
          observers,  \* observers[c]: goroutines in observe() on c
          notices,    \* commands whose failure was passed on to the led service
          job,        \* job[g]: what g is doing and its locals
          sent,       \* requests sent so far
          up          \* the operator: "booting", "waiting" for its connection to the
                      \*   broker, "up", "offline" or "dead"

objVars  == <<list, owner, version, head>>
lockVars == <<lock, readers, writer, pm>>
restVars == <<observers, notices, sent, up>>
storeVars == <<objVars, lockVars, restVars, job>>
vars == <<cmdVars, storeVars>>

Job(op, n, pc) ==
  [op |-> op, name |-> n, pc |-> pc, svc |-> NoCmd, old |-> "idle", from |-> 0, todo |-> {}]
Idle == Job("none", NoName, "idle")

StoreInit ==
  /\ list = First
  /\ owner = [c \in Cmds |->
                IF \E n \in Names : First[n] = c
                THEN CHOOSE n \in Names : First[n] = c ELSE NoName]
  /\ version = [c \in Cmds |-> 0]
  /\ head = [n \in Names |-> 0]
  /\ lock = [c \in Cmds |-> Nobody]
  /\ readers = {} /\ writer = Nobody /\ pm = Nobody
  /\ notices = {} /\ sent = 0

Init ==
  /\ CmdInit /\ StoreInit
  /\ observers = [c \in Cmds |-> 0]
  /\ job = [g \in Callers |-> IF g = Main THEN Job("bootstrap", NoName, "pm") ELSE Idle]
  /\ up = "booting"

At(g, op, pc) == job[g].pc = pc /\ job[g].op \in op
Move(g, pc) == job' = [job EXCEPT ![g].pc = pc]
Done(g) == job' = [job EXCEPT ![g] = Idle]

-----------------------------------------------------------------------------
\* KickOffMQTTClient, by main after the boot or by the ticker once there is
\* internet, also after a Stop; an error ends the program if main has called, and
\* leads to the Interrupt below if it was the ticker.
Connect == /\ up = "waiting" /\ pm = Nobody
           /\ up' \in {"up", "dead"}
           /\ UNCHANGED <<cmdVars, objVars, lockVars, observers, notices, sent, job>>

\* When requests are served: by HTTP until the server is shut down, by MQTT
\* while there is a connection.
HttpServes(g) == g \in Http /\ job[Main].op # "shutdown"
MqttServes(g) == g \in Mqtt /\ up = "up"

\* A request arrives.
Request(g, op, n) ==
  /\ job[g] = Idle /\ sent < MaxRequests
  /\ HttpServes(g) \/ MqttServes(g)
  /\ op \in Ops \ {"shutdown"}
  /\ sent' = sent + 1
  /\ job' = [job EXCEPT ![g] = IF op = "stopAll" THEN Job(op, NoName, "pm")
                               ELSE Job(op, n, "find")]
  /\ UNCHANGED <<cmdVars, objVars, lockVars, observers, notices, up>>

\* gracefullShutdown, on an interrupt after the boot: with a request in progress
\* the Shutdown of the HTTP server, given a nil context, panics.
Interrupt ==
  /\ "shutdown" \in Ops /\ up \in {"waiting", "up", "offline"} /\ job[Main] = Idle
  /\ IF \E g \in Http : job[g] # Idle
     THEN up' = "dead" /\ UNCHANGED job
     ELSE job' = [job EXCEPT ![Main] = Job("shutdown", NoName, "pm")] /\ UNCHANGED up
  /\ UNCHANGED <<cmdVars, objVars, lockVars, observers, notices, sent>>

\* Find takes and gives back the read lock, which a pending writer withholds.
Find(g) ==
  /\ job[g].pc = "find" /\ writer = Nobody
  /\ job' = [job EXCEPT ![g].svc = list[job[g].name],
                        ![g].pc = IF job[g].op \in {"start", "update"} THEN "status" ELSE "stop"]
  /\ UNCHANGED <<cmdVars, objVars, lockVars, restVars>>

\* Clone: a new command with the program and the version of the old one, not yet
\* in the list.  Bound: the instances have one command for every clone that is made.
Unused(c) == {d \in Cmds : owner[d] = NoName /\ (d \in Foreign <=> c \in Foreign)}

Clone(g) == LET old == job[g].svc
                new == CHOOSE d \in Unused(old) : TRUE
            IN /\ Unused(old) # {}
               /\ owner' = [owner EXCEPT ![new] = job[g].name]
               /\ version' = [version EXCEPT ![new] = version[old]]
               /\ job' = [job EXCEPT ![g].svc = new, ![g].pc = "save"]

\* StartService: a command that has ended is replaced, any other is started as it is.
Restartable == {"crashed", "error", "stopped", "succeed"}

CheckStatus(g) ==
  /\ At(g, {"start"}, "status")
  /\ \/ Status(job[g].svc) \in Restartable /\ Clone(g)
     \/ Status(job[g].svc) \notin Restartable /\ Move(g, "launch") /\ UNCHANGED <<owner, version>>
  /\ UNCHANGED <<cmdVars, list, head, lockVars, restVars>>

\* Save: the lock is announced, then taken once the readers have left.
AnnounceSave(g) ==
  /\ job[g].pc = "save" /\ writer = Nobody
  /\ writer' = g
  /\ Move(g, "commit")
  /\ UNCHANGED <<cmdVars, objVars, lock, readers, pm, restVars>>

CommitSave(g) ==
  /\ job[g].pc = "commit" /\ readers = {}
  /\ list' = [list EXCEPT ![job[g].name] = job[g].svc]
  /\ writer' = Nobody
  /\ Move(g, "launch")
  /\ UNCHANGED <<cmdVars, owner, version, head, lock, readers, pm, restVars>>

\* StartService goes through Service.Start, which spawns observe(); Update and
\* RestartService start the bare command.
Observe(c, n) == observers' = [observers EXCEPT ![c] = @ + n]

Launch(g) ==
  /\ job[g].pc = "launch"
  /\ Call(g, "start", job[g].svc) /\ UNCHANGED procVars
  /\ Observe(job[g].svc, IF job[g].op = "start" THEN 1 ELSE 0)
  /\ Move(g, "starting")
  /\ UNCHANGED <<objVars, lockVars, notices, sent, up>>

Launched(g) ==
  /\ job[g].pc = "starting"
  /\ Leave(g)
  /\ Done(g)
  /\ UNCHANGED <<objVars, lockVars, restVars>>

\* Mutant: a restart that clones without stopping.
StopOldSkipped(g) ==
  /\ job[g].pc = "stop" /\ job[g].op = "restart"
  /\ Clone(g)
  /\ UNCHANGED <<cmdVars, list, head, lockVars, restVars>>

StopOld(g) ==
  /\ job[g].pc = "stop"
  /\ Call(g, "stop", job[g].svc) /\ UNCHANGED procVars
  /\ Move(g, "stopping")
  /\ UNCHANGED <<objVars, lockVars, restVars>>

\* StopService is over; RestartService and Update go on only if Stop gave nil.
StoppedOld(g) ==
  /\ job[g].pc = "stopping"
  /\ Leave(g)
  /\ IF at[g] = "nil" /\ job[g].op # "stop"
     THEN Clone(g)
     ELSE Done(g) /\ UNCHANGED <<owner, version>>
  /\ UNCHANGED <<list, head, lockVars, restVars>>
-----------------------------------------------------------------------------
\* Update: oldStatus is read before the mutex of the service is taken.
ReadOldStatus(g) ==
  /\ At(g, {"update"}, "status")
  /\ job' = [job EXCEPT ![g].old = Status(job[g].svc), ![g].pc = "lock"]
  /\ UNCHANGED <<cmdVars, objVars, lockVars, restVars>>

\* The head of a repository, and what overlapping updates of it have found there:
\* the last one to store its head may put back the oldest of these.
Heads(n) == {head[n]} \cup {job[g].from : g \in {h \in Callers : job[h].pc = "fetch" /\ job[h].name = n}}

LockService(g) == LET c == job[g].svc  heads == Heads(job[g].name) IN
  /\ job[g].pc = "lock" /\ lock[c] = Nobody
  /\ lock' = [lock EXCEPT ![c] = g]
  /\ SetStatus(c, "updating")
  /\ \E oldest \in heads : /\ \A h \in heads : oldest <= h
                           /\ job' = [job EXCEPT ![g].from = oldest, ![g].pc = "fetch"]
  /\ UNCHANGED <<proc, waiter, interrupted, exitError, finish, callVars, objVars, readers, writer, pm, restVars>>

\* Mutant: the error path of Update forgets the old status.
FetchFailsNoRestore(g) == LET c == job[g].svc IN
  /\ job[g].pc = "fetch"
  /\ \E h \in job[g].from .. MaxHead : head' = [head EXCEPT ![job[g].name] = h]
  /\ lock' = [lock EXCEPT ![c] = Nobody]
  /\ Done(g)
  /\ UNCHANGED <<cmdVars, list, owner, version, readers, writer, pm, restVars>>

\* Mutant: the error path of Update keeps the mutex.
FetchFailsLocked(g) ==
  /\ job[g].pc = "fetch"
  /\ \E h \in job[g].from .. MaxHead : head' = [head EXCEPT ![job[g].name] = h]
  /\ Move(g, "restore")
  /\ UNCHANGED <<cmdVars, list, owner, version, lockVars, restVars>>

\* Command.Update.  A repository whose hooks fail has moved its head already.
FetchFails(g) == LET c == job[g].svc IN
  /\ job[g].pc = "fetch"
  /\ \E h \in job[g].from .. MaxHead : head' = [head EXCEPT ![job[g].name] = h]
  /\ lock' = [lock EXCEPT ![c] = Nobody]
  /\ Move(g, "restore")
  /\ UNCHANGED <<cmdVars, list, owner, version, readers, writer, pm, restVars>>

FetchSucceeds(g) == LET c == job[g].svc IN
  /\ job[g].pc = "fetch"
  /\ \E h \in job[g].from .. MaxHead :
       /\ head' = [head EXCEPT ![job[g].name] = h]
       /\ version' = [version EXCEPT ![c] = h]
       /\ Move(g, IF h # version[c] THEN "stop" ELSE "restore")
  /\ lock' = [lock EXCEPT ![c] = Nobody]
  /\ UNCHANGED <<cmdVars, list, owner, readers, writer, pm, restVars>>

RestoreStatus(g) ==
  /\ job[g].pc = "restore"
  /\ SetStatus(job[g].svc, job[g].old)
  /\ Done(g)
  /\ UNCHANGED <<proc, waiter, interrupted, exitError, finish, callVars, objVars, lockVars, restVars>>
-----------------------------------------------------------------------------
\* ProcessManager.KickOffServices and ProcessManager.Stop, which disconnects from
\* the broker first: an operator that was "up" is "offline" for good, one that still
\* waits may connect later.  op names the loop over the list that is running:
\* "bootstrap", "startAll", "abort", "stopAll" or, when main stops, "shutdown".
LockManager(g) ==
  /\ job[g].pc = "pm" /\ pm = Nobody
  /\ pm' = g
  /\ up' = IF up = "up" /\ job[g].op \in {"stopAll", "shutdown"} THEN "offline" ELSE up
  /\ Move(g, "rlock")
  /\ UNCHANGED <<cmdVars, objVars, lock, readers, writer, observers, notices, sent>>

EnterLoop(g) ==
  /\ job[g].pc = "rlock" /\ writer = Nobody
  /\ readers' = readers \cup {g}
  /\ job' = [job EXCEPT ![g].pc = "loop", ![g].todo = Names]
  /\ UNCHANGED <<cmdVars, objVars, lock, writer, pm, restVars>>

Take(g, n, pc) == /\ n \in job[g].todo
                  /\ job' = [job EXCEPT ![g].todo = @ \ {n}, ![g].pc = pc]

BootstrapService(g, n) == LET c == list[n] IN
  /\ At(g, {"bootstrap"}, "loop") /\ lock[c] = Nobody
  /\ Take(g, n, "loop")
  /\ \E h \in 0 .. MaxHead : /\ \E oldest \in Heads(n) : oldest <= h
                             /\ head' = [head EXCEPT ![n] = h]
                             /\ version' = [version EXCEPT ![c] = h]
  /\ UNCHANGED <<cmdVars, list, owner, lockVars, restVars>>

CallInLoop(g, n) == LET starts == job[g].op = "startAll" IN
  /\ At(g, {"startAll", "stopAll", "shutdown", "abort"}, "loop")
  /\ Take(g, n, "looping")
  /\ Call(g, IF starts THEN "start" ELSE "stop", list[n]) /\ UNCHANGED procVars
  /\ Observe(list[n], IF starts THEN 1 ELSE 0)
  /\ UNCHANGED <<objVars, lockVars, notices, sent, up>>

CalledInLoop(g) ==
  /\ job[g].pc = "looping" /\ at[g] = "nil"
  /\ Leave(g)
  /\ Move(g, "loop")
  /\ UNCHANGED <<objVars, lockVars, restVars>>

\* The end of a loop: the read lock goes, and what comes next depends on which
\* loop it was and, for the two of the boot, on whether it failed.
NextLoop(g, op) == /\ job' = [job EXCEPT ![g] = Job(op, NoName, "rlock")]
                   /\ UNCHANGED <<pm, up>>

\* Mutant: the mutex of the manager is not given back.
ReleaseKeepsMutex(g, s) == Done(g) /\ up' = s /\ UNCHANGED pm

Release(g, s) == Done(g) /\ pm' = Nobody /\ up' = s

EndLoop(g, failed) ==
  /\ readers' = readers \ {g}
  /\ \/ job[g].op = "bootstrap" /\ failed /\ Release(g, "dead")
     \/ job[g].op = "bootstrap" /\ ~failed /\ NextLoop(g, "startAll")
     \/ job[g].op = "startAll" /\ failed /\ NextLoop(g, "abort")
     \/ job[g].op = "startAll" /\ ~failed /\ Release(g, "waiting")
     \/ job[g].op \in {"abort", "shutdown"} /\ Release(g, "dead")
     \/ job[g].op = "stopAll" /\ Release(g, up)
  /\ UNCHANGED <<objVars, lock, writer, observers, notices, sent>>

LoopFinishes(g) == /\ job[g].pc = "loop" /\ job[g].todo = {}
                   /\ EndLoop(g, FALSE)
                   /\ UNCHANGED cmdVars

CallFails(g) == /\ job[g].pc = "looping" /\ at[g] = "err"
                /\ Leave(g)
                /\ EndLoop(g, TRUE)

BootstrapFails(g) == /\ At(g, {"bootstrap"}, "loop") /\ job[g].todo # {}
                     /\ EndLoop(g, TRUE)
                     /\ UNCHANGED cmdVars
-----------------------------------------------------------------------------
\* Mutant: the observer listens to the channel that Stop reads.
NoticeOfStop(c) ==
  /\ observers[c] > 0 /\ c \in exitError
  /\ exitError' = exitError \ {c}
  /\ Observe(c, 0 - 1)
  /\ notices' = IF proc[c] = "ok" THEN notices ELSE notices \cup {c}
  /\ UNCHANGED <<status, proc, waiter, interrupted, finish, callVars, objVars, lockVars, job, sent, up>>

\* Mutant: every end is received, by whoever is there.
NoticeUnobserved(c) ==
  /\ RecvFinish(c) /\ UNCHANGED callVars
  /\ Observe(c, 0 - 1)
  /\ notices' = IF proc[c] = "ok" THEN notices ELSE notices \cup {c}
  /\ UNCHANGED <<objVars, lockVars, job, sent, up>>

\* Service.observe: one receive, and a notice if the command failed.
Notice(c) ==
  /\ observers[c] > 0
  /\ RecvFinish(c) /\ UNCHANGED callVars
  /\ Observe(c, 0 - 1)
  /\ notices' = IF proc[c] = "ok" THEN notices ELSE notices \cup {c}
  /\ UNCHANGED <<objVars, lockVars, job, sent, up>>

StoreStep(g) ==
  \/ Find(g) \/ CheckStatus(g) \/ AnnounceSave(g) \/ CommitSave(g)
  \/ Launch(g) \/ Launched(g) \/ StopOld(g) \/ StoppedOld(g)
  \/ ReadOldStatus(g) \/ LockService(g) \/ FetchFails(g) \/ FetchSucceeds(g) \/ RestoreStatus(g)
  \/ LockManager(g) \/ EnterLoop(g) \/ CalledInLoop(g)
  \/ LoopFinishes(g) \/ CallFails(g) \/ BootstrapFails(g)
  \/ \E n \in Names : BootstrapService(g, n) \/ CallInLoop(g, n)

GoStep(g) == up # "dead" /\ (StoreStep(g) \/ (CallStep(g) /\ UNCHANGED storeVars))

WaitStep(c) == up # "dead" /\ (Notice(c) \/ (WaiterStep(c) /\ UNCHANGED <<callVars, storeVars>>))

ExitStep(c) == ProcessEnds(c) /\ UNCHANGED <<callVars, storeVars>>

Next ==
  \/ \E g \in Callers : GoStep(g)
  \/ \E g \in Http \cup Mqtt, op \in Ops, n \in Names : up # "dead" /\ Request(g, op, n)
  \/ Interrupt \/ Connect
  \/ \E c \in Cmds : WaitStep(c) \/ ExitStep(c)

Spec == Init /\ [][Next]_vars

\* Goroutines are scheduled, git comes back, an interrupted process ends.
Fairness == /\ \A g \in Callers : WF_vars(GoStep(g))
            /\ \A c \in Cmds : WF_vars(WaitStep(c)) /\ WF_vars(c \in interrupted /\ ExitStep(c))

FairSpec == Spec /\ Fairness

\* The same from a state that Init leads to: the boot is over and every service
\* runs, with a connection to the broker.  The runs that are about requests start here.
InitUp == LET booted == {First[n] : n \in Names} IN
  /\ status = [c \in Cmds |-> IF c \in booted THEN "running" ELSE "idle"]
  /\ proc = [c \in Cmds |-> IF c \in booted THEN "live" ELSE "none"]
  /\ waiter = [c \in Cmds |-> IF c \in booted THEN "wait" ELSE "none"]
  /\ observers = [c \in Cmds |-> IF c \in booted THEN 1 ELSE 0]
  /\ job = [g \in Callers |-> Idle] /\ up = "up"
  /\ CallsInit /\ StoreInit

UpSpec == InitUp /\ [][Next]_vars
FairUpSpec == UpSpec /\ Fairness
-----------------------------------------------------------------------------
\* Where a request names a service, and after Find also its command.
AtFind == {"find", "status", "save", "commit", "launch", "starting", "stop", "stopping",
           "lock", "fetch", "restore"}

Jobs ==
  [op : AllOps \cup {"none", "bootstrap", "startAll", "abort"},
   name : Names \cup {NoName}, pc : AtFind \cup {"idle", "pm", "rlock", "loop", "looping"},
   svc : Cmds \cup {NoCmd}, old : Statuses, from : 0 .. MaxHead, todo : SUBSET Names]

\* Type invariant of the store, in the parts it has; the commands have their own.
ObjTypeOK == /\ list \in [Names -> Cmds] /\ owner \in [Cmds -> Names \cup {NoName}]
             /\ version \in [Cmds -> 0 .. MaxHead] /\ head \in [Names -> 0 .. MaxHead]
LockTypeOK == /\ lock \in [Cmds -> Callers \cup {Nobody}] /\ readers \subseteq Callers
              /\ writer \in Callers \cup {Nobody} /\ pm \in Callers \cup {Nobody}
RestTypeOK == /\ observers \in [Cmds -> Nat] /\ notices \subseteq Cmds
              /\ sent \in 0 .. MaxRequests /\ up \in {"booting", "waiting", "up", "offline", "dead"}
JobTypeOK == /\ job \in [Callers -> Jobs]
             /\ \A g \in Callers : /\ job[g].pc \in AtFind => job[g].name \in Names
                                   /\ job[g].pc \in AtFind \ {"find"} => job[g].svc \in Cmds

\* The type invariant of the store as a whole (services.go:21-30, 136-139).
StoreTypeOK == ObjTypeOK /\ LockTypeOK /\ RestTypeOK /\ JobTypeOK

\* A status put back by an update that saved it long before still tells the
\* truth about the process (services.go:201-213): "stopped" means it was
\* signalled, "crashed" and "succeed" that it ended so, "running" that it was
\* launched.  Status() tells a process that is over from one that runs; "error" on
\* one that lives (NoOrphanProcess) is not spoken of.
Fits(s, c) == /\ s = "stopped" => c \in interrupted
              /\ s = "crashed" => Reaped(c) /\ proc[c] \in {"failed", "killed"}
              /\ s = "succeed" => Reaped(c) /\ proc[c] = "ok"
              /\ s = "running" => proc[c] # "none"

StatusIsSound == \A c \in Cmds : Fits(status[c], c)

\* What makes it so: wherever a status is about to be written, and wherever an
\* update keeps one to put back, it fits already.
StatusWillFit ==
  /\ \A g \in Callers : /\ at[g] = "mark" => target[g] \in interrupted
                        /\ at[g] = "forked" => proc[target[g]] # "none"
                        /\ job[g].pc \in {"lock", "fetch", "restore"} => Fits(job[g].old, job[g].svc)
  /\ \A c \in Cmds : waiter[c] = "crash" => proc[c] # "ok"

\* Every mutex is held exactly while its holder is in the part of the code that it
\* guards: no early return, error or end of a loop leaves one locked, and no list is
\* saved while a loop goes over it (services.go:69-76, 139-174, 203-204, 220-245;
\* process_manager.go:27-28, 75-76).
LocksHeld == \A g \in Callers :
  /\ pm = g <=> job[g].pc \in {"rlock", "loop", "looping"}
  /\ g \in readers <=> job[g].pc \in {"loop", "looping"}
  /\ writer = g <=> job[g].pc = "commit"
  /\ \A c \in Cmds : lock[c] = g <=> job[g].pc = "fetch" /\ job[g].svc = c

\* The store knows every process it has: one that runs belongs to the command
\* listed under its name, so a name has at most one (services.go:251-265,
\* 298-315; command.go:46-48).
NoOrphanProcess == \A c \in Cmds : proc[c] = "live" => list[owner[c]] = c

\* "updating" is shown only while an update of that service is under way, whose
\* errors put the old status back (services.go:201-213).  Except of a process that
\* may refuse the interrupt: the update then ends at services.go:216-218, and the
\* process goes on as "updating".
UpdatingMeansUpdate ==
  \A n \in Names : Status(list[n]) = "updating" /\ list[n] \notin Foreign
    => \E g \in Callers : job[g].op = "update" /\ job[g].name = n

\* When the loop that stops all services has gone through the whole list, no
\* listed process is left (process_manager.go:74-82, services.go:319-331).
StopAllStops ==
  [][\A g \in Callers :
       At(g, {"stopAll", "shutdown"}, "loop") /\ job'[g] = Idle
         => \A n \in Names : proc[list[n]] # "live"]_vars

Waiting(g) == job[g].pc # "idle" /\ up # "dead"

\* When the loop that stops all services is over, finished or given up, no
\* process is left (services.go:317-331; process_manager.go:73-82).
StopStopsEverything ==
  [][\A g \in Callers :
       job[g].op \in {"stopAll", "shutdown"} /\ job'[g] = Idle
         => \A c \in Cmds : proc[c] # "live"]_vars

\* Stuck: a Stop waits for an exit that another Stop has been given.
Stuck(g) == at[g] = "recv" /\ waiter[target[g]] = "done" /\ target[g] \notin exitError

\* Every MQTT topic is answered after executing (README.md:50): its handler
\* comes back, and the next message can be handled.
EveryTopicAnswers == \A g \in Mqtt : Waiting(g) ~> ~Waiting(g)

\* The three mutexes are never waited for in a circle: if a request is not
\* answered it is because two Stops wait for the one exit of a process.
OnlyDoubleStopHangs ==
  \A g \in Callers : Waiting(g) ~> ~Waiting(g) \/ \E h \in Callers : Stuck(h)

\* A service that ended with an error is watched or its failure was passed on
\* to the led service (services.go:90-107).
NoSilentCrash ==
  \A c \in Cmds : waiter[c] = "done" /\ proc[c] # "ok" => observers[c] > 0 \/ c \in notices

\* No two goroutines update the working tree of one repository (services.go:29).
OneUpdatePerRepo ==
  \A g, h \in Callers : job[g].pc = "fetch" /\ job[h].pc = "fetch" /\ job[g].name = job[h].name => g = h

\* The calls of the store are those of Command, so what holds of it holds here.
ImplementsCommand == CmdSpec
=============================================================================
