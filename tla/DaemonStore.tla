---------------------------- MODULE DaemonStore ----------------------------
(***************************************************************************)
(* daemon/daemon.go and daemon/daemon_store.go: systemd units whose code   *)
(* is in the repositories of module GitRepo.  main bootstraps them after   *)
(* the services and before it listens to MQTT, and the topics daemon-...   *)
(* are the only way to them: their handlers run one at a time.  Two units  *)
(* may have one repository, as the two tunnels do.                         *)
(*                                                                         *)
(* The units belong to systemd and outlive the operator.                   *)
(***************************************************************************)
EXTENDS GitRepo

CONSTANTS Daemons,
          RepoOf,      \* RepoOf[d]: the repository main gives to daemon d
          Main, Mqtt,  \* the goroutine of main() and the one that serves MQTT
          NoDaemon

ASSUME DaemonAssumption == /\ RepoOf \in [Daemons -> Repos] /\ NoDaemon \notin Daemons
                           /\ Callers = {Main, Mqtt} /\ Main # Mqtt

VARIABLES unit,      \* unit[d]: "inactive", "running" or "failed", in systemd
          loaded,    \* loaded[d]: the revision that was checked out when it was started
          updating,  \* updating[d]: daemon.updating
          job,       \* the message that is served
          todo,      \* daemons that Store.Bootstrap has still to go through
          online,    \* isConnected of main
          phase      \* the operator: "booting", "up" or "dead"

unitVars == <<unit, loaded>>
bootVars == <<todo, online, phase>>
daemonVars == <<unitVars, updating, job, bootVars>>
vars == <<repoVars, daemonVars>>

Topics == {"start", "stop", "restart", "update"}
Idle == [op |-> "none", daemon |-> NoDaemon, pc |-> "idle", old |-> 0]

Booting == todo = Daemons /\ online \in BOOLEAN /\ phase = "booting"

Init == /\ GitInit /\ Booting
        /\ unit = [d \in Daemons |-> "inactive"] /\ loaded = [d \in Daemons |-> 0]
        /\ updating = [d \in Daemons |-> FALSE]
        /\ job = Idle
-----------------------------------------------------------------------------
\* Store.Bootstrap, whose error ends main.
BootDaemon(d) == /\ phase = "booting" /\ d \in todo
                 /\ EnterBootstrap(Main, RepoOf[d], online)
                 /\ todo' = todo \ {d}
                 /\ UNCHANGED <<unitVars, updating, job, online, phase>>

DaemonBooted == /\ phase = "booting"
                /\ Leave(Main)
                /\ phase' = IF Pc(Main) = "err" THEN "dead"
                            ELSE IF todo = {} THEN "up" ELSE phase
                /\ UNCHANGED <<unitVars, updating, job, todo, online>>

\* Mutant: a name that is not in the list is used all the same.
MessageUnknown(op, d) ==
  /\ phase = "up" /\ job = Idle
  /\ job' = [Idle EXCEPT !.op = op, !.pc = IF op = "update" THEN "begin" ELSE "systemctl"]
  /\ UNCHANGED <<repoVars, unitVars, updating, bootVars>>

\* A message arrives; the handlers of start, stop and restart only call systemctl.
Message(op, d) ==
  /\ phase = "up" /\ job = Idle
  /\ job' = [Idle EXCEPT !.op = op, !.daemon = d,
                         !.pc = IF op = "update" THEN "begin" ELSE "systemctl"]
  /\ UNCHANGED <<repoVars, unitVars, updating, bootVars>>

\* daemon.Update: the flag, the old head, the update of the repository.
BeginUpdate == LET r == RepoOf[job.daemon] IN
  /\ job.pc = "begin"
  /\ updating' = [updating EXCEPT ![job.daemon] = TRUE]
  /\ job' = [job EXCEPT !.pc = "git", !.old = head[r]]
  /\ EnterUpdate(Mqtt, r)
  /\ UNCHANGED <<unitVars, bootVars>>

News == Pc(Mqtt) = "nil" /\ head[RepoOf[job.daemon]] # job.old

\* Mutant: the restart does not ask for news.
EndUpdateRestarts == LET d == job.daemon IN
  /\ job.pc = "git"
  /\ Leave(Mqtt)
  /\ updating' = [updating EXCEPT ![d] = FALSE]
  /\ job' = IF Pc(Mqtt) = "nil" THEN [job EXCEPT !.pc = "systemctl"] ELSE Idle
  /\ UNCHANGED <<unitVars, bootVars>>

\* Mutant: the flag is given back on success only.
EndUpdateKeepsFlag == LET d == job.daemon IN
  /\ job.pc = "git"
  /\ Leave(Mqtt)
  /\ updating' = [updating EXCEPT ![d] = Pc(Mqtt) = "err"]
  /\ job' = IF News THEN [job EXCEPT !.pc = "systemctl"] ELSE Idle
  /\ UNCHANGED <<unitVars, bootVars>>

\* Mutant: the update is given up while git is at work.
EndUpdateEarly == LET d == job.daemon IN
  /\ job.pc = "git"
  /\ call' = [call EXCEPT ![Mqtt] = NoCall]
  /\ updating' = [updating EXCEPT ![d] = FALSE]
  /\ job' = Idle
  /\ UNCHANGED <<origin, diskVars, head, crashes, unitVars, bootVars>>

\* The deferred reset of the flag, and Store.Update: a restart if there is news.
EndUpdate == LET d == job.daemon IN
  /\ job.pc = "git"
  /\ Leave(Mqtt)
  /\ updating' = [updating EXCEPT ![d] = FALSE]
  /\ job' = IF News THEN [job EXCEPT !.pc = "systemctl"] ELSE Idle
  /\ UNCHANGED <<unitVars, bootVars>>

\* systemctl start leaves a running unit alone; restart starts any.
StartsUnit == \/ job.op \in {"restart", "update"}
              \/ job.op = "start" /\ unit[job.daemon] # "running"

Systemctl == LET d == job.daemon IN
  /\ job.pc = "systemctl"
  /\ unit' = [unit EXCEPT ![d] = IF job.op = "stop" THEN "inactive" ELSE "running"]
  /\ loaded' = IF StartsUnit THEN [loaded EXCEPT ![d] = tree[RepoOf[d]]] ELSE loaded
  /\ job' = Idle
  /\ UNCHANGED <<repoVars, updating, bootVars>>

SystemctlFails == LET d == job.daemon IN
  /\ job.pc = "systemctl"
  /\ \/ UNCHANGED unit
     \/ StartsUnit /\ unit' = [unit EXCEPT ![d] = "failed"]
  /\ job' = Idle
  /\ UNCHANGED <<repoVars, loaded, updating, bootVars>>

\* A unit ends by itself.
UnitEnds(d) == /\ unit[d] = "running"
               /\ unit' = [unit EXCEPT ![d] = "failed"]
               /\ UNCHANGED <<repoVars, loaded, updating, job, bootVars>>

\* The operator goes down and is started again; after a power cut systemd has
\* started some of the units, on the code it found.
Reboot == /\ todo' = Daemons /\ online' \in BOOLEAN /\ phase' = "booting"
          /\ updating' = [d \in Daemons |-> FALSE]
          /\ job' = Idle

OperatorRestarts == GoDown /\ Reboot /\ UNCHANGED unitVars

PowerCut ==
  /\ GoDown /\ Reboot
  /\ \E started \in SUBSET {d \in Daemons : tree[RepoOf[d]] # 0} :
       /\ unit' = [d \in Daemons |-> IF d \in started THEN "running" ELSE "inactive"]
       /\ loaded' = [d \in Daemons |-> IF d \in started THEN tree[RepoOf[d]] ELSE loaded[d]]

Next ==
  \/ \E d \in Daemons : \/ BootDaemon(d) \/ UnitEnds(d)
                        \/ \E op \in Topics : Message(op, d)
  \/ DaemonBooted \/ BeginUpdate \/ EndUpdate \/ Systemctl \/ SystemctlFails
  \/ (\E g \in Callers : RepoStep(g)) /\ UNCHANGED daemonVars
  \/ (\E r \in Repos : Push(r)) /\ UNCHANGED daemonVars
  \/ OperatorRestarts \/ PowerCut

Spec == Init /\ [][Next]_vars
-----------------------------------------------------------------------------
\* Type invariant of the daemons and of the message in progress.
DaemonTypeOK ==
  /\ unit \in [Daemons -> {"inactive", "running", "failed"}]
  /\ loaded \in [Daemons -> Revisions] /\ updating \in [Daemons -> BOOLEAN]
  /\ job \in [op : Topics \cup {"none"}, daemon : Daemons \cup {NoDaemon},
              pc : {"idle", "begin", "git", "systemctl"}, old : Revisions]
  /\ job.pc # "idle" => job.daemon \in Daemons
  /\ todo \subseteq Daemons /\ online \in BOOLEAN /\ phase \in {"booting", "up", "dead"}

\* A daemon is shown as updating only while the message being served updates
\* it, also after an update that failed (daemon.go:118-126, 141-143).
UpdatingMeansMessage == \A d \in Daemons : updating[d] => job.pc = "git" /\ job.daemon = d

\* An update changes the code that a unit runs only into the version shown, and
\* only when that is newer than what was shown before: a message that is sent again
\* takes a daemon nowhere else.  A restart into the same code changes nothing here,
\* and is not spoken of (daemon_store.go:64-77).
RestartsIntoNews ==
  [][\A d \in Daemons :
       job.op = "update" /\ crashes' = crashes /\ loaded'[d] # loaded[d]
         => loaded'[d] = head[RepoOf[d]] /\ loaded'[d] > job.old]_vars

\* An update restarts a unit only on the code of the version shown, and only when
\* the hook has run for it, whatever failed or was cut off before
\* (repo.go:110-121; daemon_store.go:67-77).
RestartsWithDeps ==
  job.op = "update" /\ job.pc = "systemctl" =>
    LET r == RepoOf[job.daemon] IN tree[r] = head[r] /\ deps[r] = tree[r]

\* An update that finds nothing new is one of a daemon that runs, if it runs, the
\* newest code with what the hook installs for it (repo.go:69-71; daemon.go:39-41).
NoNewsMeansReady ==
  Pc(Mqtt) = "nil" /\ ~News /\ unit[job.daemon] = "running" =>
    LET r == RepoOf[job.daemon] IN loaded[job.daemon] = tree[r] /\ deps[r] = tree[r]

\* The store uses its repositories as GitRepo says: each goroutine has one call
\* at a time.
UsesRepos == RepoSpec
=============================================================================
