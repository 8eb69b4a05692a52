# Verification of wisebot-operator

The operator is the process of a wisebot that keeps four programs ("services")
running, updates them and a few systemd units ("daemons") from git, and takes
orders by HTTP and MQTT. This directory holds TLA+ models of it, the TLC runs
that check them and the TLAPS proofs about them. Line numbers are of the
sources in `src/`.

## 1. Inventory

| Component | State | Operations | Talks to |
|---|---|---|---|
| Command (`command/command.go`) | an `exec.Cmd`, `status` with its mutex, two one-slot channels `exitError` and `Finish`, the version | `Start`, `Stop`, `Status`, `SetStatus`, `Update`, `Clone`, and the goroutine that waits for the process | the process, the repository |
| Service and ServiceStore (`services.go`) | a map from names to Service objects with an RWMutex; a mutex per Service object | `Bootstrap`, `Start`, `Stop`, `Update`, `StartService`, `StopService`, `RestartService`, `Save`, `Find`, `observe` | commands; the led service over HTTP |
| ProcessManager (`process_manager.go`) | one mutex, two started flags | `KickOffServices`, `KickOffMQTTClient`, `Stop` | store, MQTT client |
| Requests (`http.go`, `realtime.go`) | none | one handler per route and topic | the two stores, ProcessManager, self-update |
| Boot and shutdown (`main.go`) | the wiring, the `quit` channel, the ticker that waits for a connection | `main`, `listenInterrupt`, `gracefullShutdown` | everything |
| Git repositories (`git/repo.go`) | the head it remembers; on disk the clone, its tracking branch and working tree | `Bootstrap`, `Update`, `updateHead`, the hooks | git, yarn, npm |
| Daemons (`daemon/`) | `updating` with a mutex; the store with its RWMutex | `Bootstrap`, `Update`, start, stop, restart | repositories, systemd |
| systemd client (`systemd/service.go`) | none | `Start`, `Stop`, `Restart`, `Status`, `Exists` | systemctl |
| IoT client (`iot/iot.go`) | the MQTT client, the map of subscriptions | `Connect`, `Subscribe`, `Disconnect`, `onConnect` | the broker |
| Self-update (`updater.go`, `uploader/main.go`) | the flag `uploading` of one Updater | download binary and checksum, replace the binary; upload both | S3, the file system |
| Helpers (`utils.go`) | none | HTTP GET, paths | - |

Who runs at the same time. Every HTTP request has a goroutine, and the server
runs before the services are started (`main.go:328-339`). MQTT messages are
handled one after the other (the client keeps the order of messages, its
default) once main has subscribed. Each started command has a waiter goroutine
and, if it was started through its Service, one in `observe`. main goes through
the boot and comes back for the shutdown.

Where it is hard, and what must hold there:

* **Command.** Start, Stop, the waiter and whoever writes the status meet
  without a common lock. A process must be launched once, a Stop must come back
  only after the exit, the waiter must never block, and no status may be left
  that the process contradicts.
* **ServiceStore.** A restart replaces the object that holds the mutex; an
  update puts back a status that it saved long before; loops hold the read lock
  while they wait for processes, which holds back `Save` and then every `Find`.
  Every process must belong to the listed command, a service must not stay
  "updating", every request must be answered, and stopping all must stop all.
* **Repositories.** A git command, a hook or the operator fails half-way. The
  version shown must not be ahead of the code, success must mean that the new
  code and its dependencies are there.
* **Daemons.** They outlive the operator and share repositories. An update must
  restart the unit exactly when it runs older code.
* **IoT client, boot.** A ticker that connects late races with requests and the
  shutdown; subscriptions fail half-way; the connection is lost while topics are
  being subscribed, and the handlers of two connections overlap. No topic may be
  left without a handler, and nobody may wait for ever on `quit` or on the mutex,
  except behind a Stop that hangs with it, which the code allows.
* **Self-update.** Binary and checksum are fetched one after the other, against
  an upload of the one and then the other, and the operator may be killed in the
  middle. Only a released build may be installed, and an update that failed must not
  pass for one that succeeded.

`PROJECT.json` lists the hazards one by one with their lines.

## 2. The modules

```
OneShot  <=implements=  Command  <=implements=  ServiceStore
                           |                        |  \
                     CommandProofs          StoreProofs <- StatusProofs <- SerialProofs

                        GitRepo  <=implements=  DaemonStore
                           |                        |
                       GitProofs              DaemonProofs

                       IotClient  <=extends=     Operator     SelfUpdate
                                                    |             |
                                             OperatorProofs  SelfUpdateProofs
```

**Command.** The variables are the fields of the objects (`status`,
`exitError`, `finish`), what is behind them (`proc`: the OS process, `waiter`:
where the goroutine of `Start` stands) and where each calling goroutine is
inside `Start` or `Stop` (`at`, `target`). `StartFails`, `StartForks`,
`MarkRunning` are `Start` (command.go:164-186); `StopChecks`, `SignalFails`,
`Signal`, `MarkStopped`, `RecvExit` are `Stop` (129-159), one disjunct of
`StopChecks` per early return; `Reap`, `MarkCrashed`, `SendExit`, `SendFinish`
are the waiter (174-181). The environment ends processes (`ProcessEnds`) in
three ways that the code tells apart: exit 0, another code, a signal. A signal fails
when the process is gone, and may fail on one that lives if that belongs to another
user (`Foreign`: wisebot-script runs through sudo, main.go:283-286).
`CmdNext` allows anything a user of the package may do, so that users refine it.

**OneShot.** What a command promises: launched once, dies once, reported after
it died, told to one caller.

**ServiceStore** extends Command. A Service object is named by its command, since
`Save` makes a new object for each. `job[g]` is what goroutine g does: the
request, how far it is, and its locals (`svc` the command it found, `old` the
saved status, `todo` what a loop has left). `lock`, `readers`, `writer`, `pm`
are the mutexes; a writer that waits withholds the read lock, as in Go. `up`
says if the operator boots, serves HTTP and waits for its connection to the broker
("waiting"), serves MQTT as well, has left the broker ("offline", after
`ProcessManager.Stop`) or is dead; `Connect` is KickOffMQTTClient as the store sees
it, and may come after a `Stop` that was made while there was no connection. A service
update finds any head from the oldest on that it or an update of the same repository
beside it has begun with (`Heads`, `from`), also on failure: alone it only moves
forward, but of two that overlap (`store_relock`) the one that read git log first may
store its head last. A clone is as `Foreign` as what it was made of.

**GitRepo.** Revisions of a branch are counted, 0 is "none". `origin` is the
remote, `tracking`, `dir`, `tree`, `deps` the disk, `head` the field. One action
per git command, each of which may fail, and `GoDown` at any point.

**DaemonStore** extends GitRepo with systemd units. `loaded[d]` is the revision
that was checked out when the unit was last started: the operator does not know
it, and that is the subject of the module. The daemon topics exist on MQTT only,
so there is one message at a time.

**IotClient.** Connections are numbered by the `losses` before them. `session` is
what the broker has for the present one, `subs` the map of the client; they are
two variables because `Subscribe` writes one after the other (`Acknowledge`,
`Remember`, iot.go:110-125) and because the broker forgets. `handler` and `todo`
are the goroutines of `onConnect` (175-181), one per connection and perhaps still
at work when the next one begins. `Lose`, `Reconnect` and `NetChange` are the
environment, as the MQTT library shows it to the code.

**Operator** extends IotClient with main from the web server on. `pc[g]` is where
main, the ticker, the signal and one request of each kind are; `pm` is the mutex of
ProcessManager and `started` its flag. `Kick...`, `Subscribe` and `Record` are
`KickOffMQTTClient` (process_manager.go:51-71, 109-143), topic by topic, called by
main or by the ticker; `StopBegins` and `StopEnds` are `Stop` (74-94); `Quit` is a
hand-over on the channel (main.go:345-372); `Systemctl` is the restart that a request
asks for and `Dies` the end of the process, by whatever way. Services and daemons
are only loops here that end, fail or hang: ServiceStore and DaemonStore have what
happens inside, and ServiceStore its own view of `pm`. A stop of all services hangs
when the exit that it waits for went to another Stop (command.go:158, the trace of
`store_hang`), and keeps the mutex for ever: `StopHangs`, and `AbortHangs` for a boot
that fails. Operator does not know when, so there they may always happen.

**SelfUpdate.** Build n of version v is `<<v, n>>`, since a version may be uploaded
again. `NewRelease`, `UploadBinary` and `UploadChecksum` are the Makefile and the
uploader; `Request` to `MoveInFails` are `Update` and `updateWithChecksum`
(updater.go:30-105), with a checksum that may be cut off, since the error of reading
it is not looked at; `Restart` may strike at any step. go-update, which is not in
`src/`, is modelled by what the code asks of it: verify, move the old file away, move
the new one in, move the old one back, which may fail too and leaves no file then
(`MoveInFails`; updater.go:84-91 does not ask for RollbackError).

## 3. The runs

| Run | Instance | Shows |
|---|---|---|
| `command` | 1 command, 3 callers | types; `ExitsInOrder`, `WaiterNeverBlocks`, `StopReturnsAfterExit`; implements OneShot; an interrupt is answered |
| `store_boot` | 1 service, boot, 1 request, shutdown | types; no status that the process contradicts; no mutex left locked; implements Command; nobody waits for ever unless two Stops share one exit |
| `store_serial` | 1 service, 2 MQTT messages | no orphan, no stuck "updating", every topic answered, stop-all stops |
| `daemons` | 2 daemons on 1 repository, 3 revisions, 2 restarts | the version is never ahead of the code; success is current; restarts are into news whose hook has run; uses GitRepo as it allows |
| `operator` | 2 topics, 1 lost connection, 1 request | the connection counts as started with all topics only; nobody closes it in between; every signal, request and failed ticker comes to an end, or a Stop hangs with the mutex |
| `selfupdate` | 2 versions, 3 builds each, 2 restarts | only released builds are installed; a restart after an update that succeeded runs what was asked for |
| `store_hang` | MQTT and HTTP stop one service | **violated**: the MQTT topic is never answered |
| `store_orphan` | 2 service-starts | **violated**: a process that no service owns |
| `store_shutdown` | 2 services | **violated**: a service survives the shutdown |
| `store_silent` | 1 restart | **violated**: a crash that is notified to nobody |
| `store_relock` | update, restart during it, update | **violated**: two updates in one working tree |
| `daemons_stale` | 2 daemons, a hook or a restart that fails, no crash | **violated**: old code, or code without dependencies, that is called up to date |

The violated ones state what a comment or the README of the program says; the
findings in `PROJECT.json` quote it and tell the trace.

Bounds. `Cmds` has one command for each clone that the requests of a run can
make, so a clone is never refused for lack of names. `store_boot` has three who
meet, boot, request and shutdown; the guarantees checked there are safe for any number
of requests by the proofs. `MaxHead = 1` gives one new version, enough for an
update to find news or not; in `daemons` there are three revisions, so that one
arrives while another is being installed, and two restarts, so that the second one
finds what the first has left. `store_serial` has no service-start, because
with it `NoOrphanProcess` is false (`store_orphan`), and no HTTP, because with
it `EveryTopicAnswers` is (`store_hang`): it shows that the four guarantees hold
in an instance of that size once these two causes are taken away. Its service takes
interrupts (`Foreign = {}`), because an update that cannot stop its process leaves
"updating" on it; in `command` and `store_boot` the process may refuse. `InitUp`, where the
runs about requests start, is a state that `Init` leads to. In `operator` two topics
are one that is subscribed and one that is still missing, one of them restarts the
operator; one lost connection gives two handlers that may overlap. `selfupdate` has a
third build, so that one is being uploaded while another is downloaded over a first.
No run uses symmetry. Deadlock is not checked where a behaviour ends: when the
requests of the bound are used up, or the operator is dead. It is checked in
`command`, where a new call can always be made.

Fairness. Goroutines are scheduled, git comes back (`WF` on the steps of a
goroutine), and a process that was sent an interrupt ends (`WF` on its end once it
is in `interrupted`). A Stop that hangs stays where it is: `StopHangs` is a step as
fair as `StopEnds`, after which its goroutine has none. In Operator the library's
goroutines are scheduled too: one `WF` says that, while the connection can be made
again or a handler has work, one of these goes on. `EventuallyConnected` assumes in
its own text that there is internet from some time on. Weak fairness is enough for a
mutex there since requests are bounded: unless a Stop hangs, which the properties
except (`Hung`), it is free for good after the last one. Nothing says that a process
ends by itself, that a request or a signal arrives, that the network comes or that a
lock goes to a certain one of those who wait; SelfUpdate has no fairness at all.

Every property of a passing run has a mutant: a plausible slip in the code that
makes it false under the same configuration. Mutated operators carry the word
"Mutant" and stand before the one they replace.

## 4. The proofs

For every value of the constants, from the named assumptions of the modules:

* `CommandProofs`: `CmdInv` is the type invariant with `ExitsInOrder`,
  `WaiterNeverBlocks` and the link between a Stop that waits and its
  process; the channel properties are not inductive without the place of the
  waiter (a value is in `exitError` only after `SendExit`). From it:
  `CmdTypeCorrect`, `ExitsAreInOrder`, `WaiterIsNeverBlocked`,
  `StopWaitsForExit` and, with the mapping of the waiter to a life,
  `CommandIsOneShot`.
* `StoreProofs`: `StoreTypeCorrect`, and `StoreImplementsCommand`, for which each
  step of the store is shown to be a step of Command or a stutter. By it the
  theorems of Command hold of each command of a running store:
  `StoreStopsWaitForExit`, `StoreCommandsAreOneShot`.
  `StoreLocksHeld` (and `...Up`): no mutex outlives the code it guards, and no list is
  saved while a loop goes over it. `LocksHeld` is not inductive, since it does not know
  who takes a mutex next: `PlaceInv` adds for each goroutine which job has which steps
  (`JobInOrder`), when it is inside a `Start` or a `Stop` and of which command
  (`CallInOrder`), and that main boots while the operator does (`Booting`).
* `StatusProofs`: `StatusAlwaysSound`, from a boot and (`...Up`) from the end of
  one. `StatusIsSound` is about statuses that are there; it is inductive together
  with `StatusWillFit`, which says the same of those that are about to be
  written, in `MarkRunning`, `MarkStopped`, `MarkCrashed` and `RestoreStatus`.
* `SerialProofs`: that no process is lost, that "updating" means an update, and that
  stopping all stops all. None of them is true of every behaviour: with one HTTP
  goroutine added to the instance of `store_serial` TLC finds each of them violated.
  So each has a theorem about behaviours in which nothing is disturbed, for any
  goroutines and requests, and one about instances in which nothing can be:
  * `NoOrphansUndisturbed`, `UpdatingUndisturbed`, `StopAllStopsQuiet` have
    `[]Undisturbed` as hypothesis: no request during the boot, no two requests that
    name one service at once, no service-start that launches a command which has a
    process. Requests that name different services, and a stop of all services beside
    them, may overlap. `StopAllStopsQuiet` also asks that nothing is launched while
    the loop runs (`QuietStop`). Each part is there for a reason: two requests that
    name one service lose a process, or put back an "updating" that one of them found
    as the old status; a start of what runs, be it by a request or by the boot after a
    request, turns its status into an error, after which the next start clones it
    (`store_orphan`).
  * `NoOrphansSerial`, `UpdatingSerial`, `StopAllStopsSerial` have no such hypothesis:
    from `Serial`, a condition on the constants (messages by one MQTT goroutine only,
    no service-start), they follow for any services and any number of messages, since
    then every behaviour is undisturbed (`SerialUndisturbed`, with `Asked`: nothing is
    handled in the boot, and nothing done that nobody asked for). The instance of
    `store_serial` is one of these.

  Both `Updating...` theorems except a listed command that is `Foreign`: when its
  process refuses the interrupt, `Update` returns at services.go:216-218 and the service
  shows "updating" with no update under way, which the next update may even keep as
  the old status (`MayShow`). The other four hold with such processes, too.

  The proof has three layers. The first says what a step can do to a job, a call, a
  process, a status and the list (`JobChange` to `InterruptChange`). The second needs no
  hypothesis: commands are owned by a name, a request holds a command of its name, and
  the clone it has made is its own until it is launched (`OwnInv`). The third is
  `SerialInv`: the command of a request is the listed one until it is replaced; what is
  started has no process; what is replaced has none either, or one whose end somebody
  waits for (`Exiting`), who can only be the request itself; the old status that an
  update keeps has the same standing as the present one (`Settled`), which matters
  because `StartService` trusts a status; what the boot has yet to start is fresh.
  `StopLoop` adds that what the loop has gone through stays stopped.

  `NoSilentCrashWatched` needs no order of the requests but that none is a restart or
  an update: a command is watched from the step that enters its `Start` on
  (`WatchInv`), since the observer is sent ahead. So the bare `cmd.Start()` of
  `RestartService` and `Update`, which `store_silent` runs into, is the only cause of a
  crash that nobody hears of.
* `GitProofs`: `VersionsInOrder` and `SuccessDelivers` for any number of
  overlapping updates. `LocalsInOrder` puts the locals of the calls into the
  order, since they are what is stored later.
* `DaemonProofs`: `DaemonTypeCorrect`, `NoDaemonStaysUpdating`, and
  `DaemonsUseRepos`, by which `VersionsInOrder` holds with shared repositories
  (`DaemonVersionsInOrder`). Then what an update does with the code:
  `DaemonSuccessIsCurrent`, `DaemonHeadOnlyGrows`, `RestartsHaveDeps`,
  `DaemonsRestartIntoNews`. They are false with two calls to one
  repository at once, so the invariant `CodeInv` begins with `OneCall`: main is
  through before MQTT is served, and MQTT has one message at a time. A call that is
  alone knows the tree it works on (`CodeOf`), and an update that began with a head
  leaves a newer one behind by a reset only, after which the hook has to run
  (`UpdateOf`). What it found out is still true when systemctl comes (`UpdateInOrder`).
* `OperatorProofs`: `OperatorTypeCorrect`, `NoTopicForgotten`, `KickOffUndisturbed`,
  for any topics, losses and requests. `Held` ties the mutex to the places where it is
  held, which alone keeps a `Stop` out of a `KickOffMQTTClient`; `KicksInOrder` says
  that the map holds what is no longer left while one is under way, and that there is
  no client before the first, because a second one never begins: the first failure
  ends main, or makes the ticker ask for the end (`OneConnectionEver`).
* `SelfUpdateProofs`: `SelfTypeCorrect`, `OnlyReleasesInstalled`,
  `RestartRunsRequested`. Binary and checksum in the bucket may
  differ at every moment, so the invariant is about the locals of the request:
  what was verified was released (`VerifiedIsReleased`), and what will be restarted
  into is the file (`RequestedIsThere`).

Only model-checked: everything under fairness, which the prover does not reach
(`InterruptIsAnswered`, `EveryTopicAnswers`, `OnlyDoubleStopHangs`, and the five
liveness properties of Operator). Every safety invariant and every action property that
a passing run checks is stated by a theorem as well, those of `store_serial` under the
hypotheses above.

## 5. Not modelled

* The inside of `exec.Cmd.Start` when two goroutines are in it at once, and the
  read of the map in `MarshalJSON` outside its lock: data races on structures of
  the library and the runtime.
* The retries of the notice to the led service: the notice counts as given.
* Two updates of the operator at once, by HTTP and by MQTT, which nothing excludes
  (`uploading` is written and never read): they would write one `.operator.new`. What
  comes of it depends on the file system and on go-update's inside, which is not in
  `src/`.
* How long a download takes (its client has no timeout) and the time between the
  ticks: nothing in the models has a duration.
* NpmPruneHook, which nobody uses; the setters of the IoT configuration; `Status` and
  the health reports, which read only.
* Configuration, logging, JSON, paths: no state.
* A force-push: the remote branch only gets newer.

Two defects that the models contain have no run that shows them, only a property with
an exception: an update whose interrupt is refused returns at services.go:216-218 and
leaves "updating" on a live service (`UpdatingMeansUpdate` excepts `Foreign`); and a
self-update that fails may leave no operator file, since updater.go:84-91 does not ask
whether the rollback failed (`MoveInFails`, no property).

## 6. Plan

Done in this order: Command and OneShot, ServiceStore, their proofs, GitRepo,
DaemonStore, their proofs, IotClient and Operator, SelfUpdate, their proofs. Left:

1. **SelfUpdate** with two requests at once, once it is settled what go-update does
   with a shared `.operator.new`.
2. Runs: two services in `store_serial`, one of them `Foreign` (3.4 million states, too
   many for liveness); a run of its own for the "updating" that services.go:216-218
   leaves behind; a boot that succeeds again after a power
   cut during git clone, which the present code does not promise.
3. Proofs: what is left of the store without `Undisturbed`, for instance which of its
   requests may share a name; which requests may overlap without two updates in one
   working tree.
