------------------------------ MODULE Command ------------------------------
(***************************************************************************)
(* command/command.go: a command wraps one exec.Cmd.  Goroutines call      *)
(* Start and Stop on it; every successful Start leaves behind a waiter     *)
(* goroutine that reaps the process and sends its exit error, first on     *)
(* exitError (read by Stop), then on Finish (read by Service.observe).     *)
(* Both channels have one slot.                                            *)
(*                                                                         *)
(* A step is what a goroutine does between two points where another may    *)
(* interfere.  The guards of Stop are one step: evaluating them apart      *)
(* reaches no other outcome, since Process and ProcessState only ever go   *)
(* from nil to set.  An overlap of two calls inside exec.Cmd.Start itself  *)
(* is not modelled.                                                        *)
(***************************************************************************)
CONSTANTS Cmds,     \* command objects, each made by NewCommand or Clone
          Foreign,  \* those that run as another user (sudo, main.go:283-286)
          Callers,  \* goroutines that call Start and Stop
          NoCmd     \* "no command"

ASSUME NoCmdAssumption == NoCmd \notin Cmds
ASSUME ForeignAssumption == Foreign \subseteq Cmds

VARIABLES status,       \* status[c]: the field guarded by c.mu
          proc,         \* proc[c]: the OS process behind c.Cmd.Process
          waiter,       \* waiter[c]: where the goroutine spawned by Start is
          interrupted,  \* the commands whose process was sent os.Interrupt
          exitError,    \* the commands whose exitError channel holds a value
          finish,       \* the commands whose Finish channel holds a value
          at,           \* at[g]: where goroutine g is inside Start or Stop
          target        \* target[g]: the receiver of that call

procVars == <<status, proc, waiter, interrupted, exitError, finish>>
callVars == <<at, target>>
cmdVars  == <<procVars, callVars>>

Statuses == {"idle", "error", "running", "crashed", "updating", "succeed", "stopped"}

\* How a process ends: exit 0, another exit code, or by a signal.  Only the
\* first makes Wait return nil, and for the last ProcessState.Exited() is false.
Ends == {"ok", "failed", "killed"}

\* ProcessState is set by Wait.
Reaped(c) == waiter[c] \notin {"none", "wait"}

\* Command.Status
Status(c) == IF status[c] # "stopped" /\ Reaped(c)
             THEN IF proc[c] = "ok" THEN "succeed" ELSE "crashed"
             ELSE status[c]

CallsInit == /\ interrupted = {} /\ exitError = {} /\ finish = {}
             /\ at = [g \in Callers |-> "out"]
             /\ target = [g \in Callers |-> NoCmd]

CmdInit == /\ status = [c \in Cmds |-> "idle"]
           /\ proc = [c \in Cmds |-> "none"]
           /\ waiter = [c \in Cmds |-> "none"]
           /\ CallsInit

-----------------------------------------------------------------------------
Goto(g, from, to) == /\ at[g] = from
                     /\ at' = [at EXCEPT ![g] = to]
                     /\ UNCHANGED target

\* Mutant: a call is entered before its receiver is known.
CallNoReceiver(g, method, c) == Goto(g, "out", method)

\* Entering Start ("start") or Stop ("stop"), and leaving with nil or an error.
Call(g, method, c) == /\ at[g] = "out"
                      /\ at' = [at EXCEPT ![g] = method]
                      /\ target' = [target EXCEPT ![g] = c]

Return(g) == /\ at[g] \in {"nil", "err"}
             /\ at' = [at EXCEPT ![g] = "out"]
             /\ target' = [target EXCEPT ![g] = NoCmd]

SetStatus(c, s) == status' = [status EXCEPT ![c] = s]

-----------------------------------------------------------------------------
\* Start.  exec.Cmd.Start fails when the process was already started, and may
\* fail otherwise; either way the command is marked as a booting error.
StartFails(g) == /\ Goto(g, "start", "err")
                 /\ SetStatus(target[g], "error")
                 /\ UNCHANGED <<proc, waiter, interrupted, exitError, finish>>

\* Mutant: an exec.Cmd that may be started again.
StartForksAgain(g) == LET c == target[g] IN
  /\ Goto(g, "start", "forked")
  /\ proc[c] # "live"
  /\ proc' = [proc EXCEPT ![c] = "live"]
  /\ waiter' = [waiter EXCEPT ![c] = "wait"]
  /\ UNCHANGED <<status, interrupted, exitError, finish>>

StartForks(g) == LET c == target[g] IN
  /\ Goto(g, "start", "forked")
  /\ proc[c] = "none"
  /\ proc' = [proc EXCEPT ![c] = "live"]
  /\ waiter' = [waiter EXCEPT ![c] = "wait"]
  /\ UNCHANGED <<status, interrupted, exitError, finish>>

MarkRunning(g) == /\ Goto(g, "forked", "nil")
                  /\ SetStatus(target[g], "running")
                  /\ UNCHANGED <<proc, waiter, interrupted, exitError, finish>>

\* Stop, one disjunct per early return and one for going on to the signal.
NothingToStop(c) == \/ status[c] \in {"crashed", "error"}
                    \/ proc[c] = "none"
                    \/ Reaped(c) /\ proc[c] # "killed"

\* Mutant: Stop marks the command before it signals the process.
StopMarksFirst(g) == LET c == target[g] IN
  /\ \/ Goto(g, "stop", "err") /\ status[c] = "stopped" /\ UNCHANGED status
     \/ Goto(g, "stop", "nil") /\ status[c] # "stopped" /\ NothingToStop(c) /\ UNCHANGED status
     \/ Goto(g, "stop", "signal") /\ status[c] # "stopped" /\ ~NothingToStop(c) /\ SetStatus(c, "stopped")
  /\ UNCHANGED <<proc, waiter, interrupted, exitError, finish>>

StopChecks(g) == LET c == target[g] IN
  /\ \/ Goto(g, "stop", "err") /\ status[c] = "stopped"
     \/ Goto(g, "stop", "nil") /\ status[c] # "stopped" /\ NothingToStop(c)
     \/ Goto(g, "stop", "signal") /\ status[c] # "stopped" /\ ~NothingToStop(c)
  /\ UNCHANGED procVars

\* Process.Signal fails on a process that has been waited for, and may be
\* refused (EPERM) on one that lives but belongs to another user.
SignalFails(g) == /\ Goto(g, "signal", "err")
                  /\ Reaped(target[g]) \/ target[g] \in Foreign
                  /\ UNCHANGED procVars

\* Mutant: a signal that only probes the process.
SignalProbes(g) == Goto(g, "signal", "mark") /\ ~Reaped(target[g]) /\ UNCHANGED procVars

Signal(g) == /\ Goto(g, "signal", "mark")
             /\ ~Reaped(target[g])
             /\ interrupted' = interrupted \cup {target[g]}
             /\ UNCHANGED <<status, proc, waiter, exitError, finish>>

\* Mutant: Stop does not wait for the process to end.
MarkStoppedNoWait(g) == /\ Goto(g, "mark", "nil")
                        /\ SetStatus(target[g], "stopped")
                        /\ UNCHANGED <<proc, waiter, interrupted, exitError, finish>>

MarkStopped(g) == /\ Goto(g, "mark", "recv")
                  /\ SetStatus(target[g], "stopped")
                  /\ UNCHANGED <<proc, waiter, interrupted, exitError, finish>>

\* Mutant: a receive that does not wait for a value.
RecvExitNow(g) == /\ Goto(g, "recv", "nil")
                  /\ exitError' = exitError \ {target[g]}
                  /\ UNCHANGED <<status, proc, waiter, interrupted, finish>>

RecvExit(g) == LET c == target[g] IN
  /\ at[g] = "recv" /\ c \in exitError
  /\ Goto(g, "recv", IF proc[c] = "ok" THEN "nil" ELSE "err")
  /\ exitError' = exitError \ {c}
  /\ UNCHANGED <<status, proc, waiter, interrupted, finish>>

CallStep(g) == \/ StartFails(g) \/ StartForks(g) \/ MarkRunning(g)
               \/ StopChecks(g) \/ SignalFails(g) \/ Signal(g)
               \/ MarkStopped(g) \/ RecvExit(g)

-----------------------------------------------------------------------------
ProcessEnds(c) == /\ proc[c] = "live"
                  /\ \E how \in Ends : proc' = [proc EXCEPT ![c] = how]
                  /\ UNCHANGED <<status, waiter, interrupted, exitError, finish>>

\* The waiter goroutine.
\* Mutant: it looks at the process before that has ended.
ReapEarly(c) == /\ waiter[c] = "wait"
                /\ waiter' = [waiter EXCEPT ![c] = IF proc[c] = "ok" THEN "exit" ELSE "crash"]
                /\ UNCHANGED <<status, proc, interrupted, exitError, finish>>

Reap(c) == /\ waiter[c] = "wait"
           /\ proc[c] \in Ends
           /\ waiter' = [waiter EXCEPT ![c] = IF proc[c] = "ok" THEN "exit" ELSE "crash"]
           /\ UNCHANGED <<status, proc, interrupted, exitError, finish>>

\* Mutant: the error branch sends the error too.
MarkCrashedSends(c) == /\ waiter[c] = "crash"
                       /\ waiter' = [waiter EXCEPT ![c] = "exit"]
                       /\ exitError' = exitError \cup {c}
                       /\ SetStatus(c, "crashed")
                       /\ UNCHANGED <<proc, interrupted, finish>>

MarkCrashed(c) == /\ waiter[c] = "crash"
                  /\ waiter' = [waiter EXCEPT ![c] = "exit"]
                  /\ SetStatus(c, "crashed")
                  /\ UNCHANGED <<proc, interrupted, exitError, finish>>

SendExit(c) == /\ waiter[c] = "exit"
               /\ c \notin exitError
               /\ exitError' = exitError \cup {c}
               /\ waiter' = [waiter EXCEPT ![c] = "finish"]
               /\ UNCHANGED <<status, proc, interrupted, finish>>

SendFinish(c) == /\ waiter[c] = "finish"
                 /\ c \notin finish
                 /\ finish' = finish \cup {c}
                 /\ waiter' = [waiter EXCEPT ![c] = "done"]
                 /\ UNCHANGED <<status, proc, interrupted, exitError>>

WaiterStep(c) == Reap(c) \/ MarkCrashed(c) \/ SendExit(c) \/ SendFinish(c)

\* The receive of Service.observe, and the SetStatus calls of Service.Update.
RecvFinish(c) == /\ c \in finish
                 /\ finish' = finish \ {c}
                 /\ UNCHANGED <<status, proc, waiter, interrupted, exitError>>

Overwrite(c) == /\ \E s \in Statuses : SetStatus(c, s)
                /\ UNCHANGED <<proc, waiter, interrupted, exitError, finish>>

Enter(g) == /\ \E m \in {"start", "stop"}, c \in Cmds : Call(g, m, c)
            /\ UNCHANGED procVars

Leave(g) == Return(g) /\ UNCHANGED procVars

CmdNext == \/ \E g \in Callers : CallStep(g) \/ Enter(g) \/ Leave(g)
           \/ \E c \in Cmds : /\ ProcessEnds(c) \/ WaiterStep(c) \/ RecvFinish(c) \/ Overwrite(c)
                              /\ UNCHANGED callVars

CmdSpec == CmdInit /\ [][CmdNext]_cmdVars

\* Goroutines are scheduled, and a process that was interrupted ends.  Nothing
\* says that a process ends on its own, or that anyone calls Start or Stop.
CmdFairness ==
  /\ \A g \in Callers : WF_cmdVars(CallStep(g))
  /\ \A c \in Cmds : /\ WF_cmdVars(WaiterStep(c) /\ UNCHANGED callVars)
                     /\ WF_cmdVars(c \in interrupted /\ ProcessEnds(c) /\ UNCHANGED callVars)

FairCmdSpec == CmdSpec /\ CmdFairness
-----------------------------------------------------------------------------
\* Type invariant of the command objects and of the calls in progress.
CmdTypeOK ==
  /\ status \in [Cmds -> Statuses]
  /\ proc \in [Cmds -> {"none", "live"} \cup Ends]
  /\ waiter \in [Cmds -> {"none", "wait", "crash", "exit", "finish", "done"}]
  /\ interrupted \subseteq Cmds /\ exitError \subseteq Cmds /\ finish \subseteq Cmds
  /\ at \in [Callers -> {"out", "start", "forked", "stop", "signal", "mark", "recv", "nil", "err"}]
  /\ target \in [Callers -> Cmds \cup {NoCmd}]
  /\ \A g \in Callers : at[g] # "out" => target[g] \in Cmds

\* The goroutine that waits for a process never blocks on either of its
\* one-slot channels, however many Stops and observers read them
\* (command.go:174-181): otherwise it would leak and the exit would be lost.
WaiterNeverBlocks ==
  \A c \in Cmds : /\ waiter[c] = "exit" => c \notin exitError
                  /\ waiter[c] = "finish" => c \notin finish

\* What the channels hold follows the process: there is a waiter once there is
\* a process, it goes past Wait only when the process has ended, and an exit
\* error or a finish is there only after the waiter sent it (command.go:174-181).
ExitsInOrder ==
  /\ \A c \in Cmds : /\ waiter[c] = "none" <=> proc[c] = "none"
                     /\ Reaped(c) => proc[c] \in Ends
  /\ \A c \in exitError : waiter[c] \in {"finish", "done"}
  /\ \A c \in finish : waiter[c] = "done"

\* A Stop that has sent the signal comes back only once the process has ended
\* and has been reaped (command.go:152-158): its caller may start a clone.
StopReturnsAfterExit ==
  [][\A g \in Callers :
       at[g] = "recv" /\ at'[g] # "recv"
         => proc[target[g]] \in Ends /\ Reaped(target[g])]_cmdVars

\* A command implements OneShot: launched once, ended once, reported after the
\* end, told to one caller (command.go:129-186).
Life(c) == IF proc[c] = "none" THEN "new"
           ELSE IF proc[c] = "live" THEN "live"
           ELSE IF waiter[c] \in {"finish", "done"} THEN "reported" ELSE "dead"

Lives == INSTANCE OneShot WITH
           life <- [c \in Cmds |-> Life(c)],
           told <- {c \in Cmds : waiter[c] \in {"finish", "done"} /\ c \notin exitError}

ImplementsOneShot == Lives!Spec

\* A process that was interrupted is reaped and its exit is handed to a
\* caller that waits for it (command.go:156-158, 174-181).
InterruptIsAnswered ==
  \A g \in Callers, c \in Cmds :
    at[g] = "recv" /\ target[g] = c
      ~> waiter[c] = "done" /\ c \notin exitError
=============================================================================
