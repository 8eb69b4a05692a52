--------------------------- MODULE CommandProofs ---------------------------
(***************************************************************************)
(* What TLAPS proves of module Command, for any set of commands and any    *)
(* set of goroutines that call them.  CmdTypeOK /\ ExitsInOrder is the     *)
(* inductive invariant everything else follows from.                       *)
(***************************************************************************)
EXTENDS Command, TLAPS

CmdInv == CmdTypeOK /\ ExitsInOrder

\* The commands start idle, without a process and with empty channels.
LEMMA InitInv == CmdInit => CmdInv
  BY DEF CmdInit, CallsInit, CmdInv, CmdTypeOK, ExitsInOrder, Reaped, Statuses, Ends

\* A goroutine that takes a step of Start or Stop keeps the types.
LEMMA CallStepTypes ==
  ASSUME CmdInv, NEW g \in Callers, CallStep(g)
  PROVE  CmdTypeOK'
<1>0. /\ target[g] \in Cmds
      /\ proc[target[g]] \in {"none", "live"} \cup Ends
  BY DEF CmdInv, CmdTypeOK, CallStep, StartFails, StartForks, MarkRunning, StopChecks,
         SignalFails, Signal, MarkStopped, RecvExit, Goto
<1> USE DEF CmdInv, CmdTypeOK, Goto, SetStatus, Statuses, procVars
<1>1. CASE StartFails(g)   BY <1>0, <1>1 DEF StartFails
<1>2. CASE StartForks(g)   BY <1>0, <1>2 DEF StartForks
<1>3. CASE MarkRunning(g)  BY <1>0, <1>3 DEF MarkRunning
<1>4. CASE StopChecks(g)   BY <1>0, <1>4 DEF StopChecks
<1>5. CASE SignalFails(g)  BY <1>0, <1>5 DEF SignalFails
<1>6. CASE Signal(g)       BY <1>0, <1>6 DEF Signal
<1>7. CASE MarkStopped(g)  BY <1>0, <1>7 DEF MarkStopped
<1>8. CASE RecvExit(g)     BY <1>0, <1>8 DEF RecvExit
<1> QED BY <1>1, <1>2, <1>3, <1>4, <1>5, <1>6, <1>7, <1>8 DEF CallStep

\* ... and the order of exits: only the waiter sends, and only a receiver takes.
LEMMA CallStepOrder ==
  ASSUME CmdInv, NEW g \in Callers, CallStep(g)
  PROVE  ExitsInOrder'
<1>0. target[g] \in Cmds
  BY DEF CmdInv, CmdTypeOK, CallStep, StartFails, StartForks, MarkRunning, StopChecks,
         SignalFails, Signal, MarkStopped, RecvExit, Goto
<1> USE DEF CmdInv, ExitsInOrder, Reaped, procVars
<1>1. CASE UNCHANGED <<proc, waiter, exitError, finish>>
  BY <1>1
<1>2. CASE StartForks(g)
  BY <1>0, <1>2 DEF StartForks, CmdTypeOK, Ends
<1>3. CASE RecvExit(g)
  BY <1>3 DEF RecvExit
<1> QED BY <1>1, <1>2, <1>3
        DEF CallStep, StartFails, MarkRunning, StopChecks, SignalFails, Signal, MarkStopped

\* The end of a process, a step of its waiter, a receive on Finish and a call of
\* SetStatus keep the invariant.
LEMMA CommandStepInv ==
  ASSUME CmdInv, UNCHANGED callVars, NEW c \in Cmds,
         ProcessEnds(c) \/ WaiterStep(c) \/ RecvFinish(c) \/ Overwrite(c)
  PROVE  CmdInv'
<1> USE DEF CmdInv, CmdTypeOK, ExitsInOrder, Reaped, Ends, Statuses, SetStatus, callVars
<1>1. CASE ProcessEnds(c)  BY <1>1 DEF ProcessEnds
<1>2. CASE Reap(c)         BY <1>2 DEF Reap
<1>3. CASE MarkCrashed(c)  BY <1>3 DEF MarkCrashed
<1>4. CASE SendExit(c)     BY <1>4 DEF SendExit
<1>5. CASE SendFinish(c)   BY <1>5 DEF SendFinish
<1>6. CASE RecvFinish(c)   BY <1>6 DEF RecvFinish
<1>7. CASE Overwrite(c)    BY <1>7 DEF Overwrite
<1> QED BY <1>1, <1>2, <1>3, <1>4, <1>5, <1>6, <1>7 DEF WaiterStep

LEMMA StepInv == CmdInv /\ [CmdNext]_cmdVars => CmdInv'
<1> SUFFICES ASSUME CmdInv, [CmdNext]_cmdVars PROVE CmdInv'
  OBVIOUS
<1>1. ASSUME NEW g \in Callers, CallStep(g) PROVE CmdInv'
  BY <1>1, CallStepTypes, CallStepOrder DEF CmdInv
<1>2. ASSUME NEW g \in Callers, Enter(g) PROVE CmdInv'
  BY <1>2 DEF Enter, Call, CmdInv, CmdTypeOK, ExitsInOrder, Reaped, procVars
<1>3. ASSUME NEW g \in Callers, Leave(g) PROVE CmdInv'
  BY <1>3 DEF Leave, Return, CmdInv, CmdTypeOK, ExitsInOrder, Reaped, procVars
<1>4. ASSUME UNCHANGED cmdVars PROVE CmdInv'
  BY <1>4 DEF cmdVars, procVars, callVars, CmdInv, CmdTypeOK, ExitsInOrder, Reaped
<1> QED BY <1>1, <1>2, <1>3, <1>4, CommandStepInv DEF CmdNext

THEOREM CmdInvariant == CmdSpec => []CmdInv
  BY InitInv, StepInv, PTL DEF CmdSpec

-----------------------------------------------------------------------------
\* Type correctness of the command objects and of the calls on them.
THEOREM CmdTypeCorrect == CmdSpec => []CmdTypeOK
  BY CmdInvariant, PTL DEF CmdInv

\* A channel holds a value only once the waiter has sent it, which it does only
\* after the process has ended.
THEOREM ExitsAreInOrder == CmdSpec => []ExitsInOrder
  BY CmdInvariant, PTL DEF CmdInv

\* The waiter goroutine of a command never blocks on exitError or on Finish.
THEOREM WaiterIsNeverBlocked == CmdSpec => []WaiterNeverBlocks
<1>1. CmdInv => WaiterNeverBlocks
  BY DEF CmdInv, ExitsInOrder, WaiterNeverBlocks
<1> QED BY <1>1, CmdInvariant, PTL

\* A Stop that has sent its signal returns only after the process was reaped.
THEOREM StopWaitsForExit == CmdSpec => StopReturnsAfterExit
<1> DEFINE Waits == \A g \in Callers :
             at[g] = "recv" /\ at'[g] # "recv"
               => proc[target[g]] \in Ends /\ Reaped(target[g])
<1>1. ASSUME CmdInv, CmdNext PROVE Waits
  <2> SUFFICES ASSUME NEW g \in Callers, at[g] = "recv", at'[g] # "recv"
               PROVE  proc[target[g]] \in Ends /\ Reaped(target[g])
    OBVIOUS
  <2>0. at \in [Callers -> {"out", "start", "forked", "stop", "signal",
                            "mark", "recv", "nil", "err"}]
    BY <1>1 DEF CmdInv, CmdTypeOK
  <2>1. ASSUME NEW h \in Callers, CallStep(h)
        PROVE  h = g /\ RecvExit(g)
    BY <2>0, <2>1 DEF CallStep, StartFails, StartForks, MarkRunning, StopChecks,
                      SignalFails, Signal, MarkStopped, RecvExit, Goto
  <2>2. ASSUME RecvExit(g)
        PROVE  proc[target[g]] \in Ends /\ Reaped(target[g])
    BY <1>1, <2>2 DEF RecvExit, CmdInv, CmdTypeOK, ExitsInOrder, Reaped
  <2>3. ASSUME NEW h \in Callers, Enter(h) \/ Leave(h) PROVE FALSE
    BY <2>0, <2>3 DEF Enter, Call, Leave, Return
  <2>4. UNCHANGED callVars => FALSE
    BY DEF callVars
  <2> QED BY <1>1, <2>1, <2>2, <2>3, <2>4 DEF CmdNext
<1>2. CmdInv /\ [CmdNext]_cmdVars => [Waits]_cmdVars
  BY <1>1
<1> QED BY <1>2, CmdInvariant, PTL DEF CmdSpec, StopReturnsAfterExit

-----------------------------------------------------------------------------
\* Refinement: where a command stands in its life moves only when its process is
\* forked, ends, is reported on exitError, or is told to the Stop that waits.
LEMMA LivesInit == CmdInit => Lives!Init
  BY DEF CmdInit, CallsInit, Lives!Init, Life

\* No step that leaves processes, waiters and exitError alone is seen.
LEMMA LivesStutter ==
  ASSUME UNCHANGED <<proc, waiter, exitError>>
  PROVE  UNCHANGED Lives!lifeVars
  BY DEF Lives!lifeVars, Life

LEMMA LaunchStep ==
  ASSUME CmdInv, NEW g \in Callers, StartForks(g)
  PROVE  Lives!Launch(target[g])
<1> DEFINE c == target[g]
<1>1. /\ c \in Cmds /\ proc[c] = "none"
      /\ proc' = [proc EXCEPT ![c] = "live"]
      /\ waiter' = [waiter EXCEPT ![c] = "wait"]
      /\ exitError' = exitError
  BY DEF StartForks, CmdInv, CmdTypeOK, Goto
<1>2. waiter[c] = "none"
  BY <1>1 DEF CmdInv, ExitsInOrder
<1> HIDE DEF c
<1>3. \A d \in Cmds : Life(d)' = IF d = c THEN "live" ELSE Life(d)
  BY <1>1 DEF Life, CmdInv, CmdTypeOK
<1>4. Life(c) = "new"
  BY <1>1 DEF Life
<1>5. \A d \in Cmds : waiter'[d] \in {"finish", "done"} <=> waiter[d] \in {"finish", "done"}
  BY <1>1, <1>2 DEF CmdInv, CmdTypeOK
<1>6. Lives!Launch(c)
  BY <1>1, <1>3, <1>4, <1>5 DEF Lives!Launch, Lives!Advance
<1> QED BY <1>6 DEF c

LEMMA DieStep ==
  ASSUME CmdInv, NEW c \in Cmds, ProcessEnds(c)
  PROVE  Lives!Die(c)
<1>1. waiter[c] = "wait"
  BY DEF ProcessEnds, CmdInv, CmdTypeOK, ExitsInOrder, Reaped, Ends
<1>2. PICK how \in Ends : proc' = [proc EXCEPT ![c] = how]
  BY DEF ProcessEnds
<1>3. \A d \in Cmds : Life(d)' = IF d = c THEN "dead" ELSE Life(d)
  BY <1>1, <1>2 DEF ProcessEnds, Life, CmdInv, CmdTypeOK, Ends
<1>4. Life(c) = "live"
  BY DEF ProcessEnds, Life
<1> QED BY <1>3, <1>4 DEF ProcessEnds, Lives!Die, Lives!Advance

LEMMA ReportStep ==
  ASSUME CmdInv, NEW c \in Cmds, SendExit(c)
  PROVE  Lives!Report(c)
<1>1. proc[c] \in Ends
  BY DEF SendExit, CmdInv, ExitsInOrder, Reaped
<1>2. \A d \in Cmds : Life(d)' = IF d = c THEN "reported" ELSE Life(d)
  BY <1>1 DEF SendExit, Life, CmdInv, CmdTypeOK, Ends
<1>3. Life(c) = "dead"
  BY <1>1 DEF SendExit, Life, Ends
<1>4. \A d \in Cmds : (waiter'[d] \in {"finish", "done"} /\ d \notin exitError')
                        <=> (waiter[d] \in {"finish", "done"} /\ d \notin exitError)
  BY DEF SendExit, CmdInv, CmdTypeOK
<1> QED BY <1>2, <1>3, <1>4 DEF Lives!Report, Lives!Advance

LEMMA TellStep ==
  ASSUME CmdInv, NEW g \in Callers, RecvExit(g)
  PROVE  Lives!Next
<1>1. PICK c \in exitError : /\ exitError' = exitError \ {c}
                             /\ UNCHANGED <<proc, waiter>>
  BY DEF RecvExit
<1>2. c \in Cmds /\ waiter[c] \in {"finish", "done"} /\ proc[c] \in Ends
  BY DEF CmdInv, CmdTypeOK, ExitsInOrder, Reaped
<1>3. Life(c) = "reported" /\ \A d \in Cmds : Life(d)' = Life(d)
  BY <1>1, <1>2 DEF Life, Ends
<1>4. Lives!Tell(c)
  BY <1>1, <1>2, <1>3 DEF Lives!Tell
<1> QED BY <1>2, <1>4 DEF Lives!Next

\* The other steps of a waiter do not show: the command is dead, or reported.
LEMMA WaiterStutter ==
  ASSUME CmdInv, NEW c \in Cmds, Reap(c) \/ MarkCrashed(c) \/ SendFinish(c)
  PROVE  UNCHANGED Lives!lifeVars
<1>1. /\ UNCHANGED <<proc, exitError>>
      /\ proc[c] \in Ends
      /\ \A d \in Cmds : waiter'[d] \in {"finish", "done"} <=> waiter[d] \in {"finish", "done"}
  BY DEF Reap, MarkCrashed, SendFinish, CmdInv, CmdTypeOK, ExitsInOrder, Reaped, Ends
<1>2. \A d \in Cmds : Life(d)' = Life(d)
  BY <1>1 DEF Life
<1> QED BY <1>1, <1>2 DEF Lives!lifeVars

LEMMA LivesNext == CmdInv /\ [CmdNext]_cmdVars => [Lives!Next]_(Lives!lifeVars)
<1> SUFFICES ASSUME CmdInv, [CmdNext]_cmdVars
             PROVE  Lives!Next \/ UNCHANGED Lives!lifeVars
  OBVIOUS
<1>1. ASSUME NEW g \in Callers, CallStep(g)
      PROVE  Lives!Next \/ UNCHANGED Lives!lifeVars
  <2>0. target[g] \in Cmds
    BY <1>1 DEF CmdInv, CmdTypeOK, CallStep, StartFails, StartForks, MarkRunning, StopChecks,
                SignalFails, Signal, MarkStopped, RecvExit, Goto
  <2>1. CASE StartForks(g)  BY <2>0, <2>1, LaunchStep DEF Lives!Next
  <2>2. CASE RecvExit(g)    BY <2>2, TellStep
  <2>3. CASE UNCHANGED <<proc, waiter, exitError>>
    BY <2>3, LivesStutter
  <2> QED BY <1>1, <2>1, <2>2, <2>3 DEF CallStep, StartFails, MarkRunning, StopChecks,
             SignalFails, Signal, MarkStopped, procVars
<1>2. ASSUME NEW c \in Cmds, ProcessEnds(c) \/ WaiterStep(c) \/ RecvFinish(c) \/ Overwrite(c)
      PROVE  Lives!Next \/ UNCHANGED Lives!lifeVars
  <2>1. CASE ProcessEnds(c)  BY <2>1, DieStep DEF Lives!Next
  <2>2. CASE SendExit(c)     BY <2>2, ReportStep DEF Lives!Next
  <2>3. CASE Reap(c) \/ MarkCrashed(c) \/ SendFinish(c)
    BY <2>3, WaiterStutter
  <2>4. CASE RecvFinish(c) \/ Overwrite(c)
    BY <2>4, LivesStutter DEF RecvFinish, Overwrite
  <2> QED BY <1>2, <2>1, <2>2, <2>3, <2>4 DEF WaiterStep
<1>3. ASSUME \/ \E g \in Callers : Enter(g) \/ Leave(g)
             \/ UNCHANGED cmdVars
      PROVE  UNCHANGED Lives!lifeVars
  BY <1>3, LivesStutter DEF Enter, Leave, cmdVars, procVars
<1> QED BY <1>1, <1>2, <1>3 DEF CmdNext

\* A command implements the one-shot command: it is launched once, ends once,
\* reports its end after it, and tells it to one caller.
THEOREM CommandIsOneShot == CmdSpec => ImplementsOneShot
  BY LivesInit, LivesNext, CmdInvariant, PTL DEF CmdSpec, ImplementsOneShot, Lives!Spec
=============================================================================
