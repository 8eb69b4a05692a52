---------------------------- MODULE DaemonProofs ----------------------------
(***************************************************************************)
(* DaemonStore for any daemons and repositories, shared in any way.  The   *)
(* invariant has that of GitRepo in it, since a unit loads what a          *)
(* repository has checked out; that the store uses its repositories as     *)
(* GitRepo allows needs the message in progress to name a daemon.          *)
(***************************************************************************)
EXTENDS DaemonStore, GitProofs

DaemonInv == RepoInv /\ DaemonTypeOK /\ UpdatingMeansMessage

\* What a step does to the repositories is a step of GitRepo.
LEMMA StepIsRepoStep ==
  ASSUME DaemonAssumption, DaemonTypeOK, [Next]_vars
  PROVE  [RepoNext]_repoVars
<1>0. Main \in Callers /\ Mqtt \in Callers /\ online \in BOOLEAN /\ \A d \in Daemons : RepoOf[d] \in Repos
  BY DEF DaemonAssumption, DaemonTypeOK
<1>1. ASSUME NEW d \in Daemons, BootDaemon(d) PROVE RepoNext
  BY <1>0, <1>1 DEF BootDaemon, RepoNext
<1>2. ASSUME DaemonBooted \/ EndUpdate PROVE RepoNext
  BY <1>0, <1>2 DEF DaemonBooted, EndUpdate, RepoNext
<1>3. ASSUME BeginUpdate PROVE RepoNext
  <2>1. job.daemon \in Daemons
    BY <1>3 DEF BeginUpdate, DaemonTypeOK
  <2>2. QED BY <1>0, <1>3, <2>1 DEF BeginUpdate, RepoNext
<1>4. ASSUME OperatorRestarts \/ PowerCut PROVE RepoNext
  BY <1>4 DEF OperatorRestarts, PowerCut, RepoNext
<1>5. ASSUME \/ \E g \in Callers : RepoStep(g)
             \/ \E r \in Repos : Push(r)
      PROVE  RepoNext
  BY <1>5 DEF RepoNext
<1>6. ASSUME \/ \E d \in Daemons : UnitEnds(d) \/ \E op \in Topics : Message(op, d)
             \/ Systemctl \/ SystemctlFails \/ UNCHANGED vars
      PROVE  UNCHANGED repoVars
  BY <1>6 DEF UnitEnds, Message, Systemctl, SystemctlFails, vars, repoVars
<1>7. QED BY <1>1, <1>2, <1>3, <1>4, <1>5, <1>6 DEF Next

\* main starts with every daemon still to be bootstrapped.
LEMMA DaemonInit == DaemonAssumption /\ RepoAssumption /\ Init => DaemonInv
<1> SUFFICES ASSUME DaemonAssumption, RepoAssumption, Init PROVE DaemonInv
  OBVIOUS
<1>1. RepoInv
  BY InitHolds DEF Init
<1>2. DaemonTypeOK /\ UpdatingMeansMessage
  BY DEF Init, Booting, Idle, DaemonTypeOK, UpdatingMeansMessage, Topics, Revisions, RepoAssumption
<1>3. QED BY <1>1, <1>2 DEF DaemonInv

\* Every step keeps the daemons well-typed, and the flag with its message.
LEMMA DaemonStep ==
  ASSUME DaemonAssumption, RepoAssumption, DaemonInv, [Next]_vars
  PROVE  DaemonInv'
<1>0. /\ DaemonTypeOK /\ UpdatingMeansMessage
      /\ \A r \in Repos : head[r] \in Revisions /\ tree[r] \in Revisions
      /\ \A d \in Daemons : RepoOf[d] \in Repos
      /\ 0 \in Revisions
  BY DEF DaemonInv, RepoInv, GitTypeOK, DaemonAssumption, RepoAssumption, Revisions
<1>1. RepoInv'
  BY StepIsRepoStep, RepoInvKept DEF DaemonInv
<1>2. ASSUME NEW d \in Daemons, BootDaemon(d) PROVE (DaemonTypeOK /\ UpdatingMeansMessage)'
  BY <1>0, <1>2 DEF BootDaemon, unitVars, DaemonTypeOK, UpdatingMeansMessage
<1>3. ASSUME NEW d \in Daemons, UnitEnds(d) PROVE (DaemonTypeOK /\ UpdatingMeansMessage)'
  BY <1>0, <1>3 DEF UnitEnds, bootVars, DaemonTypeOK, UpdatingMeansMessage
<1>4. ASSUME NEW d \in Daemons, NEW op \in Topics, Message(op, d)
      PROVE  (DaemonTypeOK /\ UpdatingMeansMessage)'
  BY <1>0, <1>4 DEF Message, Idle, unitVars, bootVars, DaemonTypeOK, UpdatingMeansMessage
<1>5. ASSUME DaemonBooted PROVE (DaemonTypeOK /\ UpdatingMeansMessage)'
  BY <1>0, <1>5 DEF DaemonBooted, unitVars, DaemonTypeOK, UpdatingMeansMessage
<1>6. ASSUME BeginUpdate PROVE (DaemonTypeOK /\ UpdatingMeansMessage)'
  <2>1. /\ job.daemon \in Daemons /\ head[RepoOf[job.daemon]] \in Revisions
        /\ \A d \in Daemons : ~updating[d]
    BY <1>0, <1>6 DEF BeginUpdate, DaemonTypeOK, UpdatingMeansMessage
  <2>2. /\ job'.op = job.op /\ job'.daemon = job.daemon /\ job'.pc = "git"
        /\ job' \in [op : Topics \cup {"none"}, daemon : Daemons \cup {NoDaemon},
                     pc : {"idle", "begin", "git", "systemctl"}, old : Revisions]
    BY <1>0, <1>6, <2>1 DEF BeginUpdate, DaemonTypeOK
  <2>3. QED
    BY <1>0, <1>6, <2>1, <2>2 DEF BeginUpdate, unitVars, bootVars, DaemonTypeOK, UpdatingMeansMessage
<1>7. ASSUME EndUpdate PROVE (DaemonTypeOK /\ UpdatingMeansMessage)'
  BY <1>0, <1>7 DEF EndUpdate, Idle, unitVars, bootVars, DaemonTypeOK, UpdatingMeansMessage
<1>8. ASSUME Systemctl PROVE (DaemonTypeOK /\ UpdatingMeansMessage)'
  BY <1>0, <1>8 DEF Systemctl, Idle, bootVars, DaemonTypeOK, UpdatingMeansMessage
<1>9. ASSUME SystemctlFails PROVE (DaemonTypeOK /\ UpdatingMeansMessage)'
  BY <1>0, <1>9 DEF SystemctlFails, Idle, bootVars, DaemonTypeOK, UpdatingMeansMessage
<1>10. ASSUME UNCHANGED daemonVars PROVE (DaemonTypeOK /\ UpdatingMeansMessage)'
  BY <1>0, <1>10 DEF daemonVars, unitVars, bootVars, DaemonTypeOK, UpdatingMeansMessage
<1>11. ASSUME OperatorRestarts PROVE (DaemonTypeOK /\ UpdatingMeansMessage)'
  BY <1>0, <1>11 DEF OperatorRestarts, Reboot, Idle, unitVars, DaemonTypeOK, UpdatingMeansMessage
<1>12. ASSUME PowerCut PROVE (DaemonTypeOK /\ UpdatingMeansMessage)'
  BY <1>0, <1>12 DEF PowerCut, GoDown, Reboot, Idle, DaemonTypeOK, UpdatingMeansMessage
<1>13. (DaemonTypeOK /\ UpdatingMeansMessage)'
  BY <1>2, <1>3, <1>4, <1>5, <1>6, <1>7, <1>8, <1>9, <1>10, <1>11, <1>12 DEF Next, vars
<1>14. QED BY <1>1, <1>13 DEF DaemonInv

\* Repositories, daemons and messages in every reachable state.
THEOREM DaemonInvariant == Spec => []DaemonInv
<1>1. Init => DaemonInv
  BY DaemonInit, DaemonAssumption, RepoAssumption
<1>2. DaemonInv /\ [Next]_vars => DaemonInv'
  BY DaemonStep, DaemonAssumption, RepoAssumption
<1>3. QED BY <1>1, <1>2, PTL DEF Spec

\* Daemons and the message in progress are well-typed (daemon.go:50-56).
THEOREM DaemonTypeCorrect == Spec => []DaemonTypeOK
  BY DaemonInvariant, PTL DEF DaemonInv

\* However an update ends, no daemon is left that shows as updating
\* (daemon.go:118-126).
THEOREM NoDaemonStaysUpdating == Spec => []UpdatingMeansMessage
  BY DaemonInvariant, PTL DEF DaemonInv

\* The daemons use their repositories as GitRepo says.
THEOREM DaemonsUseRepos == Spec => UsesRepos
<1>1. Init => GitInit
  BY DEF Init
<1>2. DaemonInv /\ [Next]_vars => [RepoNext]_repoVars
  BY StepIsRepoStep, DaemonAssumption DEF DaemonInv
<1>3. QED BY <1>1, <1>2, DaemonInvariant, PTL DEF Spec, UsesRepos, RepoSpec

\* So their versions are never ahead of their code, with repositories shared
\* by daemons (main.go:259-263).
THEOREM DaemonVersionsInOrder == Spec => []VersionNeverAhead
  BY DaemonsUseRepos, VersionsInOrder, PTL DEF UsesRepos

-----------------------------------------------------------------------------
(***************************************************************************)
(* What an update of a daemon does with the code.  It rests on there being *)
(* one call to a repository at a time (OneCall): main is through before    *)
(* the topics are served, and MQTT serves them one by one.  With           *)
(* overlapping calls none of it would hold, only what GitProofs has.       *)
(***************************************************************************)

\* What a call without another one beside it knows of the working tree.
CodeOf(g) == LET r == Repo(g) IN
  /\ Pc(g) = "head" => call[g].log = tree[r]
  /\ Pc(g) \in {"hooks", "nil"} => head[r] = tree[r]

\* Where an update is that began with head old: a new head is only left behind by a
\* reset, and then the hook has to run.
UpdateOf(g, old) == LET r == Repo(g) IN
  /\ Pc(g) \in {"fetch", "parse", "reset", "log", "head", "hooks", "nil", "err"}
  /\ call[g].updated = FALSE
  /\ Pc(g) \in {"log", "head"} => call[g].next = "hooks"
  /\ old <= head[r]
  /\ Pc(g) \in {"fetch", "parse", "reset"} => head[r] = old
  /\ Pc(g) = "nil" => head[r] = old \/ deps[r] = tree[r]

OneCall == /\ Pc(Main) # "out" => phase = "booting"
           /\ Pc(Mqtt) # "out" => job.pc = "git"
           /\ job.pc # "idle" => phase = "up"

UpdateInOrder ==
  /\ job.pc = "begin" => job.op = "update"
  /\ job.pc = "git" => /\ job.op = "update" /\ Repo(Mqtt) = RepoOf[job.daemon]
                       /\ UpdateOf(Mqtt, job.old)
  /\ job.op = "update" /\ job.pc = "systemctl" =>
       LET r == RepoOf[job.daemon] IN tree[r] = head[r] /\ deps[r] = tree[r] /\ job.old < head[r]

CodeInv == /\ DaemonInv /\ OneCall /\ UpdateInOrder
           /\ \A g \in Callers : Pc(g) # "out" => CodeOf(g)

\* A step of git that is alone on the repositories.
LEMMA StepEffect ==
  ASSUME RepoAssumption, RepoInv, NEW g \in Callers, RepoStep(g), CodeOf(g)
  PROVE  /\ Repo(g) \in Repos /\ Pc(g) # "out" /\ Pc(g)' # "out" /\ Repo(g)' = Repo(g)
         /\ \A h \in Callers \ {g} : call'[h] = call[h]
         /\ \A q \in Repos \ {Repo(g)} : head'[q] = head[q] /\ tree'[q] = tree[q] /\ deps'[q] = deps[q]
         /\ crashes' = crashes
         /\ head[Repo(g)] <= head'[Repo(g)]
         /\ CodeOf(g)'
         /\ \A old \in Revisions : UpdateOf(g, old) => UpdateOf(g, old)'
<1> DEFINE Effect ==
         /\ Pc(g) # "out" /\ Pc(g)' # "out" /\ Repo(g)' = Repo(g)
         /\ \A h \in Callers \ {g} : call'[h] = call[h]
         /\ \A q \in Repos \ {Repo(g)} : head'[q] = head[q] /\ tree'[q] = tree[q] /\ deps'[q] = deps[q]
         /\ crashes' = crashes
         /\ head[Repo(g)] <= head'[Repo(g)]
         /\ CodeOf(g)'
         /\ \A old \in Revisions : UpdateOf(g, old) => UpdateOf(g, old)'
<1>0. GitTypeOK /\ call[g] \in Calls /\ Repo(g) \in Repos
  BY DEF RepoInv, RepoStep, GitTypeOK, Pc, Goto, Repo, Stat, CloneBegins, CloneFails, CloneEnds, ReadLog, LogFails,
     StoreHead, HooksEnd, HooksFail, Fetch, Parse, Reset, GitFails
<1>a. /\ head[Repo(g)] \in Nat /\ tree[Repo(g)] \in Nat /\ tracking[Repo(g)] \in Nat
      /\ head[Repo(g)] <= tree[Repo(g)] /\ tree[Repo(g)] <= tracking[Repo(g)]
      /\ Revisions \subseteq Nat
  BY <1>0 DEF RepoInv, GitTypeOK, VersionNeverAhead, Revisions
<1>1. CASE Stat(g)
  BY <1>0, <1>1, <1>a, SMTT(30) DEF Stat, Pc, Repo, GitTypeOK, Calls, diskVars, CodeOf, UpdateOf
<1>2. CASE CloneBegins(g) \/ CloneFails(g)
  BY <1>0, <1>2, <1>a, SMTT(30) DEF CloneBegins, CloneFails, Goto, Pc, Repo, GitTypeOK, Calls, CodeOf, UpdateOf
<1>4. CASE CloneEnds(g)
  BY <1>0, <1>4, <1>a, SMTT(30) DEF CloneEnds, Pc, Repo, GitTypeOK, Calls, CodeOf, UpdateOf
<1>5. CASE ReadLog(g)
  BY <1>0, <1>5, <1>a, SMTT(30) DEF ReadLog, Pc, Repo, GitTypeOK, Calls, diskVars, CodeOf, UpdateOf
<1>6. CASE LogFails(g) \/ HooksFail(g) \/ GitFails(g)
  BY <1>0, <1>6, <1>a, SMTT(30) DEF LogFails, HooksFail, GitFails, Goto, Pc, Repo, GitTypeOK, Calls, diskVars, CodeOf, UpdateOf
<1>7. CASE StoreHead(g)
  BY <1>0, <1>7, <1>a, SMTT(30) DEF StoreHead, Goto, Pc, Repo, GitTypeOK, Calls, diskVars, CodeOf, UpdateOf
<1>8. CASE HooksEnd(g)
  BY <1>0, <1>8, <1>a, SMTT(30) DEF HooksEnd, Pc, Repo, GitTypeOK, Calls, CodeOf, UpdateOf
<1>10. CASE Fetch(g)
  BY <1>0, <1>10, <1>a, SMTT(30) DEF Fetch, Goto, Pc, Repo, GitTypeOK, Calls, CodeOf, UpdateOf
<1>11. CASE Parse(g)
  BY <1>0, <1>11, <1>a, SMTT(30) DEF Parse, Pc, Repo, GitTypeOK, Calls, diskVars, CodeOf, UpdateOf
<1>12. CASE Reset(g)
  BY <1>0, <1>12, <1>a, SMTT(30) DEF Reset, Pc, Repo, GitTypeOK, Calls, CodeOf, UpdateOf
<1>14. Effect
  BY <1>1, <1>2, <1>4, <1>5, <1>6, <1>7, <1>8, <1>10, <1>11, <1>12 DEF RepoStep
<1>15. QED BY <1>0, <1>14

\* The same seen from the daemons: who takes the step is the only one in a call.
LEMMA GitStepKeepsCode ==
  ASSUME DaemonAssumption, RepoAssumption, CodeInv, NEW g \in Callers, RepoStep(g), UNCHANGED daemonVars
  PROVE  /\ OneCall' /\ UpdateInOrder' /\ \A h \in Callers : Pc(h)' # "out" => CodeOf(h)'
         /\ \A r \in Repos : head[r] <= head'[r]
<1>0. /\ RepoInv /\ DaemonTypeOK /\ Main # Mqtt /\ Callers = {Main, Mqtt} /\ g \in {Main, Mqtt}
      /\ UNCHANGED <<job, phase, unit, loaded>>
  BY DEF CodeInv, DaemonInv, DaemonAssumption, daemonVars, bootVars, unitVars
<1>1. Pc(g) # "out" /\ CodeOf(g)
  BY DEF CodeInv, RepoStep, Pc, Goto, Stat, CloneBegins, CloneFails, CloneEnds, ReadLog, LogFails,
     StoreHead, HooksEnd, HooksFail, Fetch, Parse, Reset, GitFails
<1>2. /\ Repo(g) \in Repos /\ Pc(g)' # "out" /\ Repo(g)' = Repo(g)
      /\ \A h \in Callers \ {g} : call'[h] = call[h]
      /\ \A q \in Repos \ {Repo(g)} : head'[q] = head[q]
      /\ head[Repo(g)] <= head'[Repo(g)] /\ CodeOf(g)'
      /\ \A old \in Revisions : UpdateOf(g, old) => UpdateOf(g, old)'
  BY <1>0, <1>1, StepEffect
<1>3. \A h \in Callers \ {g} : Pc(h) = "out" /\ Pc(h)' = "out"
  <2>1. \A h \in Callers \ {g} : Pc(h) = "out"
    BY <1>0, <1>1 DEF CodeInv, OneCall
  <2>2. QED BY <1>2, <2>1 DEF Pc
<1>4. OneCall'
  BY <1>0, <1>1, <1>2, <1>3 DEF CodeInv, OneCall
<1>5. \A h \in Callers : Pc(h)' # "out" => CodeOf(h)'
  BY <1>2, <1>3
<1>6. UpdateInOrder'
  <2>1. job.pc # "systemctl"
    BY <1>0, <1>1 DEF CodeInv, OneCall
  <2>2. CASE g = Mqtt
    <3>1. job.pc = "git" /\ job.op = "update" /\ UpdateOf(Mqtt, job.old) /\ job.old \in Revisions
      BY <1>0, <1>1, <2>2 DEF CodeInv, OneCall, UpdateInOrder, DaemonTypeOK
    <3>2. UpdateOf(Mqtt, job.old)'
      <4>1. job'.old = job.old
        BY <1>0
      <4>2. QED BY <1>2, <2>2, <3>1, <4>1 DEF UpdateOf
    <3>3. QED BY <1>0, <1>2, <2>2, <3>1, <3>2 DEF CodeInv, UpdateInOrder
  <2>3. CASE g # Mqtt
    <3>1. job.pc \notin {"begin", "git", "systemctl"}
      BY <1>0, <1>1, <2>3 DEF CodeInv, OneCall, UpdateInOrder, UpdateOf, DaemonTypeOK
    <3>2. QED BY <1>0, <3>1 DEF UpdateInOrder
  <2>4. QED BY <2>2, <2>3
<1>7. \A r \in Repos : head[r] <= head'[r]
  BY <1>0, <1>2 DEF RepoInv, GitTypeOK, Revisions
<1>8. QED BY <1>4, <1>5, <1>6, <1>7

LEMMA CodeInit == DaemonAssumption /\ RepoAssumption /\ Init => CodeInv
<1> SUFFICES ASSUME DaemonAssumption, RepoAssumption, Init PROVE CodeInv
  OBVIOUS
<1>1. DaemonInv
  BY DaemonInit
<1>2. \A g \in Callers : Pc(g) = "out"
  BY DEF Init, GitInit, NoCall, Pc
<1>3. OneCall /\ UpdateInOrder
  BY <1>2 DEF Init, Idle, OneCall, UpdateInOrder, DaemonAssumption
<1>4. QED BY <1>1, <1>2, <1>3 DEF CodeInv

\* The other steps: messages, the calls of main and of updates, systemctl, restarts.
LEMMA CodeStep ==
  ASSUME DaemonAssumption, RepoAssumption, CodeInv, [Next]_vars
  PROVE  CodeInv' /\ (crashes' = crashes => \A r \in Repos : head[r] <= head'[r])
<1> DEFINE Code == OneCall /\ UpdateInOrder /\ \A g \in Callers : Pc(g) # "out" => CodeOf(g)
           Grows == crashes' = crashes => \A r \in Repos : head[r] <= head'[r]
<1>0. /\ RepoInv /\ GitTypeOK /\ DaemonTypeOK /\ Main # Mqtt /\ Callers = {Main, Mqtt}
      /\ \A r \in Repos : head[r] \in Nat
      /\ \A d \in Daemons : RepoOf[d] \in Repos
      /\ OneCall /\ UpdateInOrder /\ \A g \in Callers : Pc(g) # "out" => CodeOf(g)
  BY DEF CodeInv, DaemonInv, RepoInv, GitTypeOK, DaemonAssumption, Revisions
<1>1. DaemonInv'
  BY DaemonStep DEF CodeInv
<1>2. ASSUME NEW d \in Daemons, BootDaemon(d) PROVE Code' /\ Grows
  <2>1. /\ phase = "booting" /\ Pc(Main)' = "stat" /\ call'[Mqtt] = call[Mqtt]
        /\ UNCHANGED <<job, phase, head, tree, deps>>
    BY <1>0, <1>2 DEF BootDaemon, EnterBootstrap, Enter, NoCall, Pc, unitVars, diskVars, GitTypeOK
  <2>2. job.pc = "idle" /\ Pc(Mqtt)' = "out"
    BY <1>0, <2>1 DEF OneCall, DaemonTypeOK, Pc
  <2>3. OneCall' /\ UpdateInOrder'
    BY <2>1, <2>2 DEF OneCall, UpdateInOrder
  <2>4. \A g \in Callers : Pc(g)' # "out" => CodeOf(g)'
    BY <1>0, <2>1, <2>2 DEF CodeOf
  <2>5. QED BY <1>0, <2>1, <2>3, <2>4
<1>3. ASSUME DaemonBooted PROVE Code' /\ Grows
  <2>1. /\ phase = "booting" /\ call'[Main] = NoCall /\ call'[Mqtt] = call[Mqtt]
        /\ UNCHANGED <<job, head, tree, deps>>
    BY <1>0, <1>3 DEF DaemonBooted, Leave, unitVars, diskVars, GitTypeOK
  <2>2. job.pc = "idle" /\ Pc(Mqtt)' = "out" /\ Pc(Main)' = "out"
    BY <1>0, <2>1 DEF OneCall, DaemonTypeOK, Pc, NoCall
  <2>3. OneCall' /\ UpdateInOrder'
    BY <2>1, <2>2 DEF OneCall, UpdateInOrder
  <2>4. QED BY <1>0, <2>1, <2>2, <2>3
<1>4. ASSUME NEW d \in Daemons, NEW op \in Topics, Message(op, d) PROVE Code' /\ Grows
  <2>1. /\ phase = "up" /\ job.pc = "idle" /\ UNCHANGED <<call, phase, head, tree, deps>>
        /\ job'.op = op /\ job'.pc = IF op = "update" THEN "begin" ELSE "systemctl"
    BY <1>4 DEF Message, Idle, repoVars, diskVars, bootVars
  <2>2. \A g \in Callers : Pc(g)' = "out"
    BY <1>0, <2>1 DEF OneCall, Pc
  <2>3. OneCall' /\ UpdateInOrder'
    BY <1>0, <2>1, <2>2 DEF OneCall, UpdateInOrder
  <2>4. QED BY <1>0, <2>1, <2>2, <2>3
<1>5. ASSUME BeginUpdate PROVE Code' /\ Grows
  <2> DEFINE r == RepoOf[job.daemon]
  <2>1. /\ job.pc = "begin" /\ job.op = "update" /\ job.daemon \in Daemons /\ phase = "up"
        /\ Pc(Main) = "out" /\ r \in Repos
    BY <1>0, <1>5 DEF BeginUpdate, OneCall, UpdateInOrder, DaemonTypeOK
  <2>2. /\ job'.pc = "git" /\ job'.op = "update" /\ job'.daemon = job.daemon /\ job'.old = head[r]
        /\ UNCHANGED <<phase, head, tree, deps>>
    BY <1>0, <1>5, <2>1 DEF BeginUpdate, EnterUpdate, Enter, DaemonTypeOK, bootVars, diskVars
  <2>3. /\ call'[Main] = call[Main]
        /\ call'[Mqtt] = [NoCall EXCEPT !.pc = "fetch", !.repo = r, !.want = FALSE]
    BY <1>0, <1>5 DEF BeginUpdate, EnterUpdate, Enter, GitTypeOK
  <2>4. Pc(Main)' = "out" /\ Pc(Mqtt)' = "fetch" /\ Repo(Mqtt)' = r /\ call'[Mqtt].updated = FALSE
    BY <2>1, <2>3 DEF Pc, Repo, NoCall
  <2>5. OneCall'
    BY <2>1, <2>2, <2>4 DEF OneCall
  <2>6. UpdateInOrder'
    BY <1>0, <2>1, <2>2, <2>4 DEF UpdateInOrder, UpdateOf
  <2>7. \A g \in Callers : Pc(g)' # "out" => CodeOf(g)'
    BY <1>0, <2>4 DEF CodeOf
  <2>8. QED BY <1>0, <2>2, <2>5, <2>6, <2>7
<1>6. ASSUME EndUpdate PROVE Code' /\ Grows
  <2> DEFINE r == RepoOf[job.daemon]
  <2>1. /\ job.pc = "git" /\ job.op = "update" /\ job.daemon \in Daemons /\ phase = "up" /\ r \in Repos
        /\ Repo(Mqtt) = r /\ UpdateOf(Mqtt, job.old) /\ Pc(Main) = "out"
    BY <1>0, <1>6 DEF EndUpdate, OneCall, UpdateInOrder, DaemonTypeOK
  <2>2. /\ call'[Mqtt] = NoCall /\ call'[Main] = call[Main] /\ UNCHANGED <<phase, head, tree, deps>>
        /\ job' = IF News THEN [job EXCEPT !.pc = "systemctl"] ELSE Idle
    BY <1>0, <1>6 DEF EndUpdate, Leave, GitTypeOK, bootVars, diskVars
  <2>3. \A g \in Callers : Pc(g)' = "out"
    BY <1>0, <2>1, <2>2 DEF Pc, NoCall
  <2>4. OneCall'
    BY <1>0, <2>1, <2>2, <2>3 DEF OneCall
  <2>5. CASE News
    <3>1. Pc(Mqtt) = "nil" /\ head[r] # job.old
      BY <2>5 DEF News
    <3>2. head[r] = tree[r] /\ deps[r] = tree[r] /\ job.old < head[r]
      <4>1. head[r] = tree[r]
        BY <1>0, <2>1, <3>1 DEF CodeOf
      <4>2. job.old \in Nat /\ head[r] \in Nat /\ job.old <= head[r] /\ (head[r] = job.old \/ deps[r] = tree[r])
        BY <1>0, <2>1, <3>1 DEF UpdateOf, DaemonTypeOK, Revisions
      <4>3. QED BY <3>1, <4>1, <4>2
    <3>3. /\ job'.pc = "systemctl" /\ job'.op = "update" /\ job'.daemon = job.daemon /\ job'.old = job.old
      BY <1>0, <2>1, <2>2, <2>5 DEF DaemonTypeOK
    <3>4. UpdateInOrder'
      BY <2>2, <3>2, <3>3 DEF UpdateInOrder
    <3>5. QED BY <1>0, <2>2, <2>3, <2>4, <3>4
  <2>6. CASE ~News
    <3>1. job' = Idle
      BY <2>2, <2>6
    <3>2. UpdateInOrder'
      BY <3>1 DEF UpdateInOrder, Idle
    <3>3. QED BY <1>0, <2>2, <2>3, <2>4, <3>2
  <2>7. QED BY <2>5, <2>6
<1>7. ASSUME Systemctl \/ SystemctlFails PROVE Code' /\ Grows
  <2>1. /\ job.pc = "systemctl" /\ job' = Idle /\ UNCHANGED <<call, phase, head, tree, deps>>
    BY <1>7 DEF Systemctl, SystemctlFails, repoVars, diskVars, bootVars
  <2>2. \A g \in Callers : Pc(g)' = "out"
    BY <1>0, <2>1 DEF OneCall, Pc
  <2>3. OneCall' /\ UpdateInOrder'
    BY <1>0, <2>1, <2>2 DEF OneCall, UpdateInOrder, Idle
  <2>4. QED BY <1>0, <2>1, <2>2, <2>3
<1>8. ASSUME NEW g \in Callers, RepoStep(g), UNCHANGED daemonVars PROVE Code' /\ Grows
  BY <1>8, GitStepKeepsCode
<1>9. ASSUME \/ \E r \in Repos : Push(r) /\ UNCHANGED daemonVars
             \/ \E d \in Daemons : UnitEnds(d)
             \/ UNCHANGED vars
      PROVE  Code' /\ Grows
  <2>1. UNCHANGED <<call, job, phase, head, tree, deps>>
    BY <1>9 DEF Push, UnitEnds, vars, repoVars, diskVars, daemonVars, bootVars
  <2>2. OneCall' /\ UpdateInOrder' /\ \A g \in Callers : Pc(g)' # "out" => CodeOf(g)'
    BY <1>0, <2>1 DEF OneCall, UpdateInOrder, UpdateOf, CodeOf, Pc, Repo
  <2>3. QED BY <1>0, <2>1, <2>2
<1>10. ASSUME OperatorRestarts \/ PowerCut PROVE Code' /\ Grows
  <2>1. /\ job' = Idle /\ phase' = "booting" /\ crashes' = crashes + 1
        /\ call' = [g \in Callers |-> NoCall]
    BY <1>10 DEF OperatorRestarts, PowerCut, GoDown, Reboot
  <2>2. \A g \in Callers : Pc(g)' = "out"
    BY <2>1 DEF Pc, NoCall
  <2>3. OneCall' /\ UpdateInOrder'
    BY <1>0, <2>1, <2>2 DEF OneCall, UpdateInOrder, Idle
  <2>4. crashes' # crashes
    BY <1>0, <2>1 DEF GitTypeOK, RepoAssumption
  <2>5. QED BY <2>2, <2>3, <2>4
<1>11. Code' /\ Grows
  BY <1>2, <1>3, <1>4, <1>5, <1>6, <1>7, <1>8, <1>9, <1>10 DEF Next
<1>12. QED BY <1>1, <1>11 DEF CodeInv

LEMMA CodeInvariant == Spec => []CodeInv
<1>1. Init => CodeInv
  BY CodeInit, DaemonAssumption, RepoAssumption
<1>2. CodeInv /\ [Next]_vars => CodeInv'
  BY CodeStep, DaemonAssumption, RepoAssumption
<1>3. QED BY <1>1, <1>2, PTL DEF Spec

\* A Bootstrap or Update of a daemon that succeeds shows the version of the code
\* that is there, whatever failed before (repo.go:101-112, 177-179).
THEOREM DaemonSuccessIsCurrent == Spec => []SuccessIsCurrent
<1>1. CodeInv => SuccessIsCurrent
  BY DEF CodeInv, CodeOf, SuccessIsCurrent
<1>2. QED BY <1>1, CodeInvariant, PTL

\* The version shown for a daemon only grows until the operator goes down.
THEOREM DaemonHeadOnlyGrows == Spec => HeadOnlyGrows
<1>1. CodeInv /\ [Next]_vars
        => [crashes' = crashes => \A r \in Repos : head[r] <= head'[r]]_repoVars
  BY CodeStep, DaemonAssumption, RepoAssumption
<1>2. QED BY <1>1, CodeInvariant, PTL DEF Spec, HeadOnlyGrows

\* Every restart by an update is into code whose hook has run (repo.go:110-121).
THEOREM RestartsHaveDeps == Spec => []RestartsWithDeps
<1>1. CodeInv => RestartsWithDeps
  BY DEF CodeInv, UpdateInOrder, RestartsWithDeps
<1>2. QED BY <1>1, CodeInvariant, PTL

\* An update changes the code of a unit only into the version shown, and only into
\* a newer one than was shown before (daemon_store.go:64-77).
THEOREM DaemonsRestartIntoNews == Spec => RestartsIntoNews
<1> DEFINE News1(d) == job.op = "update" /\ crashes' = crashes /\ loaded'[d] # loaded[d]
                         => loaded'[d] = head[RepoOf[d]] /\ loaded'[d] > job.old
<1>1. CodeInv /\ [Next]_vars => [\A d \in Daemons : News1(d)]_vars
  <2> SUFFICES ASSUME CodeInv, Next, NEW d \in Daemons, job.op = "update", crashes' = crashes,
                      loaded'[d] # loaded[d]
               PROVE  loaded'[d] = head[RepoOf[d]] /\ loaded'[d] > job.old
    OBVIOUS
  <2>0. DaemonTypeOK /\ crashes \in Nat /\ UpdateInOrder
    BY RepoAssumption DEF CodeInv, DaemonInv, RepoInv, GitTypeOK, RepoAssumption
  <2>1. ~PowerCut /\ ~OperatorRestarts
    BY <2>0 DEF PowerCut, OperatorRestarts, GoDown
  <2>2. Systemctl
    BY <2>1 DEF Next, BootDaemon, UnitEnds, Message, DaemonBooted, BeginUpdate, EndUpdate, SystemctlFails,
       unitVars, daemonVars
  <2>3. loaded'[d] = tree[RepoOf[d]] /\ d = job.daemon /\ job.pc = "systemctl"
    BY <2>0, <2>2 DEF Systemctl, DaemonTypeOK
  <2>4. QED BY <2>0, <2>3 DEF UpdateInOrder
<1>2. QED BY <1>1, CodeInvariant, PTL DEF Spec, RestartsIntoNews
=============================================================================
