----------------------------- MODULE GitProofs -----------------------------
(***************************************************************************)
(* GitRepo for any repositories, any number of goroutines whose updates    *)
(* overlap, and any number of failures and restarts.  The versions on the  *)
(* way from the remote to the operator are in order, and what makes this   *)
(* inductive is that the locals of the calls in progress are in it too.    *)
(***************************************************************************)
EXTENDS GitRepo, TLAPS

\* What a call has read from git log is checked out, what it has read from
\* rev-parse was fetched, and once the reset is over is checked out too.
LocalsInOrder ==
  \A g \in Callers : Pc(g) # "out" =>
    LET r == Repo(g) IN /\ call[g].log <= tree[r] /\ call[g].oHead <= tracking[r]
                        /\ Pc(g) \notin {"parse", "reset", "err"} => call[g].oHead <= tree[r]

RepoInv == GitTypeOK /\ VersionNeverAhead /\ LocalsInOrder

\* A call record that differs from another in some fields is still one.
LEMMA NewCallTypes ==
  ASSUME GitTypeOK, NEW g \in Callers, NEW c \in Calls, c.pc # "out" => c.repo \in Repos,
         call' = [call EXCEPT ![g] = c]
  PROVE  /\ call' \in [Callers -> Calls]
         /\ \A h \in Callers : call'[h].pc # "out" => call'[h].repo \in Repos
  BY DEF GitTypeOK, Pc, Repo

\* Nor does a call that goes on change its repository.
LEMMA GotoTypes ==
  ASSUME GitTypeOK, NEW g \in Callers, Repo(g) \in Repos, NEW to,
         [call[g] EXCEPT !.pc = to] \in Calls, call' = [call EXCEPT ![g].pc = to]
  PROVE  /\ call' \in [Callers -> Calls]
         /\ \A h \in Callers : call'[h].pc # "out" => call'[h].repo \in Repos
<1> DEFINE c == [call[g] EXCEPT !.pc = to]
<1>1. c \in Calls /\ c.repo \in Repos
  BY DEF GitTypeOK, Calls, Repo
<1>2. call' = [call EXCEPT ![g] = c]
  BY DEF GitTypeOK
<1> HIDE DEF c
<1> QED BY <1>1, <1>2, NewCallTypes

\* A device without repositories.
LEMMA InitHolds == RepoAssumption /\ GitInit => RepoInv
  BY SMTT(30) DEF RepoAssumption, GitInit, RepoInv, GitTypeOK, VersionNeverAhead, LocalsInOrder,
     NoCall, Pc, Repo, Calls, Revisions

\* Every step of git leaves well-typed repositories and calls behind.
LEMMA StepKeepsType ==
  ASSUME RepoAssumption, RepoInv, NEW g \in Callers, RepoStep(g)
  PROVE  GitTypeOK'
<1>0. GitTypeOK /\ call[g] \in Calls /\ Repo(g) \in Repos
  BY DEF RepoInv, RepoStep, GitTypeOK, Pc, Goto, Repo, Stat, CloneBegins, CloneFails, CloneEnds, ReadLog, LogFails,
     StoreHead, HooksEnd, HooksFail, Fetch, Parse, Reset, GitFails
<1>1. CASE Stat(g)
  <2> DEFINE c == IF dir[Repo(g)] = "none"
                   THEN [call[g] EXCEPT !.pc = "clone", !.updated = TRUE]
                   ELSE [call[g] EXCEPT !.pc = "log", !.next = IF call[g].want THEN "fetch" ELSE "nil"]
  <2>1. c \in Calls /\ c.pc # "out" /\ c.repo \in Repos
    BY <1>0 DEF Calls, Repo, GitTypeOK
  <2>2. call' = [call EXCEPT ![g] = c]
    BY <1>0, <1>1 DEF Stat, GitTypeOK, Calls
  <2>3. /\ call' \in [Callers -> Calls]
        /\ \A h \in Callers : call'[h].pc # "out" => call'[h].repo \in Repos
    <3> HIDE DEF c
    <3>1. QED BY <1>0, <2>1, <2>2, NewCallTypes
  <2>4. QED BY <1>0, <1>1, <2>3 DEF Stat, GitTypeOK, Pc, Repo, Revisions, diskVars
<1>2. CASE CloneBegins(g)
  <2>1. [call[g] EXCEPT !.pc = "cloning"] \in Calls
    BY <1>0 DEF Calls
  <2>2. call' = [call EXCEPT ![g].pc = "cloning"]
    BY <1>2 DEF CloneBegins, Goto
  <2>3. /\ call' \in [Callers -> Calls]
        /\ \A h \in Callers : call'[h].pc # "out" => call'[h].repo \in Repos
    BY <1>0, <2>1, <2>2, GotoTypes
  <2>4. QED BY <1>0, <1>2, <2>3 DEF CloneBegins, GitTypeOK, Pc, Repo, Revisions, diskVars
<1>3. CASE CloneFails(g)
  <2>1. [call[g] EXCEPT !.pc = "err"] \in Calls
    BY <1>0 DEF Calls
  <2>2. call' = [call EXCEPT ![g].pc = "err"]
    BY <1>3 DEF CloneFails, Goto
  <2>3. /\ call' \in [Callers -> Calls]
        /\ \A h \in Callers : call'[h].pc # "out" => call'[h].repo \in Repos
    BY <1>0, <2>1, <2>2, GotoTypes
  <2>4. QED BY <1>0, <1>3, <2>3 DEF CloneFails, GitTypeOK, Pc, Repo, Revisions, diskVars
<1>4. CASE CloneEnds(g)
  <2> DEFINE c == [call[g] EXCEPT !.pc = "log", !.next = "hooks"]
  <2>1. c \in Calls /\ c.pc # "out" /\ c.repo \in Repos
    BY <1>0 DEF Calls, Repo, GitTypeOK
  <2>2. call' = [call EXCEPT ![g] = c]
    BY <1>0, <1>4 DEF CloneEnds, GitTypeOK, Calls
  <2>3. /\ call' \in [Callers -> Calls]
        /\ \A h \in Callers : call'[h].pc # "out" => call'[h].repo \in Repos
    <3> HIDE DEF c
    <3>1. QED BY <1>0, <2>1, <2>2, NewCallTypes
  <2>4. QED BY <1>0, <1>4, <2>3 DEF CloneEnds, GitTypeOK, Pc, Repo, Revisions, diskVars
<1>5. CASE ReadLog(g)
  <2> DEFINE c == [call[g] EXCEPT !.pc = "head", !.log = tree[Repo(g)]]
  <2>1. c \in Calls /\ c.pc # "out" /\ c.repo \in Repos
    BY <1>0 DEF Calls, Repo, GitTypeOK
  <2>2. call' = [call EXCEPT ![g] = c]
    BY <1>0, <1>5 DEF ReadLog, GitTypeOK, Calls
  <2>3. /\ call' \in [Callers -> Calls]
        /\ \A h \in Callers : call'[h].pc # "out" => call'[h].repo \in Repos
    <3> HIDE DEF c
    <3>1. QED BY <1>0, <2>1, <2>2, NewCallTypes
  <2>4. QED BY <1>0, <1>5, <2>3 DEF ReadLog, GitTypeOK, Pc, Repo, Revisions, diskVars
<1>6. CASE LogFails(g)
  <2>1. [call[g] EXCEPT !.pc = "err"] \in Calls
    BY <1>0 DEF Calls
  <2>2. call' = [call EXCEPT ![g].pc = "err"]
    BY <1>6 DEF LogFails, Goto
  <2>3. /\ call' \in [Callers -> Calls]
        /\ \A h \in Callers : call'[h].pc # "out" => call'[h].repo \in Repos
    BY <1>0, <2>1, <2>2, GotoTypes
  <2>4. QED BY <1>0, <1>6, <2>3 DEF LogFails, GitTypeOK, Pc, Repo, Revisions, diskVars
<1>7. CASE StoreHead(g)
  <2>1. [call[g] EXCEPT !.pc = call[g].next] \in Calls
    BY <1>0 DEF Calls
  <2>2. call' = [call EXCEPT ![g].pc = call[g].next]
    BY <1>7 DEF StoreHead, Goto
  <2>3. /\ call' \in [Callers -> Calls]
        /\ \A h \in Callers : call'[h].pc # "out" => call'[h].repo \in Repos
    BY <1>0, <2>1, <2>2, GotoTypes
  <2>4. QED BY <1>0, <1>7, <2>3 DEF StoreHead, GitTypeOK, Pc, Repo, Revisions, diskVars, Calls
<1>8. CASE HooksEnd(g)
  <2> DEFINE c == [call[g] EXCEPT !.pc = IF call[g].updated THEN "log" ELSE "nil", !.next = "nil"]
  <2>1. c \in Calls /\ c.pc # "out" /\ c.repo \in Repos
    BY <1>0 DEF Calls, Repo, GitTypeOK
  <2>2. call' = [call EXCEPT ![g] = c]
    BY <1>0, <1>8 DEF HooksEnd, GitTypeOK, Calls
  <2>3. /\ call' \in [Callers -> Calls]
        /\ \A h \in Callers : call'[h].pc # "out" => call'[h].repo \in Repos
    <3> HIDE DEF c
    <3>1. QED BY <1>0, <2>1, <2>2, NewCallTypes
  <2>4. QED BY <1>0, <1>8, <2>3 DEF HooksEnd, GitTypeOK, Pc, Repo, Revisions, diskVars
<1>9. CASE HooksFail(g)
  <2>1. [call[g] EXCEPT !.pc = "err"] \in Calls
    BY <1>0 DEF Calls
  <2>2. call' = [call EXCEPT ![g].pc = "err"]
    BY <1>9 DEF HooksFail, Goto
  <2>3. /\ call' \in [Callers -> Calls]
        /\ \A h \in Callers : call'[h].pc # "out" => call'[h].repo \in Repos
    BY <1>0, <2>1, <2>2, GotoTypes
  <2>4. QED BY <1>0, <1>9, <2>3 DEF HooksFail, GitTypeOK, Pc, Repo, Revisions, diskVars
<1>10. CASE Fetch(g)
  <2>1. [call[g] EXCEPT !.pc = "parse"] \in Calls
    BY <1>0 DEF Calls
  <2>2. call' = [call EXCEPT ![g].pc = "parse"]
    BY <1>10 DEF Fetch, Goto
  <2>3. /\ call' \in [Callers -> Calls]
        /\ \A h \in Callers : call'[h].pc # "out" => call'[h].repo \in Repos
    BY <1>0, <2>1, <2>2, GotoTypes
  <2>4. QED BY <1>0, <1>10, <2>3 DEF Fetch, GitTypeOK, Pc, Repo, Revisions, diskVars
<1>11. CASE Parse(g)
  <2> DEFINE r == Repo(g)
             c == [call[g] EXCEPT !.oHead = tracking[r], !.pc = IF tracking[r] = head[r] THEN "nil" ELSE "reset"]
  <2>1. c \in Calls /\ c.pc # "out" /\ c.repo \in Repos
    BY <1>0 DEF Calls, Repo, GitTypeOK
  <2>2. call' = [call EXCEPT ![g] = c]
    BY <1>0, <1>11 DEF Parse, GitTypeOK, Calls
  <2>3. /\ call' \in [Callers -> Calls]
        /\ \A h \in Callers : call'[h].pc # "out" => call'[h].repo \in Repos
    <3> HIDE DEF c
    <3>1. QED BY <1>0, <2>1, <2>2, NewCallTypes
  <2>4. QED BY <1>0, <1>11, <2>3 DEF Parse, GitTypeOK, Pc, Repo, Revisions, diskVars
<1>12. CASE Reset(g)
  <2> DEFINE c == [call[g] EXCEPT !.pc = "log", !.next = "hooks"]
  <2>1. c \in Calls /\ c.pc # "out" /\ c.repo \in Repos
    BY <1>0 DEF Calls, Repo, GitTypeOK
  <2>2. call' = [call EXCEPT ![g] = c]
    BY <1>0, <1>12 DEF Reset, GitTypeOK, Calls
  <2>3. /\ call' \in [Callers -> Calls]
        /\ \A h \in Callers : call'[h].pc # "out" => call'[h].repo \in Repos
    <3> HIDE DEF c
    <3>1. QED BY <1>0, <2>1, <2>2, NewCallTypes
  <2>4. QED BY <1>0, <1>12, <2>3 DEF Reset, GitTypeOK, Pc, Repo, Revisions, diskVars
<1>13. CASE GitFails(g)
  <2>1. [call[g] EXCEPT !.pc = "err"] \in Calls
    BY <1>0 DEF Calls
  <2>2. call' = [call EXCEPT ![g].pc = "err"]
    BY <1>13 DEF GitFails
  <2>3. /\ call' \in [Callers -> Calls]
        /\ \A h \in Callers : call'[h].pc # "out" => call'[h].repo \in Repos
    BY <1>0, <2>1, <2>2, GotoTypes
  <2>4. QED BY <1>0, <1>13, <2>3 DEF GitFails, GitTypeOK, Pc, Repo, Revisions, diskVars
<1>14. QED BY <1>1, <1>2, <1>3, <1>4, <1>5, <1>6, <1>7, <1>8, <1>9, <1>10, <1>11, <1>12, <1>13 DEF RepoStep

\* Every step of git keeps the versions in order: what comes later on the way
\* from the remote only ever takes the value of what comes earlier.
LEMMA StepKeepsOrder ==
  ASSUME RepoAssumption, RepoInv, NEW g \in Callers, RepoStep(g)
  PROVE  (VersionNeverAhead /\ LocalsInOrder)'
<1>0. GitTypeOK /\ GitTypeOK'
  BY StepKeepsType DEF RepoInv
<1>1. CASE Stat(g)
  <2>1. /\ \A h \in Callers : call'[h].log = call[h].log /\ call'[h].oHead = call[h].oHead
        /\ \A h \in Callers : call'[h].repo = call[h].repo
        /\ \A h \in Callers : h = g \/ call'[h].pc = call[h].pc
    BY <1>0, <1>1 DEF Stat, GitTypeOK, Calls
  <2>2. QED BY <1>0, <1>1, <2>1 DEF Stat, Pc, Repo, diskVars, RepoInv, VersionNeverAhead, LocalsInOrder
<1>2. CASE CloneBegins(g)
  BY <1>0, <1>2, SMTT(30) DEF CloneBegins, Goto, Pc, Repo, GitTypeOK, Calls, Revisions, diskVars, RepoInv,
     VersionNeverAhead, LocalsInOrder
<1>3. CASE CloneFails(g)
  BY <1>0, <1>3, SMTT(30) DEF CloneFails, Goto, Pc, Repo, GitTypeOK, Calls, Revisions, diskVars, RepoInv,
     VersionNeverAhead, LocalsInOrder
<1>4. CASE CloneEnds(g)
  BY <1>0, <1>4, SMTT(30) DEF CloneEnds, Goto, Pc, Repo, GitTypeOK, Calls, Revisions, diskVars, RepoInv,
     VersionNeverAhead, LocalsInOrder
<1>5. CASE ReadLog(g)
  BY <1>0, <1>5, SMTT(30) DEF ReadLog, Goto, Pc, Repo, GitTypeOK, Calls, Revisions, diskVars, RepoInv,
     VersionNeverAhead, LocalsInOrder
<1>6. CASE LogFails(g)
  BY <1>0, <1>6, SMTT(30) DEF LogFails, Goto, Pc, Repo, GitTypeOK, Calls, Revisions, diskVars, RepoInv,
     VersionNeverAhead, LocalsInOrder
<1>7. CASE StoreHead(g)
  BY <1>0, <1>7, SMTT(30) DEF StoreHead, Goto, Pc, Repo, GitTypeOK, Calls, Revisions, diskVars, RepoInv,
     VersionNeverAhead, LocalsInOrder
<1>8. CASE HooksEnd(g)
  BY <1>0, <1>8, SMTT(30) DEF HooksEnd, Goto, Pc, Repo, GitTypeOK, Calls, Revisions, diskVars, RepoInv,
     VersionNeverAhead, LocalsInOrder
<1>9. CASE HooksFail(g)
  BY <1>0, <1>9, SMTT(30) DEF HooksFail, Goto, Pc, Repo, GitTypeOK, Calls, Revisions, diskVars, RepoInv,
     VersionNeverAhead, LocalsInOrder
<1>10. CASE Fetch(g)
  <2>1. VersionNeverAhead'
    BY <1>0, <1>10 DEF Fetch, Goto, GitTypeOK, Revisions, RepoInv, VersionNeverAhead
  <2>2. \A h \in Callers : /\ call'[h].log = call[h].log /\ call'[h].oHead = call[h].oHead
                           /\ call'[h].repo = call[h].repo
                           /\ call'[h].pc = IF h = g THEN "parse" ELSE call[h].pc
    BY <1>0, <1>10 DEF Fetch, Goto, Pc, GitTypeOK, Calls
  <2>3. \A r \in Repos : tracking[r] <= tracking'[r]
    BY <1>0, <1>10 DEF Fetch, GitTypeOK, Revisions, RepoInv, VersionNeverAhead
  <2>4. \A h \in Callers : call[h].log \in Nat /\ call[h].oHead \in Nat
    BY <1>0 DEF GitTypeOK, Calls, Revisions
  <2>5. QED
    BY <1>0, <1>10, <2>1, <2>2, <2>3, <2>4 DEF Fetch, Goto, Pc, Repo, GitTypeOK, Revisions, RepoInv,
       LocalsInOrder
<1>11. CASE Parse(g)
  <2>1. /\ call'[g].log = call[g].log /\ call'[g].oHead = tracking[Repo(g)]
        /\ call'[g].repo = call[g].repo
        /\ call'[g].pc = IF tracking[Repo(g)] = head[Repo(g)] THEN "nil" ELSE "reset"
        /\ \A h \in Callers : h = g \/ call'[h] = call[h]
        /\ Pc(g) = "parse"
    BY <1>0, <1>11 DEF Parse, Pc, GitTypeOK, Calls
  <2>2. Repo(g) \in Repos
    BY <1>0, <2>1 DEF GitTypeOK
  <2>3. VersionNeverAhead'
    BY <1>0, <1>11 DEF Parse, diskVars, RepoInv, VersionNeverAhead
  <2>4. /\ call'[g].log <= tree[Repo(g)] /\ call'[g].oHead <= tracking[Repo(g)]
        /\ call'[g].pc \in {"nil", "reset"}
        /\ call'[g].pc = "nil" => call'[g].oHead <= tree[Repo(g)]
    BY <1>0, <2>1, <2>2 DEF Pc, Repo, GitTypeOK, Revisions, RepoInv, VersionNeverAhead, LocalsInOrder
  <2>5. LocalsInOrder'
    BY <1>0, <1>11, <2>1, <2>4 DEF Parse, Pc, Repo, diskVars, RepoInv, LocalsInOrder
  <2>6. QED BY <2>3, <2>5
<1>12. CASE Reset(g)
  BY <1>0, <1>12, SMTT(30) DEF Reset, Goto, Pc, Repo, GitTypeOK, Calls, Revisions, diskVars, RepoInv,
     VersionNeverAhead, LocalsInOrder
<1>13. CASE GitFails(g)
  BY <1>0, <1>13, SMTT(30) DEF GitFails, Goto, Pc, Repo, GitTypeOK, Calls, Revisions, diskVars, RepoInv,
     VersionNeverAhead, LocalsInOrder
<1>14. QED BY <1>1, <1>2, <1>3, <1>4, <1>5, <1>6, <1>7, <1>8, <1>9, <1>10, <1>11, <1>12, <1>13 DEF RepoStep

\* The same for entering and leaving a call, a push and a restart.
LEMMA OtherStepsKeepInv ==
  ASSUME RepoAssumption, RepoInv, RepoNext, \A g \in Callers : ~RepoStep(g)
  PROVE  RepoInv'
<1>0. GitTypeOK /\ NoCall \in Calls
  BY RepoAssumption DEF RepoAssumption, RepoInv, NoCall, Calls, Revisions
<1>1. ASSUME NEW g \in Callers, NEW r \in Repos, NEW pc \in {"stat", "fetch"}, NEW want \in BOOLEAN,
             Enter(g, r, pc, want)
      PROVE  RepoInv'
  <2> DEFINE c == [NoCall EXCEPT !.pc = pc, !.repo = r, !.want = want]
  <2>1. c \in Calls /\ c.pc = pc /\ c.repo = r /\ c.log = 0 /\ c.oHead = 0
    <3>1. c \in Calls
      BY <1>0 DEF Calls
    <3>2. c.pc = pc /\ c.repo = r /\ c.log = 0 /\ c.oHead = 0
      BY DEF NoCall
    <3>3. QED BY <3>1, <3>2
  <2>2. call' = [call EXCEPT ![g] = c] /\ UNCHANGED <<origin, diskVars, head, crashes>>
    BY <1>1 DEF Enter
  <2> HIDE DEF c
  <2>3. GitTypeOK'
    BY <1>0, <2>1, <2>2, NewCallTypes DEF GitTypeOK, Pc, Repo, diskVars
  <2>4. VersionNeverAhead'
    BY <2>2 DEF RepoInv, VersionNeverAhead, diskVars
  <2>5. LocalsInOrder'
    BY <1>0, <2>1, <2>2 DEF RepoInv, GitTypeOK, LocalsInOrder, Pc, Repo, Revisions, diskVars
  <2>6. QED BY <2>3, <2>4, <2>5 DEF RepoInv
<1>2. ASSUME NEW g \in Callers, Leave(g) PROVE RepoInv'
  BY <1>0, <1>2 DEF Leave, NoCall, RepoInv, GitTypeOK, VersionNeverAhead, LocalsInOrder, Pc, Repo,
     Revisions, diskVars
<1>3. ASSUME NEW r \in Repos, Push(r) PROVE RepoInv'
  BY <1>0, <1>3, RepoAssumption DEF Push, RepoInv, GitTypeOK, VersionNeverAhead, LocalsInOrder, Pc, Repo,
     Revisions, diskVars
<1>4. CASE GoDown
  BY <1>0, <1>4, RepoAssumption DEF GoDown, NoCall, RepoInv, GitTypeOK, VersionNeverAhead, LocalsInOrder,
     Pc, Repo, Revisions, diskVars
<1>5. QED BY <1>1, <1>2, <1>3, <1>4 DEF RepoNext, EnterBootstrap, EnterUpdate

\* The inductive step, which the proofs of the users of GitRepo cite too.
LEMMA RepoInvKept == ASSUME RepoInv, [RepoNext]_repoVars PROVE RepoInv'
<1>1. CASE \E g \in Callers : RepoStep(g)
  BY <1>1, RepoAssumption, StepKeepsType, StepKeepsOrder DEF RepoInv
<1>2. CASE RepoNext /\ \A g \in Callers : ~RepoStep(g)
  BY <1>2, RepoAssumption, OtherStepsKeepInv
<1>3. CASE UNCHANGED repoVars
  BY <1>3 DEF repoVars, diskVars, RepoInv, GitTypeOK, VersionNeverAhead, LocalsInOrder, Pc, Repo
<1>4. QED BY <1>1, <1>2, <1>3

\* The versions are in order, and a success is one, in every reachable state.
THEOREM RepoInvariant == RepoSpec => []RepoInv
<1>1. GitInit => RepoInv
  BY InitHolds, RepoAssumption
<1>2. RepoInv /\ [RepoNext]_repoVars => RepoInv'
  BY RepoInvKept
<1>3. QED BY <1>1, <1>2, PTL DEF RepoSpec

\* Repositories and the calls on them are well-typed (repo.go:34-43, 77-209).
THEOREM RepoTypeCorrect == RepoSpec => []GitTypeOK
  BY RepoInvariant, PTL DEF RepoInv

\* The version shown is never ahead of the code, nor the code of what was
\* fetched, for any overlap of updates and any failure (repo.go:95-112, 198-209).
THEOREM VersionsInOrder == RepoSpec => []VersionNeverAhead
  BY RepoInvariant, PTL DEF RepoInv

\* Any update that reports success has delivered what it fetched (repo.go:72-76).
THEOREM SuccessDelivers == RepoSpec => []UpdateDelivers
<1>1. RepoInv => UpdateDelivers
  BY DEF RepoInv, LocalsInOrder, UpdateDelivers, Pc
<1>2. QED BY <1>1, RepoInvariant, PTL
=============================================================================
