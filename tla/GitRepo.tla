------------------------------ MODULE GitRepo ------------------------------
(***************************************************************************)
(* git/repo.go: Bootstrap and Update of repositories, each with a remote,  *)
(* a working tree on disk and a head that the operator remembers.  One     *)
(* step per git command, since they leave the disk changed when a later    *)
(* one fails or the operator goes down.                                    *)
(*                                                                         *)
(* Revisions of a branch are counted, and 0 is "none yet": the remote      *)
(* branch only gets newer.  The branch names that main makes always have   *)
(* a remote part, so ErrWrongUpstream has no step.                         *)
(***************************************************************************)
EXTENDS Naturals

CONSTANTS Repos,
          Hooked,      \* the repositories that have a post-receive hook
          Callers,     \* goroutines
          MaxRev,      \* bound: revisions of a remote branch
          MaxCrashes,  \* bound: times the operator goes down
          NoRepo

ASSUME RepoAssumption == /\ Hooked \subseteq Repos /\ NoRepo \notin Repos
                         /\ MaxRev \in Nat \ {0} /\ MaxCrashes \in Nat

VARIABLES origin,    \* origin[r]: newest revision of the branch at the remote
          tracking,  \* tracking[r]: what the clone knows of it, refs/remotes/origin/...
          dir,       \* dir[r]: the directory: "none", "partial" (a .git, no commit) or "cloned"
          tree,      \* tree[r]: the revision checked out
          deps,      \* deps[r]: the revision the hook last ran for to the end
          head,      \* head[r]: Repo.head
          call,      \* call[g]: the call g is in, with its locals
          crashes

diskVars == <<tracking, dir, tree, deps>>
repoVars == <<origin, diskVars, head, call, crashes>>

Revisions == 0 .. MaxRev

\* next: what follows updateHead; updated, want: locals of Bootstrap; oHead:
\* local of Update; log: the output of git log.
NoCall == [pc |-> "out", repo |-> NoRepo, next |-> "nil", updated |-> FALSE,
           want |-> FALSE, oHead |-> 0, log |-> 0]

GitInit == /\ origin = [r \in Repos |-> 1]
           /\ tracking = [r \in Repos |-> 0] /\ dir = [r \in Repos |-> "none"]
           /\ tree = [r \in Repos |-> 0] /\ deps = [r \in Repos |-> 0]
           /\ head = [r \in Repos |-> 0]
           /\ call = [g \in Callers |-> NoCall]
           /\ crashes = 0

Pc(g) == call[g].pc
Repo(g) == call[g].repo
Goto(g, from, to) == Pc(g) = from /\ call' = [call EXCEPT ![g].pc = to]
-----------------------------------------------------------------------------
\* Mutant: a call is entered before its receiver is known.
EnterNoRepo(g, r, pc, want) ==
  /\ Pc(g) = "out"
  /\ call' = [call EXCEPT ![g] = [NoCall EXCEPT !.pc = pc, !.want = want]]
  /\ UNCHANGED <<origin, diskVars, head, crashes>>

Enter(g, r, pc, want) ==
  /\ Pc(g) = "out"
  /\ call' = [call EXCEPT ![g] = [NoCall EXCEPT !.pc = pc, !.repo = r, !.want = want]]
  /\ UNCHANGED <<origin, diskVars, head, crashes>>

\* The boot runs Bootstrap with the mutex of the service, or before there are
\* requests for daemons, so no call meets a clone; updates may meet each other,
\* when a restart has replaced the service and its mutex.
EnterBootstrap(g, r, want) == /\ \A h \in Callers : Repo(h) # r
                              /\ Enter(g, r, "stat", want)

EnterUpdate(g, r) == /\ \A h \in Callers : Repo(h) = r => ~call[h].updated /\ Pc(h) # "stat"
                     /\ Enter(g, r, "fetch", FALSE)

Leave(g) == /\ Pc(g) \in {"nil", "err"}
            /\ call' = [call EXCEPT ![g] = NoCall]
            /\ UNCHANGED <<origin, diskVars, head, crashes>>

\* Bootstrap: a directory with a .git is taken for a clone.
Stat(g) == LET r == Repo(g) IN
  /\ Pc(g) = "stat"
  /\ call' = [call EXCEPT ![g] =
       IF dir[r] = "none"
       THEN [@ EXCEPT !.pc = "clone", !.updated = TRUE]
       ELSE [@ EXCEPT !.pc = "log", !.next = IF call[g].want THEN "fetch" ELSE "nil"]]
  /\ UNCHANGED <<origin, diskVars, head, crashes>>

\* git clone makes the .git first and checks out last; when it fails it takes
\* away what it made.
CloneBegins(g) == /\ Goto(g, "clone", "cloning")
                  /\ dir' = [dir EXCEPT ![Repo(g)] = "partial"]
                  /\ UNCHANGED <<origin, tracking, tree, deps, head, crashes>>

CloneFails(g) == /\ Goto(g, "cloning", "err")
                 /\ dir' = [dir EXCEPT ![Repo(g)] = "none"]
                 /\ UNCHANGED <<origin, tracking, tree, deps, head, crashes>>

CloneEnds(g) == LET r == Repo(g) IN
  /\ Pc(g) = "cloning"
  /\ call' = [call EXCEPT ![g].pc = "log", ![g].next = "hooks"]
  /\ dir' = [dir EXCEPT ![r] = "cloned"]
  /\ tracking' = [tracking EXCEPT ![r] = origin[r]]
  /\ tree' = [tree EXCEPT ![r] = origin[r]]
  /\ UNCHANGED <<origin, deps, head, crashes>>

\* updateHead: git log prints the revision, which is then stored.
ReadLog(g) == /\ Pc(g) = "log" /\ dir[Repo(g)] = "cloned"
              /\ call' = [call EXCEPT ![g].pc = "head", ![g].log = tree[Repo(g)]]
              /\ UNCHANGED <<origin, diskVars, head, crashes>>

\* Mutant: the head is forgotten when git log fails.
LogFailsForgets(g) == /\ Goto(g, "log", "err")
                      /\ head' = [head EXCEPT ![Repo(g)] = 0]
                      /\ UNCHANGED <<origin, diskVars, crashes>>

LogFails(g) == /\ Goto(g, "log", "err")
               /\ UNCHANGED <<origin, diskVars, head, crashes>>

StoreHead(g) == /\ Goto(g, "head", call[g].next)
                /\ head' = [head EXCEPT ![Repo(g)] = call[g].log]
                /\ UNCHANGED <<origin, diskVars, crashes>>

\* runPostReceiveHooks; Bootstrap reads the head once more after a clone.
HooksEnd(g) == LET r == Repo(g) IN
  /\ Pc(g) = "hooks"
  /\ call' = [call EXCEPT ![g].pc = IF call[g].updated THEN "log" ELSE "nil", ![g].next = "nil"]
  /\ deps' = [deps EXCEPT ![r] = tree[r]]
  /\ UNCHANGED <<origin, tracking, dir, tree, head, crashes>>

\* Mutant: the error of a hook is logged and passed over.
HooksFailPassed(g) == /\ Repo(g) \in Hooked
                      /\ Goto(g, "hooks", "nil")
                      /\ UNCHANGED <<origin, diskVars, head, crashes>>

HooksFail(g) == /\ Repo(g) \in Hooked
                /\ Goto(g, "hooks", "err")
                /\ UNCHANGED <<origin, diskVars, head, crashes>>

\* Update.  It has no look at the clone first: it may find one without a commit.
Fetch(g) == /\ Goto(g, "fetch", "parse")
            /\ dir[Repo(g)] # "none"
            /\ tracking' = [tracking EXCEPT ![Repo(g)] = origin[Repo(g)]]
            /\ UNCHANGED <<origin, dir, tree, deps, head, crashes>>

\* Mutant: the new head is stored before the working tree has it.
ParseStoresHead(g) == LET r == Repo(g) IN
  /\ Pc(g) = "parse"
  /\ call' = [call EXCEPT ![g].oHead = tracking[r],
                          ![g].pc = IF tracking[r] = head[r] THEN "nil" ELSE "reset"]
  /\ head' = [head EXCEPT ![r] = tracking[r]]
  /\ UNCHANGED <<origin, diskVars, crashes>>

Parse(g) == LET r == Repo(g) IN
  /\ Pc(g) = "parse"
  /\ call' = [call EXCEPT ![g].oHead = tracking[r],
                          ![g].pc = IF tracking[r] = head[r] THEN "nil" ELSE "reset"]
  /\ UNCHANGED <<origin, diskVars, head, crashes>>

\* Mutant: a reset to the own branch and not to the upstream one.
ResetToOwn(g) == /\ Pc(g) = "reset"
                 /\ call' = [call EXCEPT ![g].pc = "log", ![g].next = "hooks"]
                 /\ UNCHANGED <<origin, diskVars, head, crashes>>

\* Mutant: the head is not read again after the reset.
ResetKeepsHead(g) == LET r == Repo(g) IN
  /\ Goto(g, "reset", "hooks")
  /\ dir' = [dir EXCEPT ![r] = "cloned"]
  /\ tree' = [tree EXCEPT ![r] = tracking[r]]
  /\ UNCHANGED <<origin, tracking, deps, head, crashes>>

Reset(g) == LET r == Repo(g) IN
  /\ Pc(g) = "reset"
  /\ call' = [call EXCEPT ![g].pc = "log", ![g].next = "hooks"]
  /\ dir' = [dir EXCEPT ![r] = "cloned"]
  /\ tree' = [tree EXCEPT ![r] = tracking[r]]
  /\ UNCHANGED <<origin, tracking, deps, head, crashes>>

\* A git command without effect on failure: fetch, rev-parse, reset.
GitFails(g) == /\ Pc(g) \in {"fetch", "parse", "reset"}
               /\ call' = [call EXCEPT ![g].pc = "err"]
               /\ UNCHANGED <<origin, diskVars, head, crashes>>

RepoStep(g) ==
  \/ Stat(g) \/ CloneBegins(g) \/ CloneFails(g) \/ CloneEnds(g)
  \/ ReadLog(g) \/ LogFails(g) \/ StoreHead(g) \/ HooksEnd(g) \/ HooksFail(g)
  \/ Fetch(g) \/ Parse(g) \/ Reset(g) \/ GitFails(g)

\* Somebody pushes to the branch.
Push(r) == /\ origin[r] < MaxRev
           /\ origin' = [origin EXCEPT ![r] = @ + 1]
           /\ UNCHANGED <<diskVars, head, call, crashes>>

\* The operator goes down and main starts again: the calls and the heads are
\* gone, and what git had done so far is on the disk.
GoDown == /\ crashes < MaxCrashes
          /\ crashes' = crashes + 1
          /\ head' = [r \in Repos |-> 0]
          /\ call' = [g \in Callers |-> NoCall]
          /\ UNCHANGED <<origin, diskVars>>

RepoNext ==
  \/ \E g \in Callers : RepoStep(g) \/ Leave(g)
  \/ \E g \in Callers, r \in Repos : \/ EnterUpdate(g, r)
                                     \/ \E want \in BOOLEAN : EnterBootstrap(g, r, want)
  \/ \E r \in Repos : Push(r)
  \/ GoDown

RepoSpec == GitInit /\ [][RepoNext]_repoVars
-----------------------------------------------------------------------------
Calls == [pc : {"out", "stat", "clone", "cloning", "log", "head", "hooks", "fetch", "parse",
                "reset", "nil", "err"},
          repo : Repos \cup {NoRepo}, next : {"hooks", "fetch", "nil"}, updated : BOOLEAN,
          want : BOOLEAN, oHead : Revisions, log : Revisions]

\* Type invariant of the repositories and of the calls in progress.
GitTypeOK ==
  /\ origin \in [Repos -> 1 .. MaxRev] /\ dir \in [Repos -> {"none", "partial", "cloned"}]
  /\ tracking \in [Repos -> Revisions] /\ tree \in [Repos -> Revisions]
  /\ deps \in [Repos -> Revisions] /\ head \in [Repos -> Revisions]
  /\ call \in [Callers -> Calls] /\ \A g \in Callers : Pc(g) # "out" => Repo(g) \in Repos
  /\ crashes \in 0 .. MaxCrashes

\* The version shown for a repository is never newer than the code on the disk,
\* nor that newer than what was fetched, whatever fails, whenever the operator
\* goes down and however updates overlap (repo.go:95-112, 198-209).
VersionNeverAhead ==
  \A r \in Repos : /\ head[r] <= tree[r] /\ tree[r] <= tracking[r] /\ tracking[r] <= origin[r]
                   /\ deps[r] <= tree[r]

\* An update that comes back without an error leaves at least the revision that
\* it had fetched in the working tree, also when it took the early return and
\* other updates were at work (repo.go:72-76, 94-98).
UpdateDelivers == \A g \in Callers : Pc(g) = "nil" => call[g].oHead <= tree[Repo(g)]

\* With one call at a time, success means that the version shown is the code in
\* the working tree, even if an earlier call failed or the operator went down
\* between the reset and the new head (repo.go:101-112, 177-179).
SuccessIsCurrent == \A g \in Callers : Pc(g) = "nil" => head[Repo(g)] = tree[Repo(g)]

\* With one call at a time, the version shown only ever grows until the operator
\* goes down (repo.go:193-204).  Calls that overlap may put an older head back: the
\* one that read git log first may store its head last.
HeadOnlyGrows == [][crashes' = crashes => \A r \in Repos : head[r] <= head'[r]]_repoVars
=============================================================================
