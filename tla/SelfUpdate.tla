----------------------------- MODULE SelfUpdate -----------------------------
(***************************************************************************)
(* updater.go and uploader/main.go: a release is built and its binary and  *)
(* checksum are uploaded to a bucket, one after the other; the operator    *)
(* downloads first the checksum and then the binary, replaces its own file *)
(* with the latter and lets systemd restart it.                            *)
(*                                                                         *)
(* A version may be built and uploaded again: build n of version v is      *)
(* <<v, n>>.  There is one request to update at a time, as MQTT serves     *)
(* them.  What go-update does with the file is modelled as updater.go uses *)
(* it: it verifies, moves the old file away, moves the new one in, and, if *)
(* it cannot, tries to move the old one back.                              *)
(***************************************************************************)
EXTENDS Naturals

CONSTANTS Versions,
          Installed,   \* the version that the device has at first
          MaxBuilds,   \* bound: builds of a version
          MaxRestarts, \* bound: times the operator is killed, or restarts
          Missing, NoVersion

ASSUME SelfAssumption == /\ Installed \in Versions /\ NoVersion \notin Versions
                         /\ MaxBuilds \in Nat \ {0} /\ MaxRestarts \in Nat
                         /\ Missing \notin Versions \X (1 .. MaxBuilds)

VARIABLES latest,    \* latest[v]: the build on the developer's disk, 0 if none
          bin, sum,  \* bin[v], sum[v]: the build whose binary and checksum the bucket has
          upload,    \* the uploader: what it does next, and for which version
          released,  \* builds whose checksum was ever in the bucket
          req,       \* the request to update, with the locals of Update
          target,    \* the file of the operator: a build, or Missing
          aside,     \* the old file, while go-update has moved it away
          running,   \* the build that runs
          alive,     \* systemd has been able to start the operator
          restarts

bucketVars == <<latest, bin, sum, upload, released>>
fileVars == <<target, aside>>
processVars == <<running, alive, restarts>>
vars == <<bucketVars, req, fileVars, processVars>>

Builds == Versions \X (1 .. MaxBuilds)
NoUpload == [pc |-> "idle", version |-> NoVersion]
NoRequest == [pc |-> "idle", version |-> NoVersion, checksum |-> 0, binary |-> 0]

Init == /\ latest = [v \in Versions |-> IF v = Installed THEN 1 ELSE 0]
        /\ bin = latest /\ sum = latest
        /\ upload = NoUpload /\ released = {<<Installed, 1>>}
        /\ req = NoRequest
        /\ target = <<Installed, 1>> /\ aside = Missing
        /\ running = target /\ alive = TRUE /\ restarts = 0
-----------------------------------------------------------------------------
\* make new-release: builds, computes the checksum, starts the uploader, ...
NewRelease(v) == /\ upload = NoUpload /\ latest[v] < MaxBuilds
                 /\ latest' = [latest EXCEPT ![v] = @ + 1]
                 /\ upload' = [pc |-> "binary", version |-> v]
                 /\ UNCHANGED <<bin, sum, released>>

\* ... which stops at the first error.
UploadBinary == /\ upload.pc = "binary"
                /\ bin' = [bin EXCEPT ![upload.version] = latest[upload.version]]
                /\ upload' = [upload EXCEPT !.pc = "checksum"]
                /\ UNCHANGED <<latest, sum, released>>

UploadChecksum == LET v == upload.version IN
  /\ upload.pc = "checksum"
  /\ sum' = [sum EXCEPT ![v] = latest[v]]
  /\ released' = released \cup {<<v, latest[v]>>}
  /\ upload' = NoUpload
  /\ UNCHANGED <<latest, bin>>

UploadFails == /\ upload # NoUpload /\ upload' = NoUpload
               /\ UNCHANGED <<latest, bin, sum, released>>

UploaderStep == /\ \/ \E v \in Versions : NewRelease(v)
                   \/ UploadBinary \/ UploadChecksum \/ UploadFails
                /\ UNCHANGED <<req, fileVars, processVars>>
-----------------------------------------------------------------------------
\* Mutant: the new version is not taken from the message.
RequestNoVersion(v) == /\ req = NoRequest
                       /\ req' = [NoRequest EXCEPT !.pc = IF v = running[1] THEN "error" ELSE "checksum"]
                       /\ UNCHANGED fileVars

\* A request for the version that runs is refused.
Request(v) == /\ req = NoRequest
              /\ req' = [NoRequest EXCEPT !.version = v,
                                          !.pc = IF v = running[1] THEN "error" ELSE "checksum"]
              /\ UNCHANGED fileVars

\* The error of reading the body is not looked at: the checksum may be cut off,
\* and then it is that of nothing (0).
GetChecksum == /\ req.pc = "checksum" /\ sum[req.version] # 0
               /\ \E c \in {0, sum[req.version]} :
                    req' = [req EXCEPT !.checksum = c, !.pc = "binary"]
               /\ UNCHANGED fileVars

GetBinary == /\ req.pc = "binary" /\ bin[req.version] # 0
             /\ req' = [req EXCEPT !.binary = bin[req.version], !.pc = "verify"]
             /\ UNCHANGED fileVars

\* Mutant: go-update is not given the checksum.
VerifyNothing == /\ req.pc = "verify"
                 /\ req' = [req EXCEPT !.pc = "write"]
                 /\ UNCHANGED fileVars

\* updateWithChecksum: the options make go-update verify before it writes.
Verify == /\ req.pc = "verify"
          /\ req' = [req EXCEPT !.pc = IF req.binary = req.checksum THEN "write" ELSE "error"]
          /\ UNCHANGED fileVars

\* Mutant: the error is logged, and nil is returned.
UpdateFailsNil == /\ req.pc \in {"checksum", "binary", "write"}
                  /\ req' = [req EXCEPT !.pc = IF req.pc = "write" THEN "restart" ELSE "error"]
                  /\ UNCHANGED fileVars

\* The bucket does not answer, or not with 200; the download breaks off; the new
\* file cannot be written.
UpdateFails == /\ req.pc \in {"checksum", "binary", "write"}
               /\ req' = [req EXCEPT !.pc = "error"]
               /\ UNCHANGED fileVars

MoveAway == /\ req.pc = "write" /\ target # Missing
            /\ aside' = target /\ target' = Missing
            /\ req' = [req EXCEPT !.pc = "moved"]

MoveIn == /\ req.pc = "moved"
          /\ target' = <<req.version, req.binary>> /\ aside' = Missing
          /\ req' = [req EXCEPT !.pc = "restart"]

\* The old file is moved back, unless that fails too: go-update would tell
\* (RollbackError), but updater.go does not ask, and no file is left.
MoveInFails == /\ req.pc = "moved"
               /\ req' = [req EXCEPT !.pc = "error"]
               /\ \/ target' = aside /\ aside' = Missing
                  \/ UNCHANGED fileVars

\* The answer with the error.  After a success everything is stopped; if the answer
\* cannot be sent or systemctl fails, the operator stays as it is, on the old code.
Answer == /\ req.pc \in {"error", "restart"}
          /\ req' = NoRequest
          /\ UNCHANGED fileVars

\* systemctl restart operator, by this handler or by any other, a signal, a power
\* cut: whatever is in progress ends, and systemd starts the file that is there.
Restart == /\ restarts < MaxRestarts /\ restarts' = restarts + 1
           /\ req' = NoRequest
           /\ alive' = (target # Missing)
           /\ running' = IF target # Missing THEN target ELSE running
           /\ UNCHANGED <<bucketVars, fileVars>>

UpdateStep == /\ \/ \E v \in Versions : Request(v)
                 \/ GetChecksum \/ GetBinary \/ Verify \/ UpdateFails
                 \/ MoveAway \/ MoveIn \/ MoveInFails \/ Answer
              /\ UNCHANGED <<bucketVars, processVars>>

Next == UploaderStep \/ (alive /\ UpdateStep) \/ (alive /\ Restart)

Spec == Init /\ [][Next]_vars
-----------------------------------------------------------------------------
\* Type invariant of bucket, request, files and process.
SelfTypeOK ==
  /\ latest \in [Versions -> 0 .. MaxBuilds] /\ bin \in [Versions -> 0 .. MaxBuilds]
  /\ sum \in [Versions -> 0 .. MaxBuilds] /\ released \subseteq Builds
  /\ upload \in [pc : {"idle", "binary", "checksum"}, version : Versions \cup {NoVersion}]
  /\ req \in [pc : {"idle", "checksum", "binary", "verify", "write", "moved", "restart", "error"},
              version : Versions \cup {NoVersion},
              checksum : 0 .. MaxBuilds, binary : 0 .. MaxBuilds]
  /\ req.pc # "idle" => req.version \in Versions
  /\ upload # NoUpload => upload.version \in Versions
  /\ target \in Builds \cup {Missing} /\ aside \in Builds \cup {Missing}
  /\ running \in Builds /\ alive \in BOOLEAN /\ restarts \in 0 .. MaxRestarts

\* Only a build that was released whole is ever installed or run, also when the
\* same version is uploaded again between the two downloads, the upload stops
\* half-way or the checksum is cut off (updater.go:54-84, main.go of the uploader).
OnlyReleases == {target, aside, running} \ {Missing} \subseteq released

\* The restart that an update asks for starts a build of the version requested,
\* although the installation may fail after the downloads (http.go:272-290).
RestartsIntoRequested ==
  [][req.pc = "restart" /\ restarts' # restarts => running'[1] = req.version]_vars
=============================================================================
