-------------------------- MODULE SelfUpdateProofs --------------------------
(***************************************************************************)
(* SelfUpdate for any versions, builds and restarts.  What is verified is  *)
(* installed: the invariant follows the binary from the comparison with    *)
(* the checksum, which was released, to the file and the process           *)
(* (VerifiedIsReleased).                                                   *)
(***************************************************************************)
EXTENDS SelfUpdate, TLAPS

\* Checksums in the bucket, the one that was read, and the binary that was compared
\* with it are of releases; the old file is aside exactly while the new one is
\* moved in.
VerifiedIsReleased ==
  /\ upload # NoUpload => latest[upload.version] # 0
  /\ \A v \in Versions : sum[v] # 0 => <<v, sum[v]>> \in released
  /\ req.checksum # 0 => <<req.version, req.checksum>> \in released
  /\ req.pc \in {"verify", "write", "moved", "restart"} => req.binary # 0
  /\ req.pc \in {"write", "moved", "restart"} => req.binary = req.checksum
  /\ req.pc = "moved" => aside # Missing

RequestedIsThere == req.pc = "restart" => target = <<req.version, req.binary>>

SelfInv == /\ SelfTypeOK /\ OnlyReleases /\ VerifiedIsReleased /\ RequestedIsThere

LEMMA SelfInitHolds == SelfAssumption /\ Init => SelfInv
<1> SUFFICES ASSUME SelfAssumption, Init PROVE SelfInv
  OBVIOUS
<1>1. /\ <<Installed, 1>> \in Builds /\ 1 \in 0 .. MaxBuilds /\ 0 \in 0 .. MaxBuilds
      /\ 0 \in 0 .. MaxRestarts /\ Missing \notin Builds
  BY DEF SelfAssumption, Builds
<1>2. /\ latest \in [Versions -> 0 .. MaxBuilds] /\ bin = latest /\ sum = latest
      /\ \A v \in Versions : sum[v] # 0 => v = Installed /\ sum[v] = 1
  BY <1>1 DEF Init
<1>3. SelfTypeOK
  <2>1. alive \in BOOLEAN
    BY DEF Init
  <2>2. QED BY <1>1, <1>2, <2>1 DEF Init, NoUpload, NoRequest, SelfTypeOK
<1>4. OnlyReleases
  BY <1>1 DEF Init, OnlyReleases
<1>5. VerifiedIsReleased /\ RequestedIsThere
  BY <1>2 DEF Init, NoRequest, VerifiedIsReleased, RequestedIsThere
<1>6. QED BY <1>3, <1>4, <1>5 DEF SelfInv

\* The uploader only adds to what is released.
LEMMA UploaderKeepsInv == ASSUME SelfAssumption, SelfInv, UploaderStep PROVE SelfInv'
<1> USE DEF SelfInv
<1>0. UNCHANGED <<req, target, aside, running, alive, restarts>>
  BY DEF UploaderStep, fileVars, processVars
<1> DEFINE Bucket ==
      /\ latest' \in [Versions -> 0 .. MaxBuilds] /\ bin' \in [Versions -> 0 .. MaxBuilds]
      /\ sum' \in [Versions -> 0 .. MaxBuilds] /\ released' \subseteq Builds
      /\ upload' \in [pc : {"idle", "binary", "checksum"}, version : Versions \cup {NoVersion}]
      /\ upload' # NoUpload => upload'.version \in Versions /\ latest'[upload'.version] # 0
      /\ released \subseteq released'
      /\ \A v \in Versions : sum'[v] # 0 => <<v, sum'[v]>> \in released'
<1>1. ASSUME NEW v \in Versions, NewRelease(v) PROVE Bucket
  <2>1. /\ upload' = [pc |-> "binary", version |-> v]
        /\ latest' = [latest EXCEPT ![v] = @ + 1] /\ latest[v] < MaxBuilds
        /\ UNCHANGED <<bin, sum, released>>
    BY <1>1 DEF NewRelease
  <2>2. latest[v] \in 0 .. MaxBuilds /\ latest[v] + 1 \in 1 .. MaxBuilds
    BY <2>1 DEF SelfTypeOK, SelfAssumption
  <2>3. latest' \in [Versions -> 0 .. MaxBuilds] /\ latest'[v] # 0
    BY <2>1, <2>2 DEF SelfTypeOK
  <2>4. upload'.version = v
    BY <2>1
  <2>5. QED BY <2>1, <2>3, <2>4 DEF SelfTypeOK, VerifiedIsReleased
<1>2. ASSUME UploadBinary PROVE Bucket
  <2>1. upload # NoUpload /\ upload.version \in Versions /\ latest[upload.version] # 0
    BY <1>2 DEF UploadBinary, NoUpload, SelfTypeOK, VerifiedIsReleased
  <2>2. /\ bin' \in [Versions -> 0 .. MaxBuilds] /\ upload'.version = upload.version
        /\ upload' \in [pc : {"idle", "binary", "checksum"}, version : Versions \cup {NoVersion}]
        /\ UNCHANGED <<latest, sum, released>>
    BY <1>2, <2>1 DEF UploadBinary, SelfTypeOK
  <2>3. QED BY <2>1, <2>2 DEF SelfTypeOK, VerifiedIsReleased
<1>3. ASSUME UploadChecksum PROVE Bucket
  <2> DEFINE v == upload.version
  <2>1. v \in Versions /\ latest[v] # 0
    BY <1>3 DEF UploadChecksum, NoUpload, SelfTypeOK, VerifiedIsReleased
  <2>2. latest[v] \in 1 .. MaxBuilds
    BY <2>1 DEF SelfTypeOK, SelfAssumption
  <2>3. /\ sum' = [sum EXCEPT ![v] = latest[v]] /\ released' = released \cup {<<v, latest[v]>>}
        /\ upload' = NoUpload /\ UNCHANGED <<latest, bin>>
    BY <1>3 DEF UploadChecksum
  <2>4. released' \subseteq Builds /\ sum' \in [Versions -> 0 .. MaxBuilds]
    BY <2>1, <2>2, <2>3 DEF SelfTypeOK, Builds
  <2>5. QED BY <2>1, <2>3, <2>4 DEF NoUpload, SelfTypeOK, VerifiedIsReleased
<1>4. ASSUME UploadFails PROVE Bucket
  BY <1>4 DEF UploadFails, NoUpload, SelfTypeOK, VerifiedIsReleased
<1>5. Bucket
  BY <1>1, <1>2, <1>3, <1>4 DEF UploaderStep
<1> HIDE DEF Bucket
<1>6. SelfTypeOK'
  BY <1>0, <1>5 DEF SelfTypeOK, Bucket
<1>7. (OnlyReleases /\ VerifiedIsReleased /\ RequestedIsThere)'
  BY <1>0, <1>5 DEF Bucket, OnlyReleases, VerifiedIsReleased, RequestedIsThere
<1>8. QED BY <1>6, <1>7

\* The request, the downloads and the exchange of the files.
LEMMA UpdateKeepsInv ==
  ASSUME SelfAssumption, SelfInv, alive, UpdateStep PROVE SelfInv'
<1> USE DEF SelfInv
<1>0. UNCHANGED <<latest, bin, sum, upload, released, running, alive, restarts>>
  BY DEF UpdateStep, bucketVars, processVars
<1>1. Missing \notin Builds
  BY DEF SelfAssumption, Builds
<1> DEFINE
      Requests == [pc : {"idle", "checksum", "binary", "verify", "write", "moved", "restart", "error"},
                   version : Versions \cup {NoVersion},
                   checksum : 0 .. MaxBuilds, binary : 0 .. MaxBuilds]
      Keeps ==
        /\ req' \in Requests /\ (req'.pc # "idle" => req'.version \in Versions)
        /\ target' \in Builds \cup {Missing} /\ aside' \in Builds \cup {Missing}
        /\ {target', aside', running} \ {Missing} \subseteq released
        /\ req'.checksum # 0 => <<req'.version, req'.checksum>> \in released
        /\ req'.pc \in {"verify", "write", "moved", "restart"} => req'.binary # 0
        /\ req'.pc \in {"write", "moved", "restart"} => req'.binary = req'.checksum
        /\ req'.pc = "moved" => aside' # Missing
        /\ req'.pc = "restart" => target' = <<req'.version, req'.binary>>
<1>2. /\ req \in Requests /\ (req.pc # "idle" => req.version \in Versions)
      /\ target \in Builds \cup {Missing} /\ aside \in Builds \cup {Missing}
      /\ {target, aside, running} \ {Missing} \subseteq released
  BY DEF SelfTypeOK, OnlyReleases
<1>3. ASSUME NEW v \in Versions, Request(v) PROVE Keeps
  <2>1. /\ req.pc = "idle" /\ req'.version = v /\ req'.checksum = 0 /\ req'.binary = 0
        /\ req'.pc \in {"error", "checksum"} /\ req' \in Requests
        /\ UNCHANGED <<target, aside>>
    BY <1>2, <1>3 DEF Request, NoRequest, fileVars
  <2>2. QED BY <1>2, <2>1
<1>4. ASSUME GetChecksum PROVE Keeps
  <2>1. PICK c \in {0, sum[req.version]} : req' = [req EXCEPT !.checksum = c, !.pc = "binary"]
    BY <1>4 DEF GetChecksum
  <2>2. c \in 0 .. MaxBuilds
    BY <1>2, <1>4 DEF GetChecksum, SelfTypeOK, SelfAssumption
  <2>3. /\ req.pc = "checksum" /\ req'.pc = "binary" /\ req'.version = req.version
        /\ req'.binary = req.binary /\ req'.checksum = c
        /\ req' \in Requests /\ UNCHANGED <<target, aside>>
    BY <1>2, <1>4, <2>1, <2>2 DEF GetChecksum, fileVars
  <2>4. c # 0 => <<req.version, c>> \in released
    BY <1>2, <2>3 DEF VerifiedIsReleased
  <2>5. QED BY <1>2, <2>3, <2>4
<1>5. ASSUME GetBinary PROVE Keeps
  <2>1. /\ req.pc = "binary" /\ req'.pc = "verify" /\ req'.version = req.version
        /\ req'.binary = bin[req.version] /\ bin[req.version] # 0 /\ req'.checksum = req.checksum
        /\ UNCHANGED <<target, aside>>
    BY <1>2, <1>5 DEF GetBinary, fileVars
  <2>2. req' \in Requests
    BY <1>2, <1>5 DEF GetBinary, SelfTypeOK
  <2>3. QED BY <1>2, <2>1, <2>2 DEF VerifiedIsReleased
<1>6. ASSUME Verify PROVE Keeps
  <2>1. /\ req.pc = "verify" /\ req'.version = req.version
        /\ req'.binary = req.binary /\ req'.checksum = req.checksum
        /\ req'.pc = (IF req.binary = req.checksum THEN "write" ELSE "error")
        /\ req' \in Requests
        /\ UNCHANGED <<target, aside>>
    BY <1>2, <1>6 DEF Verify, fileVars
  <2>2. QED BY <1>2, <2>1 DEF VerifiedIsReleased
<1>7. ASSUME UpdateFails \/ MoveInFails PROVE Keeps
  <2>1. /\ req.pc # "idle" /\ req'.pc = "error" /\ req'.version = req.version
        /\ req'.binary = req.binary /\ req'.checksum = req.checksum
        /\ req' \in Requests
    BY <1>2, <1>7 DEF UpdateFails, MoveInFails
  <2>2. CASE UpdateFails
    BY <1>2, <2>1, <2>2 DEF UpdateFails, fileVars, VerifiedIsReleased
  <2>3. CASE MoveInFails
    BY <1>2, <2>1, <2>3 DEF MoveInFails, fileVars, VerifiedIsReleased
  <2>4. QED BY <1>7, <2>2, <2>3
<1>8. ASSUME MoveAway PROVE Keeps
  <2>1. /\ req.pc = "write" /\ req'.pc = "moved" /\ req'.version = req.version
        /\ req'.binary = req.binary /\ req'.checksum = req.checksum
        /\ req' \in Requests /\ aside' = target /\ target' = Missing /\ target # Missing
    BY <1>2, <1>8 DEF MoveAway
  <2>2. QED BY <1>2, <2>1 DEF VerifiedIsReleased
<1>9. ASSUME MoveIn PROVE Keeps
  <2>1. /\ req.pc = "moved" /\ req'.pc = "restart" /\ req'.version = req.version
        /\ req'.binary = req.binary /\ req'.checksum = req.checksum
        /\ req' \in Requests
        /\ target' = <<req.version, req.binary>> /\ aside' = Missing
    BY <1>2, <1>9 DEF MoveIn
  <2>2. <<req.version, req.binary>> \in released /\ released \subseteq Builds
    BY <2>1 DEF VerifiedIsReleased, SelfTypeOK
  <2>3. target' # Missing /\ target' \in Builds
    BY <1>1, <2>1, <2>2
  <2>4. QED BY <1>2, <2>1, <2>2, <2>3 DEF VerifiedIsReleased
<1>10. ASSUME Answer PROVE Keeps
  <2>1. /\ req.pc \in {"error", "restart"} /\ req' = NoRequest /\ UNCHANGED <<target, aside>>
    BY <1>10 DEF Answer, fileVars
  <2>2. req' \in Requests /\ req'.pc = "idle" /\ req'.checksum = 0
    BY <2>1 DEF NoRequest, SelfAssumption
  <2>3. QED BY <1>2, <2>1, <2>2
<1>11. Keeps
  BY <1>3, <1>4, <1>5, <1>6, <1>7, <1>8, <1>9, <1>10 DEF UpdateStep
<1>12. SelfTypeOK'
  BY <1>0, <1>11 DEF SelfTypeOK
<1>13. (OnlyReleases /\ VerifiedIsReleased /\ RequestedIsThere)'
  BY <1>0, <1>11 DEF OnlyReleases, VerifiedIsReleased, RequestedIsThere
<1>14. QED BY <1>12, <1>13

\* A restart at any moment.
LEMMA RestartKeepsInv ==
  ASSUME SelfAssumption, SelfInv, alive, Restart PROVE SelfInv'
<1> USE DEF SelfInv
<1>1. /\ restarts' = restarts + 1 /\ restarts < MaxRestarts /\ req' = NoRequest
      /\ running' = IF target # Missing THEN target ELSE running
      /\ UNCHANGED <<latest, bin, sum, upload, released, target, aside>>
  BY DEF Restart, bucketVars, fileVars
<1>2. alive' \in BOOLEAN
  BY DEF Restart
<1>4. restarts' \in 0 .. MaxRestarts
  BY <1>1 DEF SelfTypeOK, SelfAssumption
<1>5. running' \in Builds /\ running' \in {target, running} /\ (running' = target => target # Missing)
  BY <1>1 DEF SelfTypeOK, SelfAssumption, Builds
<1>6. req'.pc = "idle" /\ req'.checksum = 0
      /\ req' \in [pc : {"idle", "checksum", "binary", "verify", "write", "moved", "restart", "error"},
                   version : Versions \cup {NoVersion},
                   checksum : 0 .. MaxBuilds, binary : 0 .. MaxBuilds]
  BY <1>1 DEF NoRequest, SelfAssumption
<1>7. SelfTypeOK'
  BY <1>1, <1>2, <1>4, <1>5, <1>6 DEF SelfTypeOK
<1>8. OnlyReleases' /\ VerifiedIsReleased' /\ RequestedIsThere'
  BY <1>1, <1>5, <1>6 DEF OnlyReleases, VerifiedIsReleased, RequestedIsThere
<1>9. QED BY <1>7, <1>8

\* Files, process and bucket in every reachable state.
LEMMA SelfInvariant == Spec => []SelfInv
<1>1. SelfAssumption
  BY SelfAssumption
<1>2. Init => SelfInv
  BY <1>1, SelfInitHolds
<1>3. SelfInv /\ [Next]_vars => SelfInv'
  <2> SUFFICES ASSUME SelfInv, [Next]_vars PROVE SelfInv'
    OBVIOUS
  <2>1. CASE UploaderStep
    BY <1>1, <2>1, UploaderKeepsInv
  <2>2. CASE alive /\ UpdateStep
    BY <1>1, <2>2, UpdateKeepsInv
  <2>3. CASE alive /\ Restart
    BY <1>1, <2>3, RestartKeepsInv
  <2>4. CASE UNCHANGED vars
    BY <2>4 DEF vars, bucketVars, fileVars, processVars, SelfInv, SelfTypeOK, OnlyReleases,
                VerifiedIsReleased, RequestedIsThere
  <2>5. QED BY <2>1, <2>2, <2>3, <2>4 DEF Next
<1>4. QED BY <1>2, <1>3, PTL DEF Spec

\* Bucket, request, files and process are well-typed (updater.go:17-21).
THEOREM SelfTypeCorrect == Spec => []SelfTypeOK
<1>1. SelfInv => SelfTypeOK
  BY DEF SelfInv
<1>2. QED BY <1>1, SelfInvariant, PTL

\* Only whole releases are installed and run, whenever versions are uploaded again
\* and wherever the operator is killed (updater.go:54-84).
THEOREM OnlyReleasesInstalled == Spec => []OnlyReleases
<1>1. SelfInv => OnlyReleases
  BY DEF SelfInv
<1>2. QED BY <1>1, SelfInvariant, PTL

\* A restart after a successful update runs the version that was requested
\* (http.go:272-290).
THEOREM RestartRunsRequested == Spec => RestartsIntoRequested
<1>0. SelfAssumption
  BY SelfAssumption
<1>1. SelfInv /\ [Next]_vars
        => [req.pc = "restart" /\ restarts' # restarts => running'[1] = req.version]_vars
  <2> SUFFICES ASSUME SelfInv, Next, req.pc = "restart", restarts' # restarts
               PROVE  running'[1] = req.version
    OBVIOUS
  <2>1. Restart
    BY DEF Next, UploaderStep, UpdateStep, processVars
  <2>2. target = <<req.version, req.binary>> /\ target # Missing
    <3>1. <<req.version, req.binary>> \in released /\ released \subseteq Builds
      BY DEF SelfInv, SelfTypeOK, VerifiedIsReleased
    <3>2. QED BY <1>0, <3>1 DEF SelfInv, RequestedIsThere, SelfAssumption, Builds
  <2>3. QED BY <2>1, <2>2 DEF Restart
<1>2. QED BY <1>1, SelfInvariant, PTL DEF Spec, RestartsIntoRequested
=============================================================================
