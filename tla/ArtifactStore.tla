---------------------------- MODULE ArtifactStore ----------------------------
(***************************************************************************)
(* Storing the results and the screenshots of a run                        *)
(* (pkg/server/store_pipeline_result.go, store_execution_screenshots.go).  *)
(*                                                                         *)
(* Activities write files below the root of their device and run, and ask  *)
(* the execution API to upload them.  A stored result removes the          *)
(* directories its files lie in, stored screenshots remove their files and *)
(* the directories that became empty.  Requests run concurrently, their    *)
(* upload or its answer may be lost, the process may end between the       *)
(* upload and the removal, and the activity then asks again.               *)
(***************************************************************************)
EXTENDS Naturals, FiniteSets

CONSTANTS
    Stores,                 \* the concurrent requests
    Runs,
    Files,
    Images,                 \* the files with the name of an image
    Above,                  \* Above[f]: the directories f lies in, nearest or not
    Dir,                    \* Dir[f]: the directory of f
    Root,                   \* Root[u]: the root directory of run u
    maxMaestroScreenshots

VARIABLES
    written,                \* the files the activities have written
    disk,                   \* the files that exist
    upstream,               \* <<f, u, k>>: Credimi has stored f in a store of kind k for run u
    store                   \* the state of each request

vars == <<written, disk, upstream, store>>

Results == "result"
Screens == "screenshots"

Idle == [at |-> "idle"]

Init ==
    /\ written = {}
    /\ disk = {}
    /\ upstream = {}
    /\ store = [r \in Stores |-> Idle]

Goto(r, at) == store' = [store EXCEPT ![r].at = at]

Answer(r) == store' = [store EXCEPT ![r] = Idle]

Accept(r, k, u, F) ==
    store' = [store EXCEPT ![r] = [at |-> "read", kind |-> k, run |-> u, files |-> F]]

\* An activity writes a file; names are not used twice.
Write(f) ==
    /\ f \notin written
    /\ written' = written \cup {f}
    /\ disk' = disk \cup {f}
    /\ UNCHANGED <<upstream, store>>

-----------------------------------------------------------------------------
isPathWithinRoot(f, u) == Root[u] \in Above[f]

\* The device, the platform and the paths of a result are accepted.
storePipelineResultLogic(r, u, F) ==
    /\ store[r].at = "idle"
    /\ \A f \in F : isPathWithinRoot(f, u)
    /\ Accept(r, Results, u, F)
    /\ UNCHANGED <<written, disk, upstream>>

\* validateScreenshotPaths: existing images of the run, and not too many.
validateScreenshotPaths(u, F) ==
    /\ Cardinality(F) <= maxMaestroScreenshots
    /\ F \subseteq Images \cap disk
    /\ \A f \in F : isPathWithinRoot(f, u)

storeExecutionScreenshotsLogic(r, u, F) ==
    /\ store[r].at = "idle"
    /\ validateScreenshotPaths(u, F)
    /\ Accept(r, Screens, u, F)
    /\ UNCHANGED <<written, disk, upstream>>

\* Every file is copied into the body; a missing one is an error (Fail).
addFileToMultipart(r) ==
    /\ store[r].at = "read"
    /\ store[r].files \subseteq disk
    /\ Goto(r, "post")
    /\ UNCHANGED <<written, disk, upstream>>

Stored(r) ==
    upstream' = upstream \cup (store[r].files \X {store[r].run} \X {store[r].kind})

\* Mutant: an answer is taken as success whatever its status.
PostTrusted(r) ==
    /\ store[r].at = "post"
    /\ \/ Stored(r)
       \/ UNCHANGED upstream
    /\ Goto(r, "clean")
    /\ UNCHANGED <<written, disk>>

\* Credimi stores the files and its answer arrives, with the URLs of the
\* screenshots when it is about screenshots.
PostAnswered(r) ==
    /\ store[r].at = "post"
    /\ Stored(r)
    /\ Goto(r, "clean")
    /\ UNCHANGED <<written, disk>>

\* Credimi stores the files but no valid answer arrives: an error.
PostUnanswered(r) ==
    /\ store[r].at = "post"
    /\ Stored(r)
    /\ Answer(r)
    /\ UNCHANGED <<written, disk>>

\* managedArtifactDirectories: where the files of a result lie.
managedArtifactDirectories(F) == {Dir[f] : f \in F}

\* RemoveAll of each directory; one that fails is only logged.
RemoveDirectories(r) ==
    /\ store[r].at = "clean"
    /\ store[r].kind = Results
    /\ \E D \in SUBSET managedArtifactDirectories(store[r].files) :
          disk' = {f \in disk : Above[f] \cap D = {}}
    /\ Answer(r)
    /\ UNCHANGED <<written, upstream>>

\* Remove of each screenshot; one that fails is only logged.  A directory is
\* removed when it is empty, which removes no file.
cleanupExecutionScreenshots(r) ==
    /\ store[r].at = "clean"
    /\ store[r].kind = Screens
    /\ \E F \in SUBSET store[r].files : disk' = disk \ F
    /\ Answer(r)
    /\ UNCHANGED <<written, upstream>>

\* A missing file, missing credentials, a refused upload or one that never
\* arrived: the files are kept for another attempt.
Fail(r) ==
    /\ store[r].at \in {"read", "post"}
    /\ Answer(r)
    /\ UNCHANGED <<written, disk, upstream>>

Crash ==
    /\ \E r \in Stores : store[r].at # "idle"
    /\ store' = [r \in Stores |-> Idle]
    /\ UNCHANGED <<written, disk, upstream>>

Next ==
    \/ \E f \in Files : Write(f)
    \/ \E r \in Stores, u \in Runs, F \in SUBSET Files \ {{}} :
          \/ storePipelineResultLogic(r, u, F)
          \/ storeExecutionScreenshotsLogic(r, u, F)
    \/ \E r \in Stores :
          \/ addFileToMultipart(r)
          \/ PostAnswered(r)
          \/ PostUnanswered(r)
          \/ RemoveDirectories(r)
          \/ cleanupExecutionScreenshots(r)
          \/ Fail(r)
    \/ Crash

-----------------------------------------------------------------------------
(* A file an activity wrote exists until Credimi has stored it for its run *)
(* or has stored, as a part of the result of that run, a file of a         *)
(* directory it lies in: no lost answer, failed upload, concurrent request *)
(* for the same or another run, or crash between upload and removal loses  *)
(* it.  The second alternative is real: storing a result removes the       *)
(* screenshots below its directories that nobody has uploaded.             *)
NothingIsLost ==
    \A f \in written \ disk :
        \E u \in Runs :
            /\ isPathWithinRoot(f, u)
            /\ \/ \E k \in {Results, Screens} : <<f, u, k>> \in upstream
               \/ \E g \in Files : <<g, u, Results>> \in upstream /\ Dir[g] \in Above[f]
=============================================================================
