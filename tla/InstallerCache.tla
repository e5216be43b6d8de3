--------------------------- MODULE InstallerCache ---------------------------
(***************************************************************************)
(* Fetching installers (pkg/server/fetch_installer_and_action.go).         *)
(*                                                                         *)
(* The execution API serves requests concurrently.  A fetch asks Credimi   *)
(* which installer belongs to a version, and downloads it unless a file of *)
(* that name exists; a zipped iOS app is also extracted, and a marker file *)
(* beside the extracted app remembers that it was.  Files are written in   *)
(* place.  A copy can be cut short by a lost connection, a full disk or    *)
(* the end of the process, and requests for one installer may overlap.     *)
(***************************************************************************)
EXTENDS Naturals

CONSTANTS
    Fetches,        \* the concurrent requests
    Installers,     \* installer identifiers
    Zipped          \* those that are zipped iOS apps

VARIABLES
    cache,          \* the downloaded file of each installer
    app,            \* the extracted app of each zipped installer
    marker,         \* the installers with an .app-path file
    fetch,          \* the state of each request
    cut,            \* installers of which a download was cut short
    shared          \* installers that two requests wrote at the same time

vars == <<cache, app, marker, fetch, cut, shared>>

Init ==
    /\ cache = [i \in Installers |-> "absent"]
    /\ app = [i \in Installers |-> "absent"]
    /\ marker = {}
    /\ fetch = [r \in Fetches |-> [at |-> "idle", alone |-> TRUE,
                                  of |-> CHOOSE i \in Installers : TRUE]]
    /\ cut = {}
    /\ shared = {}

Goto(r, at) == fetch' = [fetch EXCEPT ![r].at = at]

\* The other requests for the same installer.
Peers(r) == {q \in Fetches \ {r} : fetch[q].of = fetch[r].of /\ fetch[q].at # "idle"}

\* Begin to write, beside the peers that write the same thing.
BeginWrite(r, at) ==
    LET beside == {q \in Peers(r) : fetch[q].at = at} IN
    fetch' = [q \in Fetches |->
                IF q = r THEN [fetch[r] EXCEPT !.at = at, !.alone = beside = {}]
                ELSE IF q \in beside THEN [fetch[q] EXCEPT !.alone = FALSE]
                ELSE fetch[q]]

\* What a finished writer leaves behind: the whole content when it was alone.
Written(r) == IF fetch[r].alone THEN {"whole"} ELSE {"partial", "whole"}

-----------------------------------------------------------------------------
\* The device, platform, credentials and action of a request are accepted,
\* and Credimi names the installer.  A refused request, or one that skips the
\* installer, changes nothing.
fetchInstallerAndActionLogic(r) ==
    /\ fetch[r].at = "idle"
    /\ \E i \in Installers :
          fetch' = [fetch EXCEPT ![r].at = "lookup", ![r].of = i]
    /\ UNCHANGED <<cache, app, marker, cut, shared>>

\* downloadFileIfMissing: a file of that name is taken as the installer.
Cached(r) ==
    LET i == fetch[r].of IN
    /\ fetch[r].at = "lookup"
    /\ cache[i] # "absent"
    /\ Goto(r, IF i \in Zipped THEN "unzip" ELSE "return")
    /\ UNCHANGED <<cache, app, marker, cut, shared>>

Download(r) ==
    /\ fetch[r].at = "lookup"
    /\ cache[fetch[r].of] = "absent"
    /\ Goto(r, "request")
    /\ UNCHANGED <<cache, app, marker, cut, shared>>

\* The answer has arrived; Create truncates whatever has the name by now.
CreateFile(r) ==
    LET i == fetch[r].of IN
    /\ fetch[r].at = "request"
    /\ shared' = IF cache[i] = "absent" THEN shared ELSE shared \cup {i}
    /\ cache' = [cache EXCEPT ![i] = "partial"]
    /\ BeginWrite(r, "copy")
    /\ UNCHANGED <<app, marker, cut>>

Copied(r) ==
    LET i == fetch[r].of IN
    /\ fetch[r].at = "copy"
    /\ \E c \in Written(r) : cache' = [cache EXCEPT ![i] = c]
    /\ Goto(r, IF i \in Zipped THEN "unzip" ELSE "return")
    /\ UNCHANGED <<app, marker, cut, shared>>

-----------------------------------------------------------------------------
\* unzipIOSAppIfNeeded: the marker and the app it names exist.
Unzipped(r) ==
    LET i == fetch[r].of IN
    /\ fetch[r].at = "unzip"
    /\ i \in marker
    /\ app[i] # "absent"
    /\ Goto(r, "return")
    /\ UNCHANGED <<cache, app, marker, cut, shared>>

\* There is no app yet: the archive is read and opened.  A truncated archive
\* has no directory and cannot be opened: see Fail.
ReadArchive(r) ==
    LET i == fetch[r].of IN
    /\ fetch[r].at = "unzip"
    /\ i \notin marker \/ app[i] = "absent"
    /\ cache[i] = "whole"
    /\ Goto(r, "clear")
    /\ UNCHANGED <<cache, app, marker, cut, shared>>

\* Mutant: the marker is written before the entries are extracted.
ClearAndMark(r) ==
    LET i == fetch[r].of IN
    /\ fetch[r].at = "clear"
    /\ UNCHANGED shared
    /\ app' = [app EXCEPT ![i] = "absent"]
    /\ marker' = marker \cup {i}
    /\ BeginWrite(r, "extract")
    /\ UNCHANGED <<cache, cut>>

\* RemoveAll of whatever a request has extracted by now.
ClearApp(r) ==
    LET i == fetch[r].of IN
    /\ fetch[r].at = "clear"
    /\ shared' = IF \/ i \in marker
                    \/ \E q \in Peers(r) : fetch[q].at \in {"extract", "mark"}
                 THEN shared \cup {i} ELSE shared
    /\ app' = [app EXCEPT ![i] = "absent"]
    /\ BeginWrite(r, "extract")
    /\ UNCHANGED <<cache, marker, cut>>

ExtractEntry(r) ==
    /\ fetch[r].at = "extract"
    /\ app[fetch[r].of] = "absent"
    /\ app' = [app EXCEPT ![fetch[r].of] = "partial"]
    /\ UNCHANGED <<cache, marker, fetch, cut, shared>>

extractIOSAppArchive(r) ==
    LET i == fetch[r].of IN
    /\ fetch[r].at = "extract"
    /\ app[i] # "absent"
    /\ \E c \in Written(r) : app' = [app EXCEPT ![i] = c]
    /\ Goto(r, "mark")
    /\ UNCHANGED <<cache, marker, cut, shared>>

writeStoredAppPath(r) ==
    /\ fetch[r].at = "mark"
    /\ marker' = marker \cup {fetch[r].of}
    /\ Goto(r, "return")
    /\ UNCHANGED <<cache, app, cut, shared>>

\* The path of the installer, or of the extracted app, is answered.
Return(r) ==
    /\ fetch[r].at = "return"
    /\ Goto(r, "idle")
    /\ UNCHANGED <<cache, app, marker, cut, shared>>

-----------------------------------------------------------------------------
\* The installers whose download stops when the requests R stop.
Stopped(R) == {fetch[r].of : r \in {q \in R : fetch[q].at = "copy"}}

\* An error answers the request; what it wrote stays.  An unreadable archive
\* is such an error.
Fail(r) ==
    /\ fetch[r].at \in {"lookup", "request", "copy", "unzip", "clear", "extract", "mark"}
    /\ Goto(r, "idle")
    /\ cut' = cut \cup Stopped({r})
    /\ UNCHANGED <<cache, app, marker, shared>>

\* The process ends with all its requests; the files stay.
Crash ==
    /\ \E r \in Fetches : fetch[r].at # "idle"
    /\ fetch' = [r \in Fetches |-> [fetch[r] EXCEPT !.at = "idle"]]
    /\ cut' = cut \cup Stopped(Fetches)
    /\ UNCHANGED <<cache, app, marker, shared>>

Next ==
    \/ \E r \in Fetches :
          \/ fetchInstallerAndActionLogic(r)
          \/ Cached(r)
          \/ Download(r)
          \/ CreateFile(r)
          \/ Copied(r)
          \/ Unzipped(r)
          \/ ReadArchive(r)
          \/ ClearApp(r)
          \/ ExtractEntry(r)
          \/ extractIOSAppArchive(r)
          \/ writeStoredAppPath(r)
          \/ Return(r)
          \/ Fail(r)
    \/ Crash

-----------------------------------------------------------------------------
(* The path a fetch answers names a complete installer, unless requests    *)
(* for it overlap or overlapped.  An installer that is not an archive may  *)
(* also be the remainder of a download that was cut short, which the       *)
(* lookup takes for a cached file; the marker, which is written last,      *)
(* keeps extracted apps from that.                                         *)
ReturnedIsWhole ==
    \A r \in Fetches :
        LET i == fetch[r].of
            overlap == \E q \in Peers(r) : fetch[q].at \in {"copy", "extract"}
        IN
        fetch[r].at = "return" /\ i \notin shared /\ ~overlap =>
            IF i \in Zipped THEN app[i] = "whole"
            ELSE cache[i] = "whole" \/ i \in cut
=============================================================================
