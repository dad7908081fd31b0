------------------------------ MODULE Updater -------------------------------
(***************************************************************************)
(* internal/updater and the cached update check of internal/app: the loop  *)
(* that asks GitHub for the latest release, the requests of the UI that do *)
(* the same (GET /update/check) and the installer a request launches       *)
(* (POST /update/apply).                                                   *)
(*                                                                         *)
(* A release is a number, in the order of publication. A tag is the        *)
(* sequence of the numbers in it, empty where it has something else.       *)
(***************************************************************************)
EXTENDS Naturals, Sequences, FiniteSets

CONSTANTS
  Tags,       \* the tags of the releases, in the order of publication
  Assets,     \* the kinds of files of each release
  Current,    \* the tag of the running build; <<>> is "dev"
  Callers,    \* requests of the UI
  Loop,       \* the background loop
  None, Failed,
  MaxEvents   \* bound, shared with Control

VARIABLES
  published,  \* the latest release; 0 is none
  running,    \* App.updateRunning
  check,      \* CheckUpdate of every caller and of the loop, and the release it has found
  last,       \* App.lastUpdate
  apply,      \* ApplyUpdate of every caller: the result it works from, or None
  launched,   \* installers started
  shown,      \* the last answer to a check of the UI
  raced,      \* history: two checks were at work at the same time
  events

updateVars == <<published, running, check, last, apply, launched, shown, raced>>

Releases == 1 .. Len(Tags)
Checkers == Callers \cup {Loop}
Happens == events < MaxEvents /\ events' = events + 1

-----------------------------------------------------------------------------
(* Versions                                                                *)

ParseOK(tag) == Len(tag) \in 1 .. 3
ParseSemver(tag) == [i \in 1 .. 3 |-> IF i <= Len(tag) THEN tag[i] ELSE 0]

Compares(a, b) == \E i \in 1 .. 3 : a[i] > b[i] /\ \A j \in 1 .. i - 1 : a[j] = b[j]

IsNewer(current, candidate) ==
  /\ ParseOK(candidate)
  /\ ParseOK(current) => Compares(ParseSemver(candidate), ParseSemver(current))

PickAsset(files) ==
  CASE "exe" \in files -> "exe" [] "exe" \notin files /\ "zip" \in files -> "zip" [] OTHER -> None

\* The result CheckLatest makes of a release.
Result(r) == [release |-> r, available |-> IsNewer(Current, Tags[r]), asset |-> PickAsset(Assets[r])]
Results == {Result(r) : r \in Releases}

At(step, release) == [at |-> step, found |-> release]
Goes(c, from, to) == check[c].at = from /\ check' = [check EXCEPT ![c] = to]

TypeOK ==
  /\ published \in 0 .. Len(Tags) /\ running \in BOOLEAN /\ raced \in BOOLEAN
  /\ check \in [Checkers -> [at : {"idle", "asking", "found", "failed"}, found : 0 .. Len(Tags)]]
  /\ last \in Results \cup {None}
  /\ apply \in [Callers -> Results \cup {None}]
  /\ launched \subseteq Results
  /\ shown \in Results \cup {None, Failed}

Init ==
  /\ published = 0 /\ running = FALSE /\ last = None /\ shown = None
  /\ check = [c \in Checkers |-> At("idle", 0)] /\ apply = [c \in Callers |-> None]
  /\ launched = {} /\ raced = FALSE

-----------------------------------------------------------------------------
(* GitHub, and CheckUpdate                                                 *)

Publish ==
  /\ published < Len(Tags) /\ Happens
  /\ published' = published + 1
  /\ UNCHANGED <<running, check, last, apply, launched, shown, raced>>

Asks(c) ==
  /\ Goes(c, "idle", At("asking", 0)) /\ Happens
  /\ raced' = (raced \/ \E d \in Checkers : check[d].at # "idle")
  /\ UNCHANGED <<published, running, last, apply, launched, shown>>

\* The UI asks, or the timer of the loop is due.
CheckUpdate == \E c \in Callers : Asks(c)
RunUpdateCheck == running /\ Asks(Loop)

\* latestRelease: the request may fail, and without a release it does.
LatestRelease(c) ==
  /\ \/ published # 0 /\ Goes(c, "asking", At("found", published))
     \/ Goes(c, "asking", At("failed", 0))
  /\ UNCHANGED <<published, running, last, apply, launched, shown, raced, events>>

Ends(c, from, answer) ==
  /\ Goes(c, from, At("idle", 0))
  /\ shown' = IF c = Loop THEN shown ELSE answer
  /\ UNCHANGED <<published, running, apply, launched, raced, events>>

CacheResult(c) ==
  /\ check[c].at = "found" /\ last' = Result(check[c].found)
  /\ Ends(c, "found", last')

\* Fault: whatever the check returns is cached, and a failed check forgets.
CheckFailsEmpty(c) == Ends(c, "failed", Failed) /\ last' = None

\* handleUpdateCheck: what was cached answers a check that failed.
CheckFails(c) ==
  Ends(c, "failed", IF last = None THEN Failed ELSE last) /\ UNCHANGED last

StartUpdateChecker ==
  /\ ~running /\ running' = TRUE /\ Happens
  /\ UNCHANGED <<published, check, last, apply, launched, shown, raced>>
\* A check of the loop that is at work goes on to its end.
StopUpdateChecker ==
  /\ running /\ running' = FALSE /\ Happens
  /\ UNCHANGED <<published, check, last, apply, launched, shown, raced>>

-----------------------------------------------------------------------------
(* ApplyUpdate                                                             *)

\* The cached result is read once; without an update and a file, an error.
ApplyUpdate(c) ==
  /\ last # None /\ last.available /\ last.asset # None /\ Happens
  /\ apply[c] = None /\ apply' = [apply EXCEPT ![c] = last]
  /\ UNCHANGED <<published, running, check, last, launched, shown, raced>>

\* Fault: the installer launched is the one of the cached result of the moment.
LaunchCached(c) ==
  /\ apply[c] # None /\ apply' = [apply EXCEPT ![c] = None]
  /\ launched' \in {launched, launched \cup {last}}
  /\ UNCHANGED <<published, running, check, last, shown, raced, events>>

\* Download and LaunchInstaller, either of which may fail.
Launch(c) ==
  /\ apply[c] # None /\ apply' = [apply EXCEPT ![c] = None]
  /\ launched' \in {launched, launched \cup {apply[c]}}
  /\ UNCHANGED <<published, running, check, last, shown, raced, events>>

\* The program starts again (Control): nothing of this is kept.
Restart ==
  /\ running' = FALSE /\ last' = None /\ shown' = None /\ raced' = FALSE
  /\ check' = [c \in Checkers |-> At("idle", 0)] /\ apply' = [c \in Callers |-> None]
  /\ UNCHANGED <<published, launched>>

Next ==
  \/ Publish \/ CheckUpdate \/ RunUpdateCheck \/ StartUpdateChecker \/ StopUpdateChecker
  \/ \E c \in Checkers : LatestRelease(c) \/ CacheResult(c) \/ CheckFails(c)
  \/ \E c \in Callers : ApplyUpdate(c) \/ Launch(c)

-----------------------------------------------------------------------------
(* Properties                                                              *)

\* Checks that fail do not take away an update that was found ("so the UI
\* still shows a pending update", control.go:547), and unless two checks
\* overlap a release gives way to a later one only, while the program runs.
PendingUpdateStays ==
  [][Restart \/
     /\ last # None => last' # None /\ (raced' \/ last'.release >= last.release)
     /\ shown' = Failed /\ shown # Failed => last = None]_<<updateVars, events>>

\* v1.10 is later than v1.9, and v2 than both.
Later(v, w) ==
  \/ v[1] > w[1]
  \/ v[1] = w[1] /\ v[2] > w[2]
  \/ v[1] = w[1] /\ v[2] = w[2] /\ v[3] > w[3]

\* "It requires a prior CheckUpdate that found an update with a downloadable
\* asset" (app.go:1141-1142): the installer that is launched is of a release
\* later than this build, one that came with a file to install, although
\* checks replace the cached result while ApplyUpdate downloads.
LaunchedIsNewer ==
  \A r \in launched :
    /\ r.asset # None /\ ParseOK(Tags[r.release])
    /\ ParseOK(Current) => Later(ParseSemver(Tags[r.release]), ParseSemver(Current))
=============================================================================
