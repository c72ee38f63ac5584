------------------------------ MODULE SitesUploads ------------------------------
(***************************************************************************)
(* From the end of a play to the Sites leaderboard.                        *)
(*                                                                         *)
(* The menu thread chooses Guest or Online, starts and finishes plays,     *)
(* connects and disconnects the game, and queues a score for upload.  One  *)
(* worker (app/SitesLeaderboardClient.cpp) takes a score, reads its replay *)
(* and the saved connection, and posts it, up to Attempts times.  The      *)
(* connection lives in two files (app/SitesLeaderboardConnection.cpp): the *)
(* protected one, and the plain one of older versions.                     *)
(*                                                                         *)
(* generation_ is only ever compared with the value a job was taken under: *)
(* the job keeps the answer, `current`.  submission_mutex_ is held exactly *)
(* while a post is out, and mutex_ within one action.                      *)
(***************************************************************************)
EXTENDS Naturals, Sequences, FiniteSets

CONSTANTS
  Keys,         \* upload tokens
  NoKey,        \* no connection file
  Capacity,     \* of the queues of scores and of messages (16)
  Attempts,     \* posts of one score (3)
  MaxPlays,     \* bound: plays ever started
  MaxLaunches   \* bound: times the program is started

ASSUME KeysAssumption == NoKey \notin Keys
ASSUME SizesAssumption == /\ Capacity \in Nat \ {0} /\ Attempts \in Nat \ {0}
                          /\ MaxPlays \in Nat /\ MaxLaunches \in Nat \ {0}

VARIABLES
  online,      \* online_play_mode_
  stage,       \* what the menu thread is doing
  busy,        \* a change of the connection that it is in the middle of
  play,        \* the play started last: options and permission
  shown,       \* sites_result_replay_sha256_ and sites_result_upload_status_
  enabled,     \* online_enabled_
  stopping,    \* stopping_
  pending,     \* pending_
  messages,    \* messages_
  job,         \* the worker: where it is, and its score
  marks,       \* record_play_mode of the exported replays, by play
  files,       \* the two connection files
  launches,    \* times the program was started
  guests,      \* history: plays that the Guest mode has touched
  received,    \* history: plays the server has got
  valid        \* history: keys the user has not replaced or removed

vars == <<online, stage, busy, play, shown, enabled, stopping, pending, messages, job,
          marks, files, launches, guests, received, valid>>

menu    == <<online, stage, busy, play, shown>>
service == <<enabled, stopping, pending, messages>>
disk    == <<marks, files, launches>>
history == <<guests, valid>>

Plays == 1..MaxPlays
Stages == {"menu", "play", "ending"}
Statuses == {"none", "guest", "excluded", "pending", "unavailable", "unconnected",
             "changed", "uploaded", "failed"}
Steps == {"off", "wait", "load", "protected", "plain", "submit", "posting", "backoff", "report"}

NoPlay == [id |-> 0, enabled |-> FALSE, permission |-> FALSE]
NoJob(step) == [step |-> step, play |-> 0, current |-> FALSE, key |-> NoKey,
                attempt |-> 0, accepted |-> FALSE]

(* Play 0 is no play, a result without a replay.                           *)
Init ==
  /\ online = FALSE /\ stage = "menu" /\ busy = "no" /\ play = NoPlay
  /\ shown = [play |-> 0, status |-> "none"]
  /\ enabled = FALSE /\ stopping = FALSE /\ pending = <<>> /\ messages = <<>>
  /\ job = NoJob("off")
  /\ marks = [p \in Plays |-> "none"]
  /\ files \in [sealed : {NoKey}, plain : Keys \cup {NoKey}]
  /\ launches = 1
  /\ guests = {} /\ received = {} /\ valid = {files.plain} \ {NoKey}

--------------------------------------------------------------------------------
(* The service, as the menu thread calls it.                               *)

(* submission_mutex_ is free: no post is out.                              *)
NoPost == job.step # "posting"

(* ++generation_; pending_.clear()                                         *)
Invalidate == pending' = <<>> /\ job' = [job EXCEPT !.current = FALSE]

(* set_online_enabled waits for a post that has started.                   *)
SetOnlineEnabled(on) ==
  /\ NoPost
  /\ enabled' = (on /\ ~stopping)
  /\ IF enabled' THEN UNCHANGED <<pending, messages, job>>
     ELSE Invalidate /\ messages' = <<>>

\* Mutant: a new connection leaves what is under way alone.
CancelPending_Queue ==
  /\ NoPost
  /\ pending' = <<>> /\ messages' = <<>> /\ UNCHANGED job

(* cancel_pending                                                          *)
CancelPending == NoPost /\ Invalidate /\ messages' = <<>>

(* A connection file exists.                                               *)
Connected == files.sealed # NoKey \/ files.plain # NoKey

\* Mutant: the queue takes every score.
EnqueueResult_Unbounded ==
  IF ~enabled THEN "unavailable" ELSE IF ~Connected THEN "unconnected" ELSE "pending"

(* What enqueue answers, in the order of its checks.                       *)
EnqueueResult ==
  IF ~enabled THEN "unavailable"
  ELSE IF ~Connected THEN "unconnected"
  ELSE IF Len(pending) >= Capacity THEN "unavailable" ELSE "pending"

(* messages_ keeps the latest; enqueue adds one without a look at the size.*)
Pushed(m) == Append(IF Len(messages) >= Capacity THEN Tail(messages) ELSE messages, m)

--------------------------------------------------------------------------------
(* The menu thread (app/MenuAppAccount.cpp, launch_chart).                 *)

(* A running play lets the F10 overlay through, and nothing else.          *)
Browsing == stage \in {"menu", "play"} /\ busy = "no"
InMenu   == stage = "menu" /\ busy = "no"
Playing  == stage = "play" /\ busy = "no"

\* Mutant: the play keeps the permission it was started with.
Revoked_Kept(on) == play

(* Guest mode takes the permission of the play, whatever follows.          *)
Revoked(on) == IF on THEN play ELSE [play EXCEPT !.permission = FALSE]

(* choose_play_mode, in the menu or over a running play.                   *)
ChooseMode(on) ==
  /\ Browsing
  /\ play' = Revoked(on)
  /\ SetOnlineEnabled(on)
  /\ online' = on
  /\ guests' = IF on THEN guests ELSE 1..play.id
  /\ UNCHANGED <<stage, busy, shown, stopping, disk, received, valid>>

(* A fresh play, from the menu or as the restart of the one before.        *)
StartPlay ==
  /\ Browsing /\ play.id < MaxPlays
  /\ stage' = "play"
  /\ play' = [id |-> play.id + 1, enabled |-> online, permission |-> online]
  /\ guests' = IF online THEN guests ELSE guests \cup {play.id + 1}
  /\ UNCHANGED <<online, busy, shown, service, job, disk, received, valid>>

(* The session exports the replay with its origin, and the menu decides    *)
(* about the upload.  A play that is not eligible was paused, abandoned,   *)
(* assisted, played on old rules, or could not be exported.                *)
FinishPlay(eligible) ==
  LET permitted == play.enabled /\ play.permission
      allowed   == online /\ permitted
      queued    == allowed /\ eligible
      status    == IF queued THEN EnqueueResult ELSE IF allowed THEN "excluded" ELSE "guest"
  IN  /\ Playing
      /\ stage' = "menu"
      /\ marks' = [marks EXCEPT ![play.id] = IF permitted THEN "online" ELSE "guest"]
      /\ shown' = [play |-> play.id, status |-> status]
      /\ pending' = IF status = "pending" THEN Append(pending, play.id) ELSE pending
      /\ messages' = IF queued /\ enabled /\ Connected /\ status = "unavailable"
                     THEN Append(messages, [play |-> play.id, accepted |-> FALSE]) ELSE messages
      /\ job' = IF status = "pending" /\ job.step = "off" THEN NoJob("wait") ELSE job
      /\ UNCHANGED <<online, busy, play, enabled, stopping, files, launches, history, received>>

(* The play is left without a result, or was the playback of a replay.     *)
LeavePlay ==
  /\ Playing
  /\ stage' = "menu"
  /\ shown' \in {shown, [play |-> 0, status |-> "excluded"]}
  /\ UNCHANGED <<online, busy, play, service, job, disk, history, received>>

\* Mutant: the result shows whatever message came last.
Concerns_Any(m) == TRUE

(* applies_to_result                                                       *)
Concerns(m) == shown.play # 0 /\ m.play = shown.play

(* The menu loop takes the messages; the last that concerns the result     *)
(* becomes its status.                                                     *)
TakeMessages ==
  LET ours == {i \in DOMAIN messages : Concerns(messages[i])}
  IN  /\ InMenu /\ messages # <<>>
      /\ messages' = <<>>
      /\ \/ ours = {} /\ shown' = shown
         \/ \E last \in ours :
              /\ \A i \in ours : i =< last
              /\ shown' = [shown EXCEPT !.status = IF messages[last].accepted
                                                  THEN "uploaded" ELSE "failed"]
      /\ UNCHANGED <<online, stage, busy, play, enabled, stopping, pending, job, disk,
                     history, received>>

--------------------------------------------------------------------------------
(* The connection files.  Every step may be the last one before a crash.   *)

(* The end of a change that succeeded: everything queued for the old key   *)
(* goes, and the result screen is about no play any more.                  *)
Reconnected(keys) ==
  /\ CancelPending
  /\ busy' = "no" /\ shown' = [play |-> 0, status |-> "changed"]
  /\ valid' = keys
  /\ UNCHANGED <<online, stage, play, enabled, stopping, marks, launches, guests, received>>

(* Or of one that failed half-way: the menu only reports the error.        *)
ChangeFails ==
  /\ busy' = "no"
  /\ UNCHANGED <<online, stage, play, shown, service, job, disk, history, received>>

(* install: the new key, protected, replaces the old one in one rename; a  *)
(* failure before leaves everything as it was.                             *)
BeginInstall(k) ==
  /\ Browsing
  /\ busy' = "install"
  /\ files' = [files EXCEPT !.sealed = k]
  /\ valid' = valid \cup {k}
  /\ UNCHANGED <<online, stage, play, shown, service, job, marks, launches, guests, received>>

(* The plain file is removed.                                              *)
FinishInstall ==
  /\ busy = "install"
  /\ files' = [files EXCEPT !.plain = NoKey]
  /\ Reconnected({files.sealed})

InstallFails == busy = "install" /\ files.plain # NoKey /\ ChangeFails

\* Mutant: the protected file goes first.
ClearedFirst_Sealed == [files EXCEPT !.sealed = NoKey]

(* clear removes the fallback first, so that it cannot become the key.     *)
ClearedFirst == [files EXCEPT !.plain = NoKey]

BeginClear ==
  /\ Browsing
  /\ busy' = "clear"
  /\ files' = ClearedFirst
  /\ UNCHANGED <<online, stage, play, shown, service, job, marks, launches, history, received>>

FinishClear ==
  /\ busy = "clear"
  /\ files' = [sealed |-> NoKey, plain |-> NoKey]
  /\ Reconnected({})

ClearFails == busy = "clear" /\ files.sealed # NoKey /\ ChangeFails

--------------------------------------------------------------------------------
(* The end of the program, and the next one.                               *)

(* shutdown, up to the join of the worker.                                 *)
Shutdown ==
  /\ InMenu /\ NoPost
  /\ stage' = "ending"
  /\ stopping' = TRUE /\ enabled' = FALSE
  /\ Invalidate
  /\ UNCHANGED <<online, busy, play, shown, messages, disk, history, received>>

(* A new process, after the end of the last or in place of one that died   *)
(* at any point.  It starts as Guest.                                      *)
Relaunch ==
  /\ launches < MaxLaunches
  /\ stage = "ending" => job.step = "off"
  /\ launches' = launches + 1
  /\ online' = FALSE /\ stage' = "menu" /\ busy' = "no"
  /\ shown' = [play |-> 0, status |-> "none"]
  /\ play' = [NoPlay EXCEPT !.id = play.id]
  /\ enabled' = FALSE /\ stopping' = FALSE /\ pending' = <<>> /\ messages' = <<>>
  /\ job' = NoJob("off")
  /\ guests' = 1..play.id
  /\ UNCHANGED <<marks, files, received, valid>>

--------------------------------------------------------------------------------
(* The worker.                                                             *)

At(step) == job.step = step
Goto(step) == job' = [job EXCEPT !.step = step]
Elsewhere == UNCHANGED <<menu, enabled, stopping, disk, history>>
WorkerOnly == Elsewhere /\ UNCHANGED <<pending, messages, received>>

TakeScore ==
  /\ At("wait") /\ ~stopping /\ pending # <<>>
  /\ pending' = Tail(pending)
  /\ job' = [NoJob("load") EXCEPT !.play = Head(pending), !.current = TRUE]
  /\ Elsewhere /\ UNCHANGED <<messages, received>>

WorkerExits ==
  /\ job.step \in {"wait", "backoff"} /\ stopping
  /\ job' = NoJob("off")
  /\ WorkerOnly

(* The replay is gone, changed, or not a record of the Online mode.        *)
SkipReplay == At("load") /\ Goto("report") /\ WorkerOnly

(* The replay is in order; which of the connection files is there?         *)
AcceptReplay ==
  /\ At("load") /\ marks[job.play] = "online"
  /\ Goto(IF files.sealed # NoKey THEN "protected" ELSE "plain")
  /\ WorkerOnly

(* The file is read, or is gone meanwhile, or cannot be unlocked.          *)
ReadConnection ==
  LET key == IF At("protected") THEN files.sealed ELSE files.plain
  IN  /\ job.step \in {"protected", "plain"}
      /\ \/ key # NoKey /\ job' = [job EXCEPT !.step = "submit", !.key = key]
         \/ Goto("report")
      /\ WorkerOnly

(* submit_if_current, under submission_mutex_.                             *)
MayPost == ~stopping /\ enabled /\ job.current

Submit ==
  /\ At("submit")
  /\ Goto(IF MayPost THEN "posting" ELSE "report")
  /\ WorkerOnly

(* The server gets the score; its answer may still be lost.                *)
ServerReceives ==
  /\ At("posting") /\ job.play \notin received
  /\ received' = received \cup {job.play}
  /\ Elsewhere /\ UNCHANGED <<pending, messages, job>>

(* The answer: accepted, refused, or worth another attempt (no answer, a   *)
(* rate limit, a server error).                                            *)
Answer ==
  /\ At("posting")
  /\ \/ job.play \in received /\ job' = [job EXCEPT !.step = "report", !.accepted = TRUE]
     \/ Goto("report")
     \/ Goto("backoff")
  /\ WorkerOnly

\* Mutant: an attempt without an answer does not count.
Retried_Uncounted == [job EXCEPT !.step = "submit"]

Retried == [job EXCEPT !.step = "submit", !.attempt = @ + 1]

(* wait_for returns: cancelled, or the time is up.                         *)
Backoff ==
  /\ At("backoff") /\ ~stopping
  /\ IF job.current /\ job.attempt + 1 < Attempts THEN job' = Retried ELSE Goto("report")
  /\ WorkerOnly

Report ==
  /\ At("report")
  /\ job' = NoJob("wait")
  /\ messages' = IF job.current THEN Pushed([play |-> job.play, accepted |-> job.accepted])
                 ELSE messages
  /\ Elsewhere /\ UNCHANGED <<pending, received>>

Worker ==
  \/ TakeScore \/ WorkerExits \/ SkipReplay \/ AcceptReplay \/ ReadConnection
  \/ Submit \/ Answer \/ Backoff \/ Report

Menu ==
  \/ \E on \in BOOLEAN : ChooseMode(on)
  \/ StartPlay \/ (\E eligible \in BOOLEAN : FinishPlay(eligible)) \/ LeavePlay \/ TakeMessages
  \/ (\E k \in Keys : BeginInstall(k)) \/ FinishInstall \/ InstallFails
  \/ BeginClear \/ FinishClear \/ ClearFails
  \/ Shutdown

Next == Menu \/ Worker \/ ServerReceives \/ Relaunch

Spec == Init /\ [][Next]_vars

(* The worker runs, waits at most three seconds between attempts, and its  *)
(* requests have time limits (WinHttpSetTimeouts).                         *)
FairSpec == Spec /\ WF_vars(Worker)

--------------------------------------------------------------------------------

Message == [play : Plays, accepted : BOOLEAN]

Job == [step : Steps, play : 0..MaxPlays, current : BOOLEAN, key : Keys \cup {NoKey},
        attempt : 0..Attempts-1, accepted : BOOLEAN]

MenuType ==
  /\ online \in BOOLEAN /\ stage \in Stages /\ busy \in {"no", "install", "clear"}
  /\ play \in [id : 0..MaxPlays, enabled : BOOLEAN, permission : BOOLEAN]
  /\ shown \in [play : 0..MaxPlays, status : Statuses]
ServiceType ==
  /\ enabled \in BOOLEAN /\ stopping \in BOOLEAN
  /\ pending \in Seq(Plays) /\ Len(pending) =< Capacity
  /\ messages \in Seq(Message)
DiskType ==
  /\ marks \in [Plays -> {"none", "online", "guest"}]
  /\ files \in [sealed : Keys \cup {NoKey}, plain : Keys \cup {NoKey}]
  /\ launches \in 0..MaxLaunches
HistoryType == guests \subseteq Plays /\ received \subseteq Plays /\ valid \subseteq Keys

TypeOK == MenuType /\ ServiceType /\ job \in Job /\ DiskType /\ HistoryType

(* "Guest plays stay local permanently" and "Any switch to Guest           *)
(* irrevocably revokes the current play's upload permission"               *)
(* (docs/release-1.9.2.en.md:9-11): a post that is out carries a play that *)
(* started Online and that no Guest mode has touched since, be it in the   *)
(* play, in the queue, between two attempts or through a restart.  The     *)
(* switch waits for the post, so it cannot overtake one.                   *)
GuestPlaysStayLocal == At("posting") => job.play \notin guests

(* A post never carries a key that the user has replaced or removed, once  *)
(* the menu has said so: not even when the worker read it before.          *)
NoOldKey == At("posting") => job.key \in valid

(* The result screen is true to the server: a record it calls registered   *)
(* was received, and a play it calls local never was.                      *)
StatusTruthful ==
  /\ shown.status = "uploaded" => shown.play \in received
  /\ shown.status = "guest" => shown.play \notin received

(* The key that the next upload would read.                                *)
Resolved == IF files.sealed # NoKey THEN files.sealed ELSE files.plain

(* "so deleting the protected file cannot reactivate an older key"         *)
(* (SitesLeaderboardConnection.cpp:155): whatever step of an import or a   *)
(* disconnection fails or is the last before a crash, the key in use only  *)
(* changes to the imported one, or to none.                                *)
OldKeyStaysGone == [][Resolved' # Resolved => Resolved' = NoKey \/ busy' = "install"]_vars

(* A queued score is settled: posted, refused, given up after its attempts,*)
(* or cancelled; and the end of the program does not wait for ever for the *)
(* worker.                                                                 *)
InService(p) == (\E i \in DOMAIN pending : pending[i] = p)
                \/ (job.play = p /\ job.step \notin {"off", "wait"})
UploadsSettle ==
  /\ \A p \in Plays : InService(p) ~> ~InService(p)
  /\ stopping ~> job.step = "off"

================================================================================
