--------------------------- MODULE SitesUploadsProofs ---------------------------
(***************************************************************************)
(* For any number of plays, keys, attempts, launches and queue places: a   *)
(* play that the Guest mode has touched is never posted, no post carries a *)
(* key that was replaced or removed, no older key comes back, and the      *)
(* result screen is true to the server.                                    *)
(*                                                                         *)
(* The posts follow from what the worker is allowed to hold: a job that is *)
(* still current has a play that is no guest's and a key that is valid,    *)
(* and a post that is out is current, because whoever cancels waits for    *)
(* it.                                                                     *)
(***************************************************************************)
EXTENDS SitesUploads, SequenceTheorems, TLAPS

(* There is a play while one is played, a score while the worker handles    *)
(* one, and all that is queued was started.                                 *)
Started ==
  /\ stage = "play" => play.id >= 1
  /\ job.step \notin {"off", "wait"} => job.play >= 1
  /\ guests \subseteq 1..play.id
  /\ \A i \in DOMAIN pending : pending[i] =< play.id
  /\ job.play =< play.id

(* A permission that still stands was given by the Online mode and has not  *)
(* been touched since; it is what brings a play into the queue.             *)
Unspoilt ==
  /\ play.permission => play.id \notin guests
  /\ \A i \in DOMAIN pending : pending[i] \notin guests
  /\ job.current => job.play \notin guests

(* Who cancels holds submission_mutex_.                                     *)
PostIsCurrent == At("posting") => job.current

(* Every key that can be read, or was read by a job that may still post.    *)
KeysKnown ==
  /\ files.sealed # NoKey => files.sealed \in valid
  /\ files.plain # NoKey => files.plain \in valid
  /\ busy = "install" => files.sealed # NoKey
  /\ job.current /\ job.step \in {"submit", "posting", "backoff"} => job.key \in valid

(* Each way in which the code changes the worker's job gives a job.         *)
LEMMA JobUpdates ==
  ASSUME SizesAssumption, job \in Job
  PROVE  /\ \A s \in Steps : [job EXCEPT !.step = s] \in Job /\ NoJob(s) \in Job
         /\ [job EXCEPT !.current = FALSE] \in Job
         /\ \A k \in Keys : [job EXCEPT !.step = "submit", !.key = k] \in Job
         /\ [job EXCEPT !.step = "report", !.accepted = TRUE] \in Job
         /\ job.attempt + 1 < Attempts => Retried \in Job
         /\ \A p \in Plays : [NoJob("load") EXCEPT !.play = p, !.current = TRUE] \in Job
PROOF
<1>. USE SizesAssumption DEF Job
<1>1. \A s \in Steps : [job EXCEPT !.step = s] \in Job  OBVIOUS
<1>2. \A s \in Steps : NoJob(s) \in Job  BY DEF NoJob
<1>3. [job EXCEPT !.current = FALSE] \in Job  OBVIOUS
<1>4. \A k \in Keys : [job EXCEPT !.step = "submit", !.key = k] \in Job  BY DEF Steps
<1>5. [job EXCEPT !.step = "report", !.accepted = TRUE] \in Job  BY DEF Steps
<1>6. ASSUME job.attempt + 1 < Attempts PROVE Retried \in Job
  <2>1. job.attempt + 1 \in 0..Attempts-1  BY <1>6
  <2>. HIDE SizesAssumption
  <2>. QED BY <2>1 DEF Steps, Retried
<1>7. ASSUME NEW p \in Plays PROVE [NoJob("load") EXCEPT !.play = p, !.current = TRUE] \in Job
  <2>1. p \in 0..MaxPlays  BY DEF Plays
  <2>2. \A j \in Job : [j EXCEPT !.play = p, !.current = TRUE] \in Job  BY <2>1
  <2>. QED BY <1>2, <2>2 DEF Steps
<1>. QED BY <1>1, <1>2, <1>3, <1>4, <1>5, <1>6, <1>7

(* What the worker may do with a score it has taken: nothing but to move    *)
(* on.  It posts only if it may, and has its key from one of the files.     *)
Handling == SkipReplay \/ AcceptReplay \/ ReadConnection \/ Submit \/ Answer \/ Backoff
Carrying == {"submit", "posting", "backoff"}

LEMMA Handled ==
  ASSUME SizesAssumption, job \in Job, DiskType, Handling
  PROVE  /\ job' \in Job /\ WorkerOnly
         /\ job'.play = job.play /\ job'.current = job.current
         /\ At("posting")' => MayPost
         /\ job'.step \in Carrying =>
              \/ job.step \in Carrying /\ job'.key = job.key
              \/ job'.key \in {files.sealed, files.plain} \ {NoKey}
PROOF
<1>. DEFINE Goal == /\ job' \in Job /\ WorkerOnly
                    /\ job'.play = job.play /\ job'.current = job.current
                    /\ At("posting")' => MayPost
                    /\ job'.step \in Carrying =>
                         \/ job.step \in Carrying /\ job'.key = job.key
                         \/ job'.key \in {files.sealed, files.plain} \ {NoKey}
<1>1. ASSUME NEW s \in Steps, s \notin Carrying, Goto(s), WorkerOnly PROVE Goal
  <2>1. job' \in Job  BY <1>1, JobUpdates DEF Goto
  <2>. QED BY <1>1, <2>1 DEF Goto, Job, At, Carrying
<1>2. CASE SkipReplay  BY <1>1, <1>2 DEF SkipReplay, Steps, Carrying
<1>3. CASE AcceptReplay
  <2>1. CASE files.sealed # NoKey
    <3>1. Goto("protected") /\ WorkerOnly  BY <1>3, <2>1 DEF AcceptReplay
    <3>. QED BY <1>1, <3>1 DEF Steps, Carrying
  <2>2. CASE files.sealed = NoKey
    <3>1. Goto("plain") /\ WorkerOnly  BY <1>3, <2>2 DEF AcceptReplay
    <3>. QED BY <1>1, <3>1 DEF Steps, Carrying
  <2>. QED BY <2>1, <2>2
<1>4. CASE ReadConnection
  <2>. DEFINE key == IF At("protected") THEN files.sealed ELSE files.plain
  <2>1. CASE Goto("report")
    <3>1. WorkerOnly  BY <1>4 DEF ReadConnection
    <3>. QED BY <1>1, <2>1, <3>1 DEF Steps, Carrying
  <2>2. CASE key # NoKey /\ job' = [job EXCEPT !.step = "submit", !.key = key]
    <3>1. key \in Keys  BY <2>2 DEF DiskType
    <3>2. job' \in Job  BY <2>2, <3>1, JobUpdates
    <3>3. WorkerOnly  BY <1>4 DEF ReadConnection
    <3>4. job'.key = key /\ job'.step = "submit" /\ job'.play = job.play /\ job'.current = job.current
      BY <2>2 DEF Job
    <3>5. key \in {files.sealed, files.plain}  OBVIOUS
    <3>. QED BY <2>2, <3>2, <3>3, <3>4, <3>5 DEF At
  <2>. QED BY <1>4, <2>1, <2>2 DEF ReadConnection
<1>5. CASE Submit
  <2>1. CASE ~MayPost
    <3>1. Goto("report") /\ WorkerOnly  BY <1>5, <2>1 DEF Submit
    <3>. QED BY <1>1, <3>1 DEF Steps, Carrying
  <2>2. CASE MayPost
    <3>1. Goto("posting") /\ WorkerOnly /\ job.step = "submit"  BY <1>5, <2>2 DEF Submit, At
    <3>2. job' \in Job  BY <3>1, JobUpdates DEF Goto, Steps
    <3>3. job'.key = job.key /\ job'.play = job.play /\ job'.current = job.current
      BY <3>1 DEF Goto, Job
    <3>. QED BY <2>2, <3>1, <3>2, <3>3 DEF Carrying
  <2>. QED BY <2>1, <2>2
<1>6. CASE Answer
  <2>0. WorkerOnly /\ job.step = "posting"  BY <1>6 DEF Answer, At
  <2>1. CASE job' = [job EXCEPT !.step = "report", !.accepted = TRUE]
    <3>1. job' \in Job  BY <2>1, JobUpdates
    <3>2. job'.step = "report" /\ job'.play = job.play /\ job'.current = job.current
      BY <2>1 DEF Job
    <3>. QED BY <2>0, <3>1, <3>2 DEF Carrying, At
  <2>2. CASE Goto("report")  BY <1>1, <2>0, <2>2 DEF Steps, Carrying
  <2>3. CASE Goto("backoff")
    <3>1. job' \in Job  BY <2>3, JobUpdates DEF Goto, Steps
    <3>2. /\ job'.step = "backoff" /\ job'.key = job.key
          /\ job'.play = job.play /\ job'.current = job.current
      BY <2>3 DEF Goto, Job
    <3>. QED BY <2>0, <3>1, <3>2 DEF Carrying, At
  <2>. QED BY <1>6, <2>1, <2>2, <2>3 DEF Answer
<1>7. CASE Backoff
  <2>0. WorkerOnly /\ job.step = "backoff"  BY <1>7 DEF Backoff, At
  <2>1. CASE job.current /\ job.attempt + 1 < Attempts
    <3>1. job' = Retried  BY <1>7, <2>1 DEF Backoff
    <3>2. job' \in Job  BY <2>1, <3>1, JobUpdates
    <3>3. /\ job'.step = "submit" /\ job'.key = job.key
          /\ job'.play = job.play /\ job'.current = job.current
      BY <3>1 DEF Retried, Job
    <3>. QED BY <2>0, <3>2, <3>3 DEF Carrying, At
  <2>2. CASE ~(job.current /\ job.attempt + 1 < Attempts)
    <3>1. Goto("report")  BY <1>7, <2>2 DEF Backoff
    <3>. QED BY <1>1, <2>0, <3>1 DEF Steps, Carrying
  <2>. QED BY <2>1, <2>2
<1>. QED BY <1>2, <1>3, <1>4, <1>5, <1>6, <1>7 DEF Handling

(* The steps that are not Handling, by what they leave alone.               *)
LEMMA WorkerOnlyKeeps ==
  ASSUME WorkerOnly
  PROVE  /\ UNCHANGED <<online, stage, busy, play, shown, enabled, stopping, pending, messages>>
         /\ UNCHANGED <<marks, files, launches, guests, received, valid>>
PROOF
BY DEF WorkerOnly, Elsewhere, menu, disk, history

(* Every step keeps the types (an installation leaves a key behind).        *)
LEMMA TypesStep ==
  ASSUME SizesAssumption, TypeOK, KeysKnown, Started, [Next]_vars
  PROVE  TypeOK'
PROOF
<1>. USE SizesAssumption DEF TypeOK
<1>0. ASSUME Invalidate PROVE job' \in Job /\ pending' \in Seq(Plays) /\ Len(pending') =< Capacity
  <2>1. job' \in Job  BY <1>0, JobUpdates DEF Invalidate
  <2>2. pending' = <<>>  BY <1>0 DEF Invalidate
  <2>. QED BY <2>1, <2>2
<1>1. ASSUME NEW on \in BOOLEAN, ChooseMode(on) PROVE TypeOK'
  <2>1. MenuType'
    <3>1. play' \in [id : 0..MaxPlays, enabled : BOOLEAN, permission : BOOLEAN]
      BY <1>1 DEF ChooseMode, Revoked, MenuType
    <3>. QED BY <1>1, <3>1 DEF ChooseMode, MenuType
  <2>2. ServiceType' /\ job' \in Job
    <3>1. CASE enabled'
      BY <1>1, <3>1 DEF ChooseMode, SetOnlineEnabled, ServiceType
    <3>2. CASE ~enabled'
      <4>1. /\ enabled' \in BOOLEAN /\ messages' = <<>> /\ stopping' = stopping
            /\ Invalidate
        BY <1>1, <3>2 DEF ChooseMode, SetOnlineEnabled, ServiceType
      <4>. QED BY <1>0, <4>1 DEF ServiceType
    <3>. QED BY <3>1, <3>2
  <2>3. DiskType' /\ HistoryType'
    <3>1. 1..play.id \subseteq Plays  BY DEF MenuType, Plays
    <3>. QED BY <1>1, <3>1 DEF ChooseMode, disk, DiskType, HistoryType
  <2>. QED BY <2>1, <2>2, <2>3
<1>2. CASE StartPlay
  <2>1. MenuType'  BY <1>2 DEF StartPlay, MenuType, Stages
  <2>2. ServiceType' /\ job' \in Job /\ DiskType'
    BY <1>2 DEF StartPlay, service, disk, ServiceType, DiskType
  <2>3. play.id + 1 \in Plays  BY <1>2 DEF StartPlay, MenuType, Plays
  <2>4. HistoryType'  BY <1>2, <2>3 DEF StartPlay, HistoryType
  <2>. QED BY <2>1, <2>2, <2>4
<1>3. ASSUME NEW eligible \in BOOLEAN, FinishPlay(eligible) PROVE TypeOK'
  <2>1. play.id \in Plays
    BY <1>3 DEF FinishPlay, Playing, MenuType, Plays, Started
  <2>2. MenuType'
    BY <1>3 DEF FinishPlay, EnqueueResult, MenuType, Stages, Statuses
  <2>3. pending' \in Seq(Plays) /\ Len(pending') =< Capacity
    BY <1>3, <2>1 DEF FinishPlay, EnqueueResult, ServiceType
  <2>4. messages' \in Seq(Message)
    <3>1. [play |-> play.id, accepted |-> FALSE] \in Message  BY <2>1 DEF Message
    <3>. QED BY <1>3, <3>1 DEF FinishPlay, ServiceType
  <2>5. job' \in Job
    BY <1>3, JobUpdates DEF FinishPlay, Steps
  <2>6. marks' \in [Plays -> {"none", "online", "guest"}]
    BY <1>3, <2>1 DEF FinishPlay, DiskType
  <2>. QED BY <1>3, <2>2, <2>3, <2>4, <2>5, <2>6
           DEF FinishPlay, history, ServiceType, DiskType, HistoryType
<1>4. CASE LeavePlay
  BY <1>4 DEF LeavePlay, service, disk, history, MenuType, ServiceType, DiskType, HistoryType,
              Stages, Statuses
<1>5. CASE TakeMessages
  BY <1>5 DEF TakeMessages, disk, history, MenuType, ServiceType, DiskType, HistoryType, Statuses
<1>6. ASSUME ChangeFails PROVE TypeOK'
  BY <1>6 DEF ChangeFails, service, disk, history, MenuType, ServiceType, DiskType, HistoryType
<1>7. ASSUME NEW keys \in SUBSET Keys, Reconnected(keys) PROVE /\ MenuType' /\ ServiceType' /\ job' \in Job
                                                    /\ HistoryType'
  <2>1. Invalidate /\ messages' = <<>>  BY <1>7 DEF Reconnected, CancelPending
  <2>2. ServiceType' /\ job' \in Job
    BY <1>0, <1>7, <2>1 DEF Reconnected, ServiceType
  <2>. QED BY <1>7, <2>2 DEF Reconnected, MenuType, HistoryType, Statuses
<1>8. ASSUME NEW k \in Keys, BeginInstall(k) PROVE TypeOK'
  BY <1>8 DEF BeginInstall, service, MenuType, ServiceType, DiskType, HistoryType
<1>9. CASE FinishInstall
  <2>1. {files.sealed} \in SUBSET Keys
    BY <1>9 DEF FinishInstall, KeysKnown, DiskType
  <2>2. Reconnected({files.sealed})  BY <1>9 DEF FinishInstall
  <2>3. DiskType'  BY <1>9, <2>2 DEF FinishInstall, Reconnected, DiskType
  <2>. QED BY <1>7, <2>1, <2>2, <2>3
<1>10. CASE BeginClear
  BY <1>10 DEF BeginClear, ClearedFirst, service, history, MenuType, ServiceType, DiskType, HistoryType
<1>11. CASE FinishClear
  <2>1. Reconnected({})  BY <1>11 DEF FinishClear
  <2>2. DiskType'  BY <1>11, <2>1 DEF FinishClear, Reconnected, DiskType
  <2>. QED BY <1>7, <2>1, <2>2
<1>12. CASE Shutdown
  <2>1. Invalidate  BY <1>12 DEF Shutdown
  <2>2. ServiceType' /\ job' \in Job
    BY <1>0, <1>12, <2>1 DEF Shutdown, ServiceType
  <2>. QED BY <1>12, <2>2 DEF Shutdown, disk, history, MenuType, DiskType, HistoryType, Stages
<1>13. CASE TakeScore
  <2>1. Head(pending) \in Plays /\ Tail(pending) \in Seq(Plays) /\ Len(Tail(pending)) =< Capacity
    BY <1>13 DEF TakeScore, ServiceType
  <2>2. job' \in Job  BY <1>13, <2>1, JobUpdates DEF TakeScore
  <2>. QED BY <1>13, <2>1, <2>2 DEF TakeScore, Elsewhere, menu, disk, history,
              MenuType, ServiceType, DiskType, HistoryType
<1>14. CASE WorkerExits
  <2>1. job' \in Job  BY <1>14, JobUpdates DEF WorkerExits, Steps
  <2>. QED BY <1>14, <2>1, WorkerOnlyKeeps DEF WorkerExits, MenuType, ServiceType, DiskType, HistoryType
<1>15. CASE Handling
  BY <1>15, Handled, WorkerOnlyKeeps DEF MenuType, ServiceType, DiskType, HistoryType
<1>16. CASE Report
  <2>1. job' \in Job  BY <1>16, JobUpdates DEF Report, Steps
  <2>2. messages' \in Seq(Message)
    <3>1. CASE ~job.current  BY <1>16, <3>1 DEF Report, ServiceType
    <3>2. CASE job.current
      <4>1. job.play \in Plays /\ job.accepted \in BOOLEAN
        BY <1>16, <3>2 DEF Report, At, Job, Started, Plays
      <4>2. [play |-> job.play, accepted |-> job.accepted] \in Message  BY <4>1 DEF Message
      <4>3. (IF Len(messages) >= Capacity THEN Tail(messages) ELSE messages) \in Seq(Message)
        BY DEF ServiceType
      <4>. QED BY <1>16, <3>2, <4>2, <4>3 DEF Report, Pushed
    <3>. QED BY <3>1, <3>2
  <2>. QED BY <1>16, <2>1, <2>2 DEF Report, Elsewhere, menu, disk, history,
              MenuType, ServiceType, DiskType, HistoryType
<1>17. CASE ServerReceives
  <2>1. job.play \in Plays  BY <1>17 DEF ServerReceives, At, Job, Started, Plays
  <2>. QED BY <1>17, <2>1 DEF ServerReceives, Elsewhere, menu, disk, history,
              MenuType, ServiceType, DiskType, HistoryType
<1>18. CASE Relaunch
  <2>1. MenuType'
    <3>1. play' \in [id : 0..MaxPlays, enabled : BOOLEAN, permission : BOOLEAN]
      BY <1>18 DEF Relaunch, MenuType, NoPlay
    <3>2. shown' \in [play : 0..MaxPlays, status : Statuses]
      BY <1>18 DEF Relaunch, Statuses
    <3>3. online' = FALSE /\ stage' = "menu" /\ busy' = "no"  BY <1>18 DEF Relaunch
    <3>. QED BY <3>1, <3>2, <3>3 DEF MenuType, Stages
  <2>2. ServiceType'
    <3>1. pending' = <<>> /\ messages' = <<>> /\ enabled' = FALSE /\ stopping' = FALSE
      BY <1>18 DEF Relaunch
    <3>2. <<>> \in Seq(Plays) /\ <<>> \in Seq(Message) /\ Len(<<>>) =< Capacity
      OBVIOUS
    <3>. QED BY <3>1, <3>2 DEF ServiceType
  <2>4. 1..play.id \subseteq Plays  BY DEF MenuType, Plays
  <2>3. job' \in Job  BY <1>18, JobUpdates DEF Relaunch, Steps
  <2>. QED BY <1>18, <2>1, <2>2, <2>3, <2>4 DEF Relaunch, DiskType, HistoryType
<1>19. CASE UNCHANGED vars
  BY <1>19 DEF vars, MenuType, ServiceType, DiskType, HistoryType
<1>. QED BY <1>1, <1>2, <1>3, <1>4, <1>5, <1>6, <1>8, <1>9, <1>10, <1>11, <1>12, <1>13, <1>14,
            <1>15, <1>16, <1>17, <1>18, <1>19
         DEF Next, Menu, Worker, Handling, InstallFails, ClearFails

(* Nothing is queued that was not started.                                  *)
LEMMA StartedStep ==
  ASSUME SizesAssumption, TypeOK, Started, [Next]_vars
  PROVE  Started'
PROOF
<1>. USE SizesAssumption DEF TypeOK, Started
<1>0. play.id \in Nat /\ pending \in Seq(Plays)  BY DEF MenuType, ServiceType
<1>1. ASSUME NEW on \in BOOLEAN, ChooseMode(on) PROVE Started'
  <2>1. stage' = stage /\ play'.id = play.id
    BY <1>1 DEF ChooseMode, Revoked, MenuType
  <2>2. guests' = guests \/ guests' = 1..play.id  BY <1>1 DEF ChooseMode
  <2>3. /\ job' = job \/ job' = [job EXCEPT !.current = FALSE]
        /\ pending' = pending \/ pending' = <<>>
    BY <1>1 DEF ChooseMode, SetOnlineEnabled, Invalidate
  <2>4. job'.play = job.play /\ job'.step = job.step  BY <2>3 DEF Job
  <2>. QED BY <1>0, <2>1, <2>2, <2>3, <2>4
<1>2. CASE StartPlay
  <2>1. /\ play'.id = play.id + 1 /\ UNCHANGED <<pending, job>>
        /\ guests' \subseteq guests \cup {play.id + 1}
    BY <1>2 DEF StartPlay, service
  <2>2. job.play \in Nat /\ \A i \in DOMAIN pending : pending[i] \in Nat
    BY <1>0 DEF Job, Plays
  <2>. QED BY <1>0, <2>1, <2>2
<1>3. ASSUME NEW eligible \in BOOLEAN, FinishPlay(eligible) PROVE Started'
  <2>1. /\ play' = play /\ stage' = "menu" /\ guests' = guests
        /\ pending' = pending \/ pending' = Append(pending, play.id)
        /\ job' = job \/ job' = NoJob("wait")
    BY <1>3 DEF FinishPlay, history
  <2>2. job'.play =< play.id /\ (job'.step \notin {"off", "wait"} => job'.play >= 1)
    BY <1>0, <2>1 DEF NoJob
  <2>. QED BY <1>0, <2>1, <2>2
<1>4. CASE LeavePlay \/ TakeMessages
  BY <1>4 DEF LeavePlay, TakeMessages, service, history
<1>5. CASE \/ \E k \in Keys : BeginInstall(k)
           \/ InstallFails \/ BeginClear \/ ClearFails
  BY <1>5 DEF BeginInstall, InstallFails, BeginClear, ClearFails, ChangeFails, service, history
<1>6. CASE FinishInstall \/ FinishClear \/ Shutdown
  <2>1. /\ UNCHANGED <<play, guests>> /\ (stage' = "play" => stage = "play")
        /\ pending' = <<>> /\ job' = [job EXCEPT !.current = FALSE]
    BY <1>6 DEF FinishInstall, FinishClear, Shutdown, Reconnected, CancelPending, Invalidate, history
  <2>2. job'.play = job.play /\ job'.step = job.step  BY <2>1 DEF Job
  <2>. QED BY <2>1, <2>2
<1>7. CASE TakeScore
  <2>1. /\ UNCHANGED <<play, stage, guests>> /\ pending # <<>> /\ pending' = Tail(pending)
        /\ job'.play = Head(pending)
    BY <1>7 DEF TakeScore, Elsewhere, menu, history, NoJob
  <2>2. Head(pending) \in 1..play.id
    BY <1>0, <2>1 DEF Plays
  <2>3. \A i \in DOMAIN pending' : pending'[i] =< play.id
    BY <1>0, <2>1 DEF Plays
  <2>. QED BY <2>1, <2>2, <2>3
<1>8. CASE WorkerExits \/ Report
  <2>1. /\ UNCHANGED <<play, stage, guests, pending>>
        /\ job' = NoJob("off") \/ job' = NoJob("wait")
    BY <1>8, WorkerOnlyKeeps DEF WorkerExits, Report, Elsewhere, menu, history
  <2>. QED BY <1>0, <2>1 DEF NoJob
<1>9. CASE Handling
  <2>1. job.step \notin {"off", "wait"}
    BY <1>9 DEF Handling, SkipReplay, AcceptReplay, ReadConnection, Submit, Answer, Backoff, At
  <2>. QED BY <1>9, <2>1, Handled, WorkerOnlyKeeps
<1>10. CASE ServerReceives
  BY <1>10 DEF ServerReceives, Elsewhere, menu, history
<1>11. CASE Relaunch
  <2>1. /\ stage' = "menu" /\ play'.id = play.id /\ guests' = 1..play.id
        /\ pending' = <<>> /\ job' = NoJob("off")
    BY <1>11 DEF Relaunch, NoPlay
  <2>. QED BY <1>0, <2>1 DEF NoJob
<1>12. CASE UNCHANGED vars
  BY <1>12 DEF vars
<1>. QED BY <1>1, <1>2, <1>3, <1>4, <1>5, <1>6, <1>7, <1>8, <1>9, <1>10, <1>11, <1>12
         DEF Next, Menu, Worker, Handling

(* No step brings a guest's play into the queue or to a job that may post.  *)
LEMMA UnspoiltStep ==
  ASSUME SizesAssumption, TypeOK, Started, Unspoilt, [Next]_vars
  PROVE  Unspoilt'
PROOF
<1>. USE SizesAssumption DEF TypeOK, Unspoilt
<1>0. play.id \in Nat /\ pending \in Seq(Plays)  BY DEF MenuType, ServiceType
<1>1. ASSUME NEW on \in BOOLEAN, ChooseMode(on) PROVE Unspoilt'
  <2>1. CASE on
    <3>1. /\ UNCHANGED <<play, guests>> /\ job'.play = job.play
          /\ pending' = pending \/ pending' = <<>>
          /\ job'.current => job.current
      BY <1>1, <2>1 DEF ChooseMode, Revoked, SetOnlineEnabled, Invalidate, Job
    <3>. QED BY <3>1
  <2>2. CASE ~on
    <3>1. play'.permission = FALSE /\ pending' = <<>> /\ job'.current = FALSE
      BY <1>1, <2>2 DEF ChooseMode, Revoked, SetOnlineEnabled, Invalidate, Job, MenuType
    <3>. QED BY <3>1
  <2>. QED BY <2>1, <2>2
<1>2. CASE StartPlay
  <2>1. /\ play' = [id |-> play.id + 1, enabled |-> online, permission |-> online]
        /\ guests' = IF online THEN guests ELSE guests \cup {play.id + 1}
        /\ UNCHANGED <<pending, job>>
    BY <1>2 DEF StartPlay, service
  <2>2. play.id + 1 \notin guests  BY <1>0 DEF Started
  <2>3. job.play # play.id + 1 /\ \A i \in DOMAIN pending : pending[i] # play.id + 1
    BY <1>0 DEF Started, Job, Plays
  <2>. QED BY <2>1, <2>2, <2>3
<1>3. ASSUME NEW eligible \in BOOLEAN, FinishPlay(eligible) PROVE Unspoilt'
  <2>1. UNCHANGED <<play, guests>> /\ (job' = job \/ job' = NoJob("wait"))
    BY <1>3 DEF FinishPlay, history
  <2>3. pending' = pending \/ (play.permission /\ pending' = Append(pending, play.id))
    BY <1>3 DEF FinishPlay
  <2>2. job'.current => job'.play \notin guests  BY <2>1 DEF NoJob
  <2>. QED BY <1>0, <2>1, <2>2, <2>3
<1>4. CASE LeavePlay \/ TakeMessages
  BY <1>4 DEF LeavePlay, TakeMessages, service, history
<1>5. CASE \/ \E k \in Keys : BeginInstall(k)
           \/ InstallFails \/ BeginClear \/ ClearFails
  BY <1>5 DEF BeginInstall, InstallFails, BeginClear, ClearFails, ChangeFails, service, history
<1>6. CASE FinishInstall \/ FinishClear \/ Shutdown
  <2>1. /\ UNCHANGED <<play, guests>> /\ pending' = <<>>
        /\ job' = [job EXCEPT !.current = FALSE]
    BY <1>6 DEF FinishInstall, FinishClear, Shutdown, Reconnected, CancelPending, Invalidate, history
  <2>. QED BY <2>1 DEF Job
<1>7. CASE TakeScore
  <2>1. /\ UNCHANGED <<play, guests>> /\ pending # <<>> /\ pending' = Tail(pending)
        /\ job'.play = Head(pending)
    BY <1>7 DEF TakeScore, Elsewhere, menu, history, NoJob
  <2>2. Head(pending) \notin guests  BY <1>0, <2>1
  <2>3. \A i \in DOMAIN pending' : pending'[i] \notin guests  BY <1>0, <2>1
  <2>. QED BY <2>1, <2>2, <2>3
<1>8. CASE WorkerExits \/ Report
  <2>1. /\ UNCHANGED <<play, guests, pending>>
        /\ job' = NoJob("off") \/ job' = NoJob("wait")
    BY <1>8, WorkerOnlyKeeps DEF WorkerExits, Report, Elsewhere, menu, history
  <2>. QED BY <2>1 DEF NoJob
<1>9. CASE Handling
  BY <1>9, Handled, WorkerOnlyKeeps
<1>10. CASE ServerReceives
  BY <1>10 DEF ServerReceives, Elsewhere, menu, history
<1>11. CASE Relaunch
  BY <1>11 DEF Relaunch, NoPlay, NoJob
<1>12. CASE UNCHANGED vars
  BY <1>12 DEF vars
<1>. QED BY <1>1, <1>2, <1>3, <1>4, <1>5, <1>6, <1>7, <1>8, <1>9, <1>10, <1>11, <1>12
         DEF Next, Menu, Worker, Handling

(* A worker without a score, and one that has just taken one.               *)
LEMMA FreshJob ==
  ASSUME NEW s, NEW p
  PROVE  /\ NoJob(s).step = s
         /\ [NoJob(s) EXCEPT !.play = p, !.current = TRUE].step = s
PROOF
BY DEF NoJob

(* A post that is out stays current: who cancels waits for it.              *)
LEMMA PostStep ==
  ASSUME SizesAssumption, TypeOK, PostIsCurrent, [Next]_vars
  PROVE  PostIsCurrent'
PROOF
<1>. USE DEF TypeOK, PostIsCurrent, At
<1>1. ASSUME NoPost, Invalidate PROVE PostIsCurrent'
  <2>1. job'.step = job.step  BY <1>1 DEF Invalidate, Job
  <2>. QED BY <1>1, <2>1 DEF NoPost
<1>2. ASSUME UNCHANGED job PROVE PostIsCurrent'
  BY <1>2
<1>3. ASSUME job'.step \in {"off", "wait", "load"} PROVE PostIsCurrent'
  BY <1>3
<1>4. ASSUME NEW on \in BOOLEAN, ChooseMode(on) PROVE PostIsCurrent'
  BY <1>1, <1>2, <1>4 DEF ChooseMode, SetOnlineEnabled
<1>5. CASE \/ StartPlay \/ LeavePlay \/ TakeMessages \/ ServerReceives
           \/ InstallFails \/ BeginClear \/ ClearFails \/ \E k \in Keys : BeginInstall(k)
  BY <1>2, <1>5 DEF StartPlay, LeavePlay, TakeMessages, ServerReceives, InstallFails, BeginClear,
                    ClearFails, BeginInstall, ChangeFails
<1>6. ASSUME NEW eligible \in BOOLEAN, FinishPlay(eligible) PROVE PostIsCurrent'
  BY <1>2, <1>3, <1>6, FreshJob DEF FinishPlay
<1>7. CASE FinishInstall \/ FinishClear \/ Shutdown
  BY <1>1, <1>7 DEF FinishInstall, FinishClear, Shutdown, Reconnected, CancelPending
<1>8. CASE TakeScore \/ WorkerExits \/ Report \/ Relaunch
  <2>1. CASE TakeScore
    <3>1. job'.step = "load"
      <4>. HIDE DEF TypeOK, PostIsCurrent, At
      <4>. QED BY <2>1, FreshJob DEF TakeScore
    <3>. QED BY <1>3, <3>1
  <2>2. CASE WorkerExits \/ Report \/ Relaunch
    <3>1. job'.step \in {"off", "wait"}
      BY <2>2, FreshJob DEF WorkerExits, Report, Relaunch
    <3>. QED BY <1>3, <3>1
  <2>. QED BY <1>8, <2>1, <2>2
<1>9. CASE Handling
  BY <1>9, Handled DEF MayPost
<1>10. CASE UNCHANGED vars
  BY <1>2, <1>10 DEF vars
<1>. QED BY <1>4, <1>5, <1>6, <1>7, <1>8, <1>9, <1>10 DEF Next, Menu, Worker, Handling

(* The worker's key stays one that the user has not taken back.             *)
LEMMA KeysStep ==
  ASSUME SizesAssumption, TypeOK, PostIsCurrent, KeysKnown, [Next]_vars
  PROVE  KeysKnown'
PROOF
<1>. USE DEF TypeOK, KeysKnown, DiskType
<1>1. ASSUME NEW on \in BOOLEAN, ChooseMode(on) PROVE KeysKnown'
  <2>1. job' = job \/ job' = [job EXCEPT !.current = FALSE]
    BY <1>1 DEF ChooseMode, SetOnlineEnabled, Invalidate
  <2>2. job'.step = job.step /\ job'.key = job.key /\ (job'.current => job.current)
    BY <2>1 DEF Job
  <2>. QED BY <1>1, <2>2 DEF ChooseMode, disk
<1>2. CASE StartPlay \/ LeavePlay \/ TakeMessages \/ ServerReceives \/ Shutdown
  <2>1. /\ UNCHANGED <<files, busy, valid>>
        /\ job' = job \/ job' = [job EXCEPT !.current = FALSE]
    BY <1>2 DEF StartPlay, LeavePlay, TakeMessages, ServerReceives, Shutdown, Invalidate, Elsewhere,
                menu, disk, history
  <2>2. job'.step = job.step /\ job'.key = job.key /\ (job'.current => job.current)
    BY <2>1 DEF Job
  <2>. QED BY <2>1, <2>2
<1>3. ASSUME NEW eligible \in BOOLEAN, FinishPlay(eligible) PROVE KeysKnown'
  <2>1. UNCHANGED <<files, busy, valid>> /\ (job' = job \/ job' = NoJob("wait"))
    BY <1>3 DEF FinishPlay, history
  <2>. QED BY <2>1 DEF NoJob
<1>4. ASSUME ChangeFails PROVE KeysKnown'
  BY <1>4 DEF ChangeFails, disk, history
<1>5. ASSUME NEW k \in Keys, BeginInstall(k) PROVE KeysKnown'
  BY <1>5, KeysAssumption DEF BeginInstall
<1>6. ASSUME NEW keys, Reconnected(keys) PROVE ~job'.current /\ busy' = "no" /\ valid' = keys
  <2>1. job' = [job EXCEPT !.current = FALSE]
    BY <1>6 DEF Reconnected, CancelPending, Invalidate
  <2>. QED BY <1>6, <2>1 DEF Reconnected, Job
<1>7. CASE FinishInstall
  <2>1. /\ ~job'.current /\ busy' = "no" /\ valid' = {files.sealed}
        /\ files' = [files EXCEPT !.plain = NoKey]
    BY <1>6, <1>7 DEF FinishInstall
  <2>. QED BY <2>1
<1>8. CASE BeginClear
  BY <1>8 DEF BeginClear, ClearedFirst, history
<1>9. CASE FinishClear
  <2>1. /\ ~job'.current /\ busy' = "no" /\ valid' = {}
        /\ files' = [sealed |-> NoKey, plain |-> NoKey]
    BY <1>6, <1>9 DEF FinishClear
  <2>. QED BY <2>1
<1>10. CASE TakeScore \/ WorkerExits \/ Report
  <2>1. UNCHANGED <<files, busy, valid>>
    BY <1>10, WorkerOnlyKeeps DEF TakeScore, WorkerExits, Report, Elsewhere, menu, disk, history
  <2>2. job'.step \in {"load", "off", "wait"}
    <3>1. CASE TakeScore
      <4>. HIDE DEF KeysKnown, TypeOK, DiskType
      <4>. QED BY <3>1, FreshJob DEF TakeScore
    <3>2. CASE WorkerExits \/ Report  BY <3>2, FreshJob DEF WorkerExits, Report
    <3>. QED BY <1>10, <3>1, <3>2
  <2>. QED BY <2>1, <2>2
<1>11. CASE Handling
  BY <1>11, Handled, WorkerOnlyKeeps DEF Carrying
<1>12. CASE Relaunch
  BY <1>12 DEF Relaunch, NoJob
<1>13. CASE UNCHANGED vars
  BY <1>13 DEF vars
<1>. QED BY <1>1, <1>2, <1>3, <1>4, <1>5, <1>7, <1>8, <1>9, <1>10, <1>11, <1>12, <1>13
         DEF Next, Menu, Worker, Handling, InstallFails, ClearFails

(* The inductive invariant.                                                 *)
UploadInv == TypeOK /\ Started /\ Unspoilt /\ PostIsCurrent /\ KeysKnown

(* It holds when the program is started for the first time.                 *)
LEMMA UploadInvInit == ASSUME SizesAssumption, Init PROVE UploadInv
PROOF
<1>1. files \in [sealed : {NoKey}, plain : Keys \cup {NoKey}]  BY DEF Init
<1>2. TypeOK
  <2>1. NoJob("off") \in Job  BY SizesAssumption DEF NoJob, Job, Steps
  <2>2. MenuType
    <3>1. play \in [id : 0..MaxPlays, enabled : BOOLEAN, permission : BOOLEAN]
      BY SizesAssumption DEF Init, NoPlay
    <3>2. shown \in [play : 0..MaxPlays, status : Statuses]
      BY SizesAssumption DEF Init, Statuses
    <3>. QED BY <3>1, <3>2 DEF Init, MenuType, Stages
  <2>3. ServiceType
    <3>1. <<>> \in Seq(Plays) /\ <<>> \in Seq(Message) /\ Len(<<>>) =< Capacity
      BY SizesAssumption
    <3>. QED BY <3>1 DEF Init, ServiceType
  <2>4. DiskType  BY <1>1, SizesAssumption DEF Init, DiskType
  <2>5. HistoryType  BY <1>1 DEF Init, HistoryType
  <2>. QED BY <2>1, <2>2, <2>3, <2>4, <2>5 DEF Init, TypeOK
<1>3. Started /\ Unspoilt /\ PostIsCurrent
  BY DEF Init, Started, Unspoilt, PostIsCurrent, At, NoPlay, NoJob
<1>4. KeysKnown  BY <1>1 DEF Init, KeysKnown, NoJob
<1>. QED BY <1>2, <1>3, <1>4 DEF UploadInv

(* It holds for ever.                                                       *)
LEMMA UploadInvAlways == Spec => []UploadInv
PROOF
<1>1. Init => UploadInv
  BY UploadInvInit, SizesAssumption
<1>2. UploadInv /\ [Next]_vars => UploadInv'
  BY TypesStep, StartedStep, UnspoiltStep, PostStep, KeysStep, SizesAssumption DEF UploadInv
<1>. QED BY <1>1, <1>2, PTL DEF Spec

(* The state of the menu, the service, the worker and the files is always   *)
(* well formed; in particular the queue never exceeds its capacity.         *)
THEOREM UploadTypes == Spec => []TypeOK
PROOF
<1>1. UploadInv => TypeOK  BY DEF UploadInv
<1>. QED BY <1>1, UploadInvAlways, PTL

(* A play that the Guest mode has touched is never posted: not by the play  *)
(* that is under way, nor from the queue, nor by a worker between two        *)
(* attempts, nor after a crash or a restart (SitesLeaderboardClient.cpp:341).*)
THEOREM GuestsNeverPosted == Spec => []GuestPlaysStayLocal
PROOF
<1>1. UploadInv => GuestPlaysStayLocal
  BY DEF UploadInv, PostIsCurrent, Unspoilt, GuestPlaysStayLocal
<1>. QED BY <1>1, UploadInvAlways, PTL

(* No post carries a key that was replaced or removed, whatever failed or    *)
(* crashed in between (handle_sites_leaderboard_action, cancel_pending).     *)
THEOREM RevokedKeysUnused == Spec => []NoOldKey
PROOF
<1>1. UploadInv => NoOldKey
  BY DEF UploadInv, PostIsCurrent, KeysKnown, NoOldKey, At
<1>. QED BY <1>1, UploadInvAlways, PTL

--------------------------------------------------------------------------------
(* The result screen and the server.                                        *)

(* A play that nobody has handed to the service, nor can again.              *)
Untouched(p) == /\ p >= 1 /\ p \notin received /\ job.play # p
                /\ \A i \in DOMAIN pending : pending[i] # p

(* A play is queued once, when it finishes; one that was kept local stays   *)
(* out of the queue, of the job and of the server.                          *)
Local ==
  /\ received \subseteq 1..play.id /\ shown.play =< play.id
  /\ stage = "play" => Untouched(play.id)
  /\ shown.status = "guest" => Untouched(shown.play)

(* What says that a score was accepted is about one that was received.       *)
Answered ==
  /\ job.accepted => job.play \in received
  /\ \A i \in DOMAIN messages : messages[i].accepted => messages[i].play \in received
  /\ shown.status = "uploaded" => shown.play \in received

TruthInv == Local /\ Answered

(* A step that hands nothing over and answers nothing.                       *)
Quiet ==
  /\ UNCHANGED <<received, shown>> /\ play'.id = play.id
  /\ stage' = "play" => stage = "play"
  /\ job'.play = job.play /\ job'.accepted = job.accepted
  /\ pending' = pending \/ pending' = <<>>
  /\ messages' = messages \/ messages' = <<>>

LEMMA QuietTruth == ASSUME TypeOK, TruthInv, Quiet PROVE TruthInv'
PROOF
<1>. USE DEF Quiet
<1>1. Untouched(play.id) => Untouched(play.id)'  BY DEF Untouched
<1>2. Untouched(shown.play) => Untouched(shown.play)'  BY DEF Untouched
<1>3. Local'  BY <1>1, <1>2 DEF TruthInv, Local
<1>4. Answered'  BY DEF TruthInv, Answered
<1>. QED BY <1>3, <1>4 DEF TruthInv

(* An answer is only accepted when the server has the score.                 *)
LEMMA HandledTruth ==
  ASSUME TypeOK, Answered, Handling
  PROVE  job'.accepted => job.play \in received
PROOF
<1>. USE DEF TypeOK, Answered
<1>1. ASSUME NEW s, Goto(s) PROVE job'.accepted = job.accepted
  BY <1>1 DEF Goto, Job
<1>2. CASE SkipReplay \/ AcceptReplay \/ Submit
  BY <1>1, <1>2 DEF SkipReplay, AcceptReplay, Submit
<1>3. CASE ReadConnection
  <2>1. \/ Goto("report")
        \/ \E key \in {files.sealed, files.plain} : job' = [job EXCEPT !.step = "submit", !.key = key]
    BY <1>3 DEF ReadConnection
  <2>2. job'.accepted = job.accepted
    BY <1>1, <2>1 DEF Job
  <2>. QED BY <2>2
<1>4. CASE Answer
  <2>1. \/ job.play \in received
        \/ Goto("report") \/ Goto("backoff")
    BY <1>4 DEF Answer
  <2>. QED BY <1>1, <2>1
<1>5. CASE Backoff
  <2>1. job' = Retried \/ Goto("report")
    BY <1>5 DEF Backoff
  <2>2. job'.accepted = job.accepted
    BY <1>1, <2>1 DEF Retried, Job
  <2>. QED BY <2>2
<1>. QED BY <1>2, <1>3, <1>4, <1>5 DEF Handling

(* Every step of the program keeps the screen true.                          *)
LEMMA TruthStep ==
  ASSUME SizesAssumption, UploadInv, TruthInv, [Next]_vars
  PROVE  TruthInv'
PROOF
<1>. USE DEF UploadInv, TypeOK
<1>0. /\ play.id \in Nat /\ pending \in Seq(Plays) /\ messages \in Seq(Message)
      /\ job \in Job /\ shown.play \in Nat /\ received \subseteq Nat
      /\ \A i \in DOMAIN pending : pending[i] \in Nat
  BY DEF MenuType, ServiceType, HistoryType, Plays
<1>1. ASSUME NEW on \in BOOLEAN, ChooseMode(on) PROVE TruthInv'
  <2>1. play'.id = play.id /\ UNCHANGED <<received, shown, stage>>
    BY <1>1 DEF ChooseMode, Revoked, MenuType
  <2>2. /\ job' = job \/ job' = [job EXCEPT !.current = FALSE]
        /\ pending' = pending \/ pending' = <<>>
        /\ messages' = messages \/ messages' = <<>>
    BY <1>1 DEF ChooseMode, SetOnlineEnabled, Invalidate
  <2>3. job'.play = job.play /\ job'.accepted = job.accepted
    BY <1>0, <2>2 DEF Job
  <2>. QED BY <2>1, <2>2, <2>3, QuietTruth DEF Quiet
<1>2. CASE StartPlay
  <2>1. /\ play'.id = play.id + 1 /\ UNCHANGED <<received, shown, pending, messages, job>>
    BY <1>2 DEF StartPlay, service
  <2>2. Untouched(play.id + 1)
    <3>1. play.id + 1 \notin received  BY <1>0 DEF TruthInv, Local
    <3>2. job.play # play.id + 1 /\ \A i \in DOMAIN pending : pending[i] # play.id + 1
      BY <1>0 DEF Started, Job
    <3>. QED BY <1>0, <3>1, <3>2 DEF Untouched
  <2>3. Untouched(play.id)'  BY <2>1, <2>2 DEF Untouched
  <2>4. Untouched(shown.play) => Untouched(shown.play)'  BY <2>1 DEF Untouched
  <2>5. received' \subseteq 1..play'.id /\ shown'.play =< play'.id
    BY <1>0, <2>1 DEF TruthInv, Local
  <2>6. Local'  BY <2>1, <2>3, <2>4, <2>5 DEF TruthInv, Local
  <2>7. Answered'  BY <2>1 DEF TruthInv, Answered
  <2>. QED BY <2>6, <2>7 DEF TruthInv
<1>3. ASSUME NEW eligible \in BOOLEAN, FinishPlay(eligible) PROVE TruthInv'
  <2>1. /\ stage = "play" /\ stage' = "menu" /\ play' = play /\ received' = received
        /\ shown'.play = play.id /\ shown'.status # "uploaded"
        /\ shown'.status = "guest" => pending' = pending /\ job' = job
    BY <1>3 DEF FinishPlay, Playing, EnqueueResult
  <2>2. Untouched(play.id)  BY <2>1 DEF TruthInv, Local
  <2>3. shown'.status = "guest" => Untouched(shown.play)'
    BY <2>1, <2>2 DEF Untouched
  <2>4. Local'  BY <1>0, <2>1, <2>3 DEF TruthInv, Local
  <2>5. job' = job \/ job' = NoJob("wait")
    BY <1>3 DEF FinishPlay
  <2>6. \/ messages' = messages
        \/ messages' = Append(messages, [play |-> play.id, accepted |-> FALSE])
    BY <1>3 DEF FinishPlay
  <2>7. job'.accepted => job'.play \in received
    BY <2>5 DEF TruthInv, Answered, NoJob
  <2>8. \A i \in DOMAIN messages' : messages'[i].accepted => messages'[i].play \in received
    <3>. DEFINE new == [play |-> play.id, accepted |-> FALSE]
    <3>1. ~new.accepted  OBVIOUS
    <3>2. messages' = messages \/ messages' = Append(messages, new)  BY <2>6
    <3>3. \A i \in DOMAIN messages : messages[i].accepted => messages[i].play \in received
      BY DEF TruthInv, Answered
    <3>4. messages \in Seq(Message)  BY <1>0
    <3>. HIDE DEF new
    <3>. QED BY <3>1, <3>2, <3>3, <3>4
  <2>. QED BY <2>1, <2>4, <2>7, <2>8 DEF TruthInv, Answered
<1>4. CASE LeavePlay
  <2>1. /\ UNCHANGED <<play, received, pending, messages, job>> /\ stage' = "menu"
        /\ shown' = shown \/ shown' = [play |-> 0, status |-> "excluded"]
    BY <1>4 DEF LeavePlay, service
  <2>2. CASE shown' = shown
    BY <2>1, <2>2, QuietTruth DEF Quiet
  <2>3. CASE shown' = [play |-> 0, status |-> "excluded"]
    <3>0. shown'.play = 0 /\ shown'.status = "excluded"  BY <2>3
    <3>1. Local'  BY <1>0, <2>1, <3>0 DEF TruthInv, Local
    <3>2. Answered'  BY <2>1, <3>0 DEF TruthInv, Answered
    <3>. QED BY <3>1, <3>2 DEF TruthInv
  <2>. QED BY <2>1, <2>2, <2>3
<1>5. CASE TakeMessages
  <2>1. UNCHANGED <<play, stage, received, pending, job>> /\ messages' = <<>>
    BY <1>5 DEF TakeMessages
  <2>2. CASE shown' = shown
    BY <2>1, <2>2, QuietTruth DEF Quiet
  <2>3. CASE shown' # shown
    <3>1. PICK last \in DOMAIN messages :
            /\ Concerns(messages[last])
            /\ shown' = [shown EXCEPT !.status = IF messages[last].accepted
                                                THEN "uploaded" ELSE "failed"]
      BY <1>5, <2>3 DEF TakeMessages
    <3>2. /\ shown'.play = shown.play /\ shown'.status # "guest"
          /\ shown'.status = "uploaded" => messages[last].accepted
      BY <3>1 DEF MenuType
    <3>3. messages[last].play = shown.play
      BY <3>1 DEF Concerns
    <3>4. Local'  BY <2>1, <3>2 DEF TruthInv, Local, Untouched
    <3>5. Answered'  BY <2>1, <3>2, <3>3 DEF TruthInv, Answered
    <3>. QED BY <3>4, <3>5 DEF TruthInv
  <2>. QED BY <2>2, <2>3
<1>6. CASE \/ \E k \in Keys : BeginInstall(k)
           \/ InstallFails \/ BeginClear \/ ClearFails
  BY <1>6, QuietTruth DEF BeginInstall, InstallFails, BeginClear, ClearFails, ChangeFails,
                          service, history, Quiet
<1>7. CASE Shutdown
  <2>1. /\ UNCHANGED <<play, received, shown, messages>> /\ stage' = "ending" /\ pending' = <<>>
        /\ job' = [job EXCEPT !.current = FALSE]
    BY <1>7 DEF Shutdown, Invalidate
  <2>2. job'.play = job.play /\ job'.accepted = job.accepted
    BY <1>0, <2>1 DEF Job
  <2>. QED BY <2>1, <2>2, QuietTruth DEF Quiet
<1>8. CASE FinishInstall \/ FinishClear
  <2>1. /\ UNCHANGED <<play, stage, received>> /\ pending' = <<>> /\ messages' = <<>>
        /\ job' = [job EXCEPT !.current = FALSE]
        /\ shown' = [play |-> 0, status |-> "changed"]
    BY <1>8 DEF FinishInstall, FinishClear, Reconnected, CancelPending, Invalidate
  <2>2. job'.play = job.play /\ job'.accepted = job.accepted
    BY <1>0, <2>1 DEF Job
  <2>3. Untouched(play.id) => Untouched(play.id)'  BY <2>1, <2>2 DEF Untouched
  <2>4. Local'  BY <1>0, <2>1, <2>3 DEF TruthInv, Local
  <2>5. Answered'  BY <2>1, <2>2 DEF TruthInv, Answered
  <2>. QED BY <2>4, <2>5 DEF TruthInv
<1>9. CASE TakeScore
  <2>1. /\ UNCHANGED <<play, stage, received, shown, messages>> /\ pending # <<>>
        /\ pending' = Tail(pending)
        /\ job'.play = Head(pending) /\ job'.accepted = FALSE
    BY <1>9 DEF TakeScore, Elsewhere, menu, NoJob
  <2>2. ASSUME NEW p, Untouched(p)
        PROVE  /\ p >= 1 /\ p \notin received' /\ job'.play # p
               /\ \A i \in DOMAIN pending' : pending'[i] # p
    BY <1>0, <2>1, <2>2 DEF Untouched
  <2>3. Local'  BY <2>1, <2>2 DEF TruthInv, Local, Untouched
  <2>4. Answered'  BY <2>1 DEF TruthInv, Answered
  <2>. QED BY <2>3, <2>4 DEF TruthInv
<1>10. CASE WorkerExits
  <2>1. /\ UNCHANGED <<play, stage, received, shown, messages, pending>>
        /\ job'.play = 0 /\ job'.accepted = FALSE
    BY <1>10, WorkerOnlyKeeps DEF WorkerExits, NoJob
  <2>2. ASSUME NEW p \in Nat, Untouched(p) PROVE job'.play # p  BY <2>1, <2>2 DEF Untouched
  <2>3. Local'  BY <1>0, <2>1, <2>2 DEF TruthInv, Local, Untouched
  <2>4. Answered'  BY <2>1 DEF TruthInv, Answered
  <2>. QED BY <2>3, <2>4 DEF TruthInv
<1>11. CASE Report
  <2>1. /\ UNCHANGED <<play, stage, received, shown, pending>>
        /\ job'.play = 0 /\ job'.accepted = FALSE
    BY <1>11 DEF Report, Elsewhere, menu, NoJob
  <2>2. ASSUME NEW p \in Nat, Untouched(p) PROVE job'.play # p  BY <2>1, <2>2 DEF Untouched
  <2>3. Local'  BY <1>0, <2>1, <2>2 DEF TruthInv, Local, Untouched
  <2>4. \A i \in DOMAIN messages' : messages'[i].accepted => messages'[i].play \in received
    <3>1. CASE ~job.current  BY <1>11, <3>1 DEF Report, TruthInv, Answered
    <3>2. CASE job.current
      <4>. DEFINE kept == IF Len(messages) >= Capacity THEN Tail(messages) ELSE messages
                  new == [play |-> job.play, accepted |-> job.accepted]
      <4>1. messages' = Append(kept, new)  BY <1>11, <3>2 DEF Report, Pushed
      <4>2. kept \in Seq(Message)  BY <1>0
      <4>3. \A i \in DOMAIN kept : kept[i].accepted => kept[i].play \in received
        <5>1. CASE messages = <<>>
          BY <1>0, <5>1, SizesAssumption
        <5>2. CASE messages # <<>>
          BY <1>0, <5>2 DEF TruthInv, Answered
        <5>. QED BY <5>1, <5>2
      <4>4. new.accepted => new.play \in received  BY DEF TruthInv, Answered
      <4>. HIDE DEF kept, new
      <4>. QED BY <4>1, <4>2, <4>3, <4>4
    <3>. QED BY <3>1, <3>2
  <2>5. Answered'  BY <2>1, <2>4 DEF TruthInv, Answered
  <2>. QED BY <2>3, <2>5 DEF TruthInv
<1>12. CASE Handling
  <2>1. WorkerOnly /\ job'.play = job.play  BY <1>12, Handled
  <2>2. UNCHANGED <<play, stage, received, shown, messages, pending>>
    BY <2>1, WorkerOnlyKeeps
  <2>3. job'.accepted => job'.play \in received  BY <1>12, <2>1, HandledTruth DEF TruthInv
  <2>4. Local'  BY <2>1, <2>2 DEF TruthInv, Local, Untouched
  <2>5. Answered'  BY <2>2, <2>3 DEF TruthInv, Answered
  <2>. QED BY <2>4, <2>5 DEF TruthInv
<1>13. CASE ServerReceives
  <2>1. /\ UNCHANGED <<play, stage, shown, messages, pending, job>>
        /\ received' = received \cup {job.play}
    BY <1>13 DEF ServerReceives, Elsewhere, menu
  <2>2. job.play \in 1..play.id
    BY <1>0, <1>13 DEF ServerReceives, At, Started, Job
  <2>3. Local'  BY <2>1, <2>2 DEF TruthInv, Local, Untouched
  <2>4. Answered'  BY <2>1 DEF TruthInv, Answered
  <2>. QED BY <2>3, <2>4 DEF TruthInv
<1>14. CASE Relaunch
  <2>1. /\ play'.id = play.id /\ received' = received /\ stage' = "menu"
        /\ shown' = [play |-> 0, status |-> "none"] /\ messages' = <<>>
        /\ job'.accepted = FALSE
    BY <1>14 DEF Relaunch, NoPlay, NoJob
  <2>2. Local'  BY <1>0, <2>1 DEF TruthInv, Local
  <2>3. Answered'  BY <2>1 DEF Answered
  <2>. QED BY <2>2, <2>3 DEF TruthInv
<1>15. CASE UNCHANGED vars
  BY <1>15, QuietTruth DEF vars, Quiet
<1>. QED BY <1>1, <1>2, <1>3, <1>4, <1>5, <1>6, <1>7, <1>8, <1>9, <1>10, <1>11, <1>12, <1>13, <1>14,
            <1>15 DEF Next, Menu, Worker, Handling

(* The result screen is true to the server: what it calls uploaded was       *)
(* received, also when messages of older plays come late or the answer was   *)
(* lost once, and what it calls local never is (service_sites_leaderboard,   *)
(* applies_to_result).                                                       *)
THEOREM ScreenTruthful == Spec => []StatusTruthful
PROOF
<1>1. Init => TruthInv
  BY DEF Init, NoPlay, NoJob, TruthInv, Local, Answered
<1>2. UploadInv /\ TruthInv /\ [Next]_vars => TruthInv'
  BY TruthStep, SizesAssumption
<1>3. TruthInv => StatusTruthful
  BY DEF TruthInv, Local, Answered, Untouched, StatusTruthful
<1>. QED BY <1>1, <1>2, <1>3, UploadInvAlways, PTL DEF Spec

(* No step, be it of a change that fails half-way or the last before a       *)
(* crash, makes an older key the one that the next upload reads (install and *)
(* clear in SitesLeaderboardConnection.cpp).                                 *)
THEOREM OldKeysStayGone == Spec => OldKeyStaysGone
PROOF
<1>1. UploadInv /\ [Next]_vars => [Resolved' # Resolved => Resolved' = NoKey \/ busy' = "install"]_vars
  <2>. SUFFICES ASSUME UploadInv, Next
                PROVE  Resolved' # Resolved => Resolved' = NoKey \/ busy' = "install"
    OBVIOUS
  <2>0. files \in [sealed : Keys \cup {NoKey}, plain : Keys \cup {NoKey}]
    BY DEF UploadInv, TypeOK, DiskType
  <2>1. ASSUME UNCHANGED files PROVE Resolved' = Resolved
    BY <2>1 DEF Resolved
  <2>2. CASE \E on \in BOOLEAN : ChooseMode(on)
    BY <2>1, <2>2 DEF ChooseMode, disk
  <2>3. CASE \E eligible \in BOOLEAN : FinishPlay(eligible)
    BY <2>1, <2>3 DEF FinishPlay
  <2>4. CASE StartPlay \/ LeavePlay \/ TakeMessages \/ InstallFails \/ ClearFails \/ Shutdown
    BY <2>1, <2>4 DEF StartPlay, LeavePlay, TakeMessages, InstallFails, ClearFails, Shutdown,
                      ChangeFails, disk
  <2>5. CASE \E k \in Keys : BeginInstall(k)
    BY <2>5 DEF BeginInstall
  <2>6. CASE FinishInstall
    <3>1. files.sealed # NoKey /\ files'.sealed = files.sealed
      BY <2>0, <2>6 DEF FinishInstall, UploadInv, KeysKnown
    <3>. QED BY <3>1 DEF Resolved
  <2>7. CASE BeginClear
    <3>1. files'.sealed = files.sealed /\ files'.plain = NoKey
      BY <2>0, <2>7 DEF BeginClear, ClearedFirst
    <3>. QED BY <3>1 DEF Resolved
  <2>8. CASE FinishClear
    BY <2>8 DEF FinishClear, Resolved
  <2>9. CASE Worker \/ ServerReceives \/ Relaunch
    <3>1. files' = files
      BY <2>9 DEF Worker, TakeScore, WorkerExits, SkipReplay, AcceptReplay, ReadConnection, Submit,
                  Answer, Backoff, Report, ServerReceives, Relaunch, WorkerOnly, Elsewhere, disk
    <3>. QED BY <2>1, <3>1
  <2>. QED BY <2>2, <2>3, <2>4, <2>5, <2>6, <2>7, <2>8, <2>9 DEF Next, Menu
<1>. QED BY <1>1, UploadInvAlways, PTL DEF Spec, OldKeyStaysGone

================================================================================
