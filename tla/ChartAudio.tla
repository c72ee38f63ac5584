------------------------------- MODULE ChartAudio -------------------------------
(* A chart's sounds while it plays: the audio callback, which turns cues and    *)
(* hits into voices, drops the second copy of a sound the chart starts twice at *)
(* one time (ChartAudioDeduplicator), mixes the voices buffer by buffer and     *)
(* ends the play after the last one, against the loader threads of              *)
(* ChartAudioLoader, which publish the clips it reads while it runs.            *)
(*                                                                              *)
(* The callback takes one voice per step, first to elect the copies             *)
(* (consider), then to mix them (claim), so a clip can appear between any two   *)
(* voices.  Time is in samples of the chart; a paused callback schedules and    *)
(* mixes nothing and is a stuttering step.                                      *)
EXTENDS ChartAudioLoader

CONSTANTS
  Frames,      \* the length of a buffer
  Latency,     \* how far the playback head trails the buffer being written
  Duration,    \* the playback length of each sound
  Window,      \* the samples around its time in which a note can be hit
  Lookahead,   \* how far behind a buffer's end an edge of it may still be placed
  ResultTail,  \* config_.ui.result_tail_ms
  PlayToEnd,   \* config_.audio_ui.play_to_end
  LoadedBy,    \* from here on the callback waits for the decodings
  LastSample   \* the bound of the chart's time

ASSUME ChartAudioAssumption ==
  /\ Frames \in Nat \ {0}
  /\ {Latency, Window, Lookahead, ResultTail, LoadedBy, LastSample} \subseteq Nat
  /\ Duration \in [Pcm -> Nat \ {0}]
  /\ PlayToEnd \in BOOLEAN

VARIABLES
  at,          \* logical_buffer_start_samples of the callback
  cb,          \* the part of the callback that runs, idle between two
  turn,        \* the voice the callback has come to
  kept,        \* the voices it keeps, chart_audio_voices_[0 .. write_index)
  voices,      \* chart_audio_voices_
  next,        \* next_chart_audio_event_
  hit,         \* the notes that were hit
  played,      \* Occurrence::played and pcm_identity, 0 if not played
  candidate,   \* Occurrence::candidate_* of this buffer, or NoCandidate
  pending,     \* result_transition_pending_
  transition,  \* result_transition_sample_
  finished,    \* finished_
  heard,       \* history: how often each sound of each chart time was begun
  silenced,    \* history: the sounds of which a copy was dropped
  mixedUntil   \* history: the end of the last sample mixed

mixVars ==
  <<at, cb, turn, kept, voices, next, hit, played, candidate, pending, transition,
    finished, heard, silenced, mixedUntil>>
vars == <<loaderVars, mixVars>>

--------------------------------------------------------------------------------
(* The authored occurrences the deduplicator is prepared with. *)

Key(cue, kind) == [at |-> cue.at, asset |-> cue.asset, kind |-> kind, gain |-> cue.gain]

Occurrence == {Key(Bgm[i], "bgm") : i \in DOMAIN Bgm} \cup
              {Key(Notes[i], "key") : i \in DOMAIN Notes}

(* What one hears: a sound, at a time of the chart, with a gain.               *)
Heard == {<<o.at, Sound[o.asset], o.gain>> : o \in Occurrence}

NoCandidate == [start |-> 0, turn |-> 0, id |-> 0]

Voice(cue, kind, start) ==
  [start |-> start, key |-> Key(cue, kind), claimed |-> FALSE, pinned |-> 0]

Init ==
  /\ LoaderInit
  /\ at = 0
  /\ cb = "idle"
  /\ turn = 0
  /\ kept = <<>>
  /\ voices = <<>>
  /\ next = 1
  /\ hit = {}
  /\ played = [o \in Occurrence |-> 0]
  /\ candidate = [o \in Occurrence |-> NoCandidate]
  /\ pending = FALSE
  /\ transition = 0
  /\ finished = FALSE
  /\ heard = [h \in Heard |-> 0]
  /\ silenced = {}
  /\ mixedUntil = 0

--------------------------------------------------------------------------------
(* The input part of a callback. *)

End == at + Frames
PlaybackHead == at - Latency

(* The session's loop keeps its prefetch ahead of the callback, and a decoding *)
(* that has been asked for ends before the callback reaches LoadedBy.          *)
SessionKeepsUp == at <= (IF serviced = Never THEN StartupWindow ELSE serviced + Prefetch)
DecodingKeepsUp ==
  \/ at < LoadedBy
  \/ \A a \in Asset : state[a] \notin {"Queued", "Loading"}

BeginBuffer ==
  /\ phase = "play" /\ cb = "idle" /\ ~finished
  /\ SessionKeepsUp /\ DecodingKeepsUp
  /\ at <= LastSample
  /\ cb' = "input"
  /\ UNCHANGED <<loaderVars, at, turn, kept, voices, next, hit, played, candidate,
                 pending, transition, finished, heard, silenced, mixedUntil>>

(* schedule_note_keysound and schedule_mine_keysound: an edge sounds from its  *)
(* own sample, one of an earlier buffer from the start of this one.  The clock *)
(* may place it up to Lookahead behind the buffer's end; its voice then waits. *)
Hit(n, start) ==
  /\ cb = "input"
  /\ n \notin hit
  /\ Notes[n].at - Window <= start /\ at <= Notes[n].at + Window
  /\ hit' = hit \cup {n}
  /\ voices' = Append(voices, Voice(Notes[n], "key", start))
  /\ UNCHANGED <<loaderVars, at, cb, turn, kept, next, played, candidate, pending,
                 transition, finished, heard, silenced, mixedUntil>>

(* engine_->is_finished(): every note was hit or is past its window.           *)
EngineDone == \A n \in DOMAIN Notes : n \in hit \/ Notes[n].at + Window < at

Larger(x, y) == IF x >= y THEN x ELSE y
Smaller(x, y) == IF x <= y THEN x ELSE y

(* schedule_chart_audio: the events that start before the buffer's end.        *)
Starting == {i \in DOMAIN Bgm : next <= i /\ Bgm[i].at + Offset < End}

Scheduled ==
  voices \o [j \in 1..Cardinality(Starting) |->
               LET cue == Bgm[next + j - 1] IN Voice(cue, "bgm", cue.at + Offset)]

\* Mutant: the result does not wait for the last buffer to be heard.
TransitionFor_Written(sounding) ==
  IF pending THEN transition ELSE IF EngineDone THEN End + ResultTail ELSE 0

(* The result is due ResultTail after the notes; with play_to_end it also      *)
(* waits for the end of every buffer that still had a voice.                   *)
TransitionFor(sounding) ==
  LET due == IF pending THEN transition ELSE IF EngineDone THEN End + ResultTail ELSE 0
  IN  IF PlayToEnd /\ EngineDone /\ sounding THEN Larger(due, End) ELSE due

(* The engine's verdict, the cues of the buffer, then begin_buffer.            *)
Schedule ==
  /\ cb = "input"
  /\ pending' = EngineDone
  /\ transition' = TransitionFor(Scheduled # <<>>)
  /\ voices' = Scheduled
  /\ next' = next + Cardinality(Starting)
  /\ candidate' = [o \in Occurrence |-> NoCandidate]
  /\ cb' = IF Scheduled = <<>> THEN "end" ELSE "consider"
  /\ turn' = 1
  /\ UNCHANGED <<loaderVars, at, kept, hit, played, finished, heard, silenced, mixedUntil>>

--------------------------------------------------------------------------------
(* mix_chart_audio *)

ClipEnd(v) == v.start + Duration[Sound[v.key.asset]]

\* Mutant: a clip that has ended is still a candidate.
Eligible_Ended(v) ==
  /\ ~v.claimed /\ v.start < End
  /\ samples[v.key.asset] = "sound" /\ identity[v.key.asset] # 0

Eligible(v) ==
  /\ ~v.claimed /\ v.start < End
  /\ samples[v.key.asset] = "sound" /\ identity[v.key.asset] # 0
  /\ ClipEnd(v) > at

(* The order of the copies in a buffer: by start, then by place in the list.   *)
Before(c, d) == c.start < d.start \/ (c.start = d.start /\ c.turn < d.turn)

Entry(v, id) == [start |-> v.start, turn |-> turn, id |-> id]

NextTurn(after) ==
  IF turn = Len(voices)
  THEN cb' = after /\ turn' = 1
  ELSE turn' = turn + 1 /\ UNCHANGED cb

(* The earliest copy of an occurrence stands for it; its clip is pinned.       *)
Consider ==
  LET v == voices[turn]  o == v.key  id == identity[o.asset] IN
  /\ cb = "consider"
  /\ IF Eligible(v)
     THEN /\ voices' = [voices EXCEPT ![turn].pinned = id]
          /\ candidate' =
               IF o.gain # 0 /\ (candidate[o].id = 0 \/ Before(Entry(v, id), candidate[o]))
               THEN [candidate EXCEPT ![o] = Entry(v, id)]
               ELSE candidate
     ELSE UNCHANGED <<voices, candidate>>
  /\ NextTurn("mix")
  /\ UNCHANGED <<loaderVars, at, kept, next, hit, played, pending, transition,
                 finished, heard, silenced, mixedUntil>>

\* Mutant: what an earlier buffer played is forgotten.
Refused_InBuffer(v, id) ==
  \E o \in Occurrence :
    /\ o.at = v.key.at /\ o.gain = v.key.gain
    /\ candidate[o].id = id /\ Before(candidate[o], Entry(v, id))

(* ChartAudioDeduplicator::claim refuses a copy of what was played, or of what *)
(* an earlier candidate of this buffer is about to play.                       *)
Refused(v, id) ==
  \E o \in Occurrence :
    /\ o.at = v.key.at /\ o.gain = v.key.gain
    /\ \/ played[o] = id
       \/ candidate[o].id = id /\ Before(candidate[o], Entry(v, id))

Audible(v, id) == id # 0 /\ v.key.gain # 0

SoundOf(v) == <<v.key.at, Sound[v.key.asset], v.key.gain>>

(* The callback goes on to its next voice, or to its end, with the voice kept  *)
(* as v or dropped.                                                            *)
Keep(v) == kept' = Append(kept, v)
Drop == UNCHANGED kept

(* A clip not loaded yet is waited for, at most as long as it is estimated.    *)
MixMissing(v) ==
  /\ IF Bytes[v.key.asset] > 0 /\ v.start + Bytes[v.key.asset] <= at THEN Drop ELSE Keep(v)
  /\ UNCHANGED <<played, heard, silenced, mixedUntil>>

MixClip(v) ==
  LET claiming == ~v.claimed /\ v.start < End
      id == IF v.pinned # 0 THEN v.pinned ELSE identity[v.key.asset]
      sounds == v.start < End
  IN  IF claiming /\ Audible(v, id) /\ Refused(v, id)
      THEN /\ silenced' = silenced \cup {SoundOf(v)}
           /\ Drop
           /\ UNCHANGED <<played, heard, mixedUntil>>
      ELSE /\ IF claiming /\ Audible(v, id)
              THEN played' = [played EXCEPT ![v.key] = id]
              ELSE UNCHANGED played
           /\ IF claiming /\ v.key.gain # 0
              THEN heard' = [heard EXCEPT ![SoundOf(v)] = Smaller(@ + 1, 2)]
              ELSE UNCHANGED heard
           /\ mixedUntil' = IF sounds THEN Larger(mixedUntil, Smaller(ClipEnd(v), End))
                                      ELSE mixedUntil
           /\ IF ClipEnd(v) <= End THEN Drop ELSE Keep([v EXCEPT !.claimed = @ \/ claiming])
           /\ UNCHANGED silenced

Mix ==
  LET v == voices[turn]
      clip == IF v.pinned # 0 THEN "sound" ELSE samples[v.key.asset]
  IN
  /\ cb = "mix"
  /\ \/ clip = "null" /\ MixMissing(v)
     \/ clip = "empty" /\ Drop /\ UNCHANGED <<played, heard, silenced, mixedUntil>>
     \/ clip = "sound" /\ ClipEnd(v) <= at /\ Drop
        /\ UNCHANGED <<played, heard, silenced, mixedUntil>>
     \/ clip = "sound" /\ ClipEnd(v) > at /\ MixClip(v)
  /\ NextTurn("end")
  /\ UNCHANGED <<loaderVars, at, voices, next, hit, candidate, pending, transition,
                 finished>>

(* The rest of the callback: the play is finished when the result is due, at   *)
(* the playback head, and with play_to_end when no cue and no voice is left.   *)
EndBuffer ==
  /\ cb = "end"
  /\ cb' = "idle"
  /\ turn' = 0
  /\ kept' = <<>>
  /\ voices' = kept
  /\ at' = End
  /\ finished' = (/\ pending
                  /\ ~PlayToEnd \/ (next > Len(Bgm) /\ kept = <<>>)
                  /\ PlaybackHead >= transition)
  /\ UNCHANGED <<loaderVars, next, hit, played, candidate, pending, transition, heard,
                 silenced, mixedUntil>>

Callback ==
  \/ BeginBuffer
  \/ \E n \in DOMAIN Notes, start \in at..(End + Lookahead) : Hit(n, start)
  \/ Schedule \/ Consider \/ Mix \/ EndBuffer

--------------------------------------------------------------------------------
(* The session's thread: run() services the stream with the last committed     *)
(* sample; shutdown() stops the audio between two callbacks, then the loaders. *)

Serve == Service(at) /\ UNCHANGED mixVars

Shutdown ==
  /\ phase = "play" /\ cb = "idle"
  /\ phase' = "closing"
  /\ UNCHANGED <<cancelled, state, queue, stop, serviced, pc, job, found, registry,
                 samples, identity, mixVars>>

Session ==
  (Prepare \/ StartPlay \/ StopWorkers \/ Joined) /\ UNCHANGED mixVars

Loaders == (\E w \in Worker : Load(w)) /\ UNCHANGED mixVars

Cancel == CancelLoading /\ UNCHANGED mixVars

(* The end of the play, and its end at any other time: finished_ is also set   *)
(* at once by a stop request, a game over and, behind the last note, by Enter. *)
(* The session then shuts down whatever still sounds, as after the exit.       *)
Finish == finished /\ Shutdown
Abort == ~finished /\ Shutdown

Next == Callback \/ Serve \/ Session \/ Loaders \/ Cancel \/ Finish \/ Abort

Spec == Init /\ [][Next]_vars

(* The device keeps asking for buffers, the threads run, and files decode.     *)
FairSpec ==
  /\ Spec
  /\ WF_vars(Callback) /\ WF_vars(Serve) /\ WF_vars(Session) /\ WF_vars(Finish)
  /\ \A w \in Worker : WF_vars(Load(w) /\ UNCHANGED mixVars)

--------------------------------------------------------------------------------
(* Type correctness: a list never outgrows what can enter it.  A cue and a note *)
(* are one voice each, an asset is queued once, and an id stands for a sound of *)
(* the chart's files.                                                           *)
Place == 0..Larger(1, Len(Bgm) + Len(Notes))

Decoded == {Sound[a] : a \in Asset} \ {Broken}

Id == 0..Cardinality(Decoded)

VoiceType ==
  [start : Int, key : Occurrence, claimed : BOOLEAN, pinned : Id]

LoaderType ==
  /\ phase \in {"start", "loading", "play", "closing", "joining", "stopped"}
  /\ cancelled \in BOOLEAN /\ stop \in BOOLEAN
  /\ state \in [Asset -> {"Unloaded", "Queued", "Loading", "Ready", "Failed"}]
  /\ queue \in Seq(Asset) /\ Len(queue) <= Assets
  /\ serviced \in Int
  /\ pc \in [Worker -> {"awake", "asleep", "decoding", "decoded", "storing", "gone"}]
  /\ job \in [Worker -> 0..Assets]
  /\ found \in [Worker -> Id]
  /\ registry \in Seq(Decoded) /\ Len(registry) <= Cardinality(Decoded)
  /\ samples \in [Asset -> {"null", "empty", "sound"}]
  /\ identity \in [Asset -> Id]

MixType ==
  /\ at \in Nat
  /\ cb \in {"idle", "input", "consider", "mix", "end"}
  /\ turn \in Place
  /\ kept \in Seq(VoiceType) /\ voices \in Seq(VoiceType)
  /\ next \in 1..(Len(Bgm) + 1)
  /\ hit \subseteq DOMAIN Notes
  /\ played \in [Occurrence -> Id]
  /\ candidate \in [Occurrence -> [start : Int, turn : Place, id : Id]]
  /\ pending \in BOOLEAN /\ finished \in BOOLEAN
  /\ transition \in Int
  /\ heard \in [Heard -> 0..2]
  /\ silenced \subseteq Heard
  /\ mixedUntil \in Int

TypeOK == LoaderType /\ MixType

(* An audible sound the chart starts several times at one of its times, from   *)
(* cues, notes or copies of a file, is begun at most once, in whatever order   *)
(* its copies were struck, scheduled and decoded (ChartAudioDeduplicator).     *)
HeardOnce == \A h \in Heard : heard[h] <= 1

(* No copy is dropped for nothing: after a buffer in which one was refused,    *)
(* another with the same sound and gain has been begun.                        *)
DroppedForATwin == cb = "idle" => \A h \in silenced : heard[h] > 0

(* The play never starts with a sound of its first seconds still being loaded  *)
(* (wait_for_chart_audio_startup).                                             *)
StartsLoaded == phase = "play" => \A a \in Required : samples[a] # "null"

(* With play_to_end a finished play has been heard: everything mixed lies      *)
(* before the playback head at which it finished.                              *)
HeardToTheEnd == finished /\ PlayToEnd => mixedUntil <= PlaybackHead - Frames

(* A play ends and its threads are joined: no voice waits for ever for a clip  *)
(* that failed or that nobody loads, and no loader sleeps through the stop.    *)
PlayEnds == <>(phase = "stopped")

================================================================================
