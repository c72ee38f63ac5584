---------------------------- MODULE ChartAudioLoader ----------------------------
(* The streaming of a chart's sound files: GameSession's two loader threads,   *)
(* the queue they share with the session's thread under                        *)
(* chart_audio_stream_mutex_, and the decoded clips they publish to the audio  *)
(* callback, which takes no lock (GameSessionTail.inl, ChartAudioStreaming.h,  *)
(* ChartAudioDedup.h).                                                         *)
(*                                                                             *)
(* Abstracted: a file's PCM is a value of Pcm; decoding and the fingerprint    *)
(* comparison of the registry are what they decide; bytes are units.  A step   *)
(* between Lock and Unlock of the mutex is one action, except a publication:   *)
(* its two atomic stores are two, because the mixer reads between them.        *)
EXTENDS Integers, SequencesExt

CONSTANTS
  Worker,         \* the loader threads
  Assets,         \* chart_.audio_assets.size(); an asset is 1..Assets
  Pcm, Broken,    \* the decoded sounds, and a file that cannot be decoded
  Sound,          \* what each asset decodes to
  Bytes,          \* estimate_audio_decoded_bytes of each asset, 0 if unknown
  Bgm,            \* chart_.audio_cues: [at, asset, gain], sorted as the events
  Notes,          \* the notes' and the mines' sounds: [at, asset, gain]
  Offset,         \* config_.sound_offset_ms, which moves only the Bgm
  StartupWindow,  \* kChartAudioStartupWindowMs
  Prefetch,       \* kChartAudioPrefetchWindowMs
  ServiceStep,    \* kChartAudioServiceIntervalMs
  Budget          \* startup_preload_budget_bytes_

Asset == 1..Assets

ASSUME LoaderAssumption ==
  /\ Assets \in Nat \ {0}
  /\ Broken \notin Pcm
  /\ Sound \in [Asset -> Pcm \cup {Broken}]
  /\ Bytes \in [Asset -> Nat]
  /\ Bgm \in Seq([at : Nat, asset : Asset, gain : Nat])
  /\ Notes \in Seq([at : Nat, asset : Asset, gain : Nat])
  /\ \A i, j \in DOMAIN Bgm : i < j => Bgm[i].at <= Bgm[j].at
  /\ Offset \in Int
  /\ {StartupWindow, Prefetch, ServiceStep, Budget} \subseteq Nat

VARIABLES
  phase,     \* the session: start, loading, play, closing, joining, stopped
  cancelled, \* the load was given up (user_aborted_ during the load)
  state,     \* ChartAudioAsset::state
  queue,     \* chart_audio_load_queue_
  stop,      \* chart_audio_loader_stop_
  serviced,  \* last_chart_audio_service_sample_, Never before the first
  pc,        \* where each loader thread is
  job,       \* the asset each loader thread took, 0 for none
  found,     \* the identity it obtained, 0 if the decoding failed
  registry,  \* chart_audio_pcm_registry_: the sounds known, an id per position
  samples,   \* ChartAudioClip::samples: null, an empty vector, or the sound
  identity   \* ChartAudioClip::identity: 0 for null

loaderVars ==
  <<phase, cancelled, state, queue, stop, serviced, pc, job, found, registry,
    samples, identity>>

Never == -1

LoaderInit ==
  /\ phase = "start"
  /\ cancelled = FALSE
  /\ state = [a \in Asset |-> "Unloaded"]
  /\ queue = <<>>
  /\ stop = FALSE
  /\ serviced = Never
  /\ pc = [w \in Worker |-> "awake"]
  /\ job = [w \in Worker |-> 0]
  /\ found = [w \in Worker |-> 0]
  /\ registry = <<>>
  /\ samples = [a \in Asset |-> "null"]
  /\ identity = [a \in Asset |-> 0]

--------------------------------------------------------------------------------
(* The mutex and the condition variable.  A thread in the middle of a          *)
(* publication holds the mutex; notify_all wakes every sleeping loader.        *)

Unlocked == \A w \in Worker : pc[w] # "storing"

Notified == [w \in Worker |-> IF pc[w] = "asleep" THEN "awake" ELSE pc[w]]

--------------------------------------------------------------------------------
(* The startup plan.  What sounds inside the startup window is required; later *)
(* assets are queued in the order of their first use while the budget lasts.   *)

Uses(a) ==
  {Bgm[i].at + Offset : i \in {j \in DOMAIN Bgm : Bgm[j].asset = a}} \cup
  {Notes[i].at : i \in {j \in DOMAIN Notes : Notes[j].asset = a}}

LeastOf(S) == CHOOSE x \in S : \A y \in S : x <= y

Used == {a \in Asset : Uses(a) # {}}

FirstUse(a) == LeastOf(Uses(a))

Required == {a \in Used : FirstUse(a) <= StartupWindow}

Sooner(a, b) ==
  \/ FirstUse(a) < FirstUse(b)
  \/ FirstUse(a) = FirstUse(b) /\ a < b

SumBytes(S) == FoldSet(LAMBDA a, sum : Bytes[a] + sum, 0, S)

Affordable ==
  LET Afford(S, a) ==
        IF SumBytes(Required \cup S) + Bytes[a] > Budget THEN S ELSE S \cup {a}
  IN  FoldLeft(Afford, {}, SetToSortSeq(Used \ Required, Sooner))

StartupQueued == Required \cup Affordable

(* The loop over the assets, which meets those of S in the order of their ids. *)
ById(S) ==
  CHOOSE list \in [1..Cardinality(S) -> S] :
    \A i, j \in 1..Cardinality(S) : i < j => list[i] < list[j]

(* Enter the assets of S into the queue.                                       *)
Enqueue(S) ==
  /\ state' = [a \in Asset |-> IF a \in S THEN "Queued" ELSE state[a]]
  /\ queue' = queue \o ById(S)
  /\ pc' = IF S = {} THEN pc ELSE Notified

Prepare ==
  /\ phase = "start"
  /\ Unlocked
  /\ Enqueue({a \in Asset : a \in StartupQueued /\ state[a] = "Unloaded"})
  /\ phase' = "loading"
  /\ UNCHANGED <<cancelled, stop, serviced, job, found, registry, samples, identity>>

\* Mutant: the wait overlooks the assets a loader has already taken.
Pending_QueuedOnly == {a \in Required : state[a] = "Queued"}

Pending == {a \in Required : state[a] \in {"Queued", "Loading"}}

(* wait_for_chart_audio_startup looks again every 10 ms, woken or not.         *)
StartPlay ==
  /\ phase = "loading"
  /\ Unlocked
  /\ Pending = {}
  /\ phase' = "play"
  /\ UNCHANGED <<cancelled, state, queue, stop, serviced, pc, job, found, registry,
                 samples, identity>>

CancelLoading ==
  /\ phase = "loading"
  /\ phase' = "closing"
  /\ cancelled' = TRUE
  /\ UNCHANGED <<state, queue, stop, serviced, pc, job, found, registry, samples,
                 identity>>

--------------------------------------------------------------------------------
(* The session's loop: every ServiceStep samples, queue what starts within the *)
(* prefetch window of the last committed sample.                               *)

NextUses(a, now) == {s \in Uses(a) : now <= s}

Due(now) ==
  {a \in Asset : /\ state[a] = "Unloaded"
                 /\ NextUses(a, now) # {}
                 /\ LeastOf(NextUses(a, now)) <= now + Prefetch}

Service(now) ==
  /\ phase = "play"
  /\ serviced = Never \/ now >= serviced + ServiceStep
  /\ Unlocked
  /\ Enqueue(Due(now))
  /\ serviced' = now
  /\ UNCHANGED <<phase, cancelled, stop, job, found, registry, samples, identity>>

--------------------------------------------------------------------------------
(* A loader thread. *)

Sleep(w) ==
  /\ pc[w] = "awake" /\ ~stop /\ queue = <<>>
  /\ pc' = [pc EXCEPT ![w] = "asleep"]
  /\ UNCHANGED <<state, queue, job>>

Leave(w) ==
  /\ pc[w] \in {"awake", "decoded"} /\ stop
  /\ pc' = [pc EXCEPT ![w] = "gone"]
  /\ UNCHANGED <<state, queue, job>>

Take(w) ==
  /\ pc[w] = "awake" /\ ~stop /\ queue # <<>>
  /\ queue' = Tail(queue)
  /\ IF Head(queue) \in Asset /\ state[Head(queue)] = "Queued"
     THEN /\ state' = [state EXCEPT ![Head(queue)] = "Loading"]
          /\ job' = [job EXCEPT ![w] = Head(queue)]
          /\ pc' = [pc EXCEPT ![w] = "decoding"]
     ELSE UNCHANGED <<state, job, pc>>

WaitForWork(w) ==
  /\ Unlocked
  /\ Sleep(w) \/ Leave(w) \/ Take(w)
  /\ UNCHANGED <<phase, cancelled, stop, serviced, found, registry, samples, identity>>

(* Decode without the lock; ChartAudioPcmRegistry::intern gives equal sounds   *)
(* one id, under a mutex of its own.                                           *)
Ids(pcm) == {i \in DOMAIN registry : registry[i] = pcm}

\* Mutant: every decoded file is a sound of its own.
Intern_Fresh(pcm) == registry' = Append(registry, pcm)

Intern(pcm) ==
  registry' = IF Ids(pcm) # {} THEN registry ELSE Append(registry, pcm)

IdOf(pcm, known) == CHOOSE i \in DOMAIN known : known[i] = pcm

Decode(w) ==
  /\ pc[w] = "decoding"
  /\ pc' = [pc EXCEPT ![w] = "decoded"]
  /\ \/ /\ Sound[job[w]] = Broken
        /\ found' = [found EXCEPT ![w] = 0]
        /\ UNCHANGED registry
     \/ /\ Sound[job[w]] # Broken
        /\ Intern(Sound[job[w]])
        /\ found' = [found EXCEPT ![w] = IdOf(Sound[job[w]], registry')]
  /\ UNCHANGED <<phase, cancelled, state, queue, stop, serviced, job, samples, identity>>

\* Mutant: a file that cannot be decoded publishes nothing.
FirstStore_Nothing(w, a) ==
  IF found[w] # 0
  THEN identity' = [identity EXCEPT ![a] = found[w]] /\ UNCHANGED samples
  ELSE UNCHANGED <<samples, identity>>

(* Take the mutex again and store the first of the two halves: the identity of *)
(* a sound, or the empty vector that says the file failed for good.            *)
FirstStore(w, a) ==
  IF found[w] # 0
  THEN identity' = [identity EXCEPT ![a] = found[w]] /\ UNCHANGED samples
  ELSE samples' = [samples EXCEPT ![a] = "empty"] /\ UNCHANGED identity

SecondStore(w, a) ==
  IF found[w] # 0
  THEN samples' = [samples EXCEPT ![a] = "sound"] /\ UNCHANGED identity
  ELSE identity' = [identity EXCEPT ![a] = 0] /\ UNCHANGED samples

BeginPublish(w) ==
  /\ pc[w] = "decoded" /\ Unlocked /\ ~stop
  /\ IF job[w] \in Asset /\ state[job[w]] = "Loading"
     THEN /\ pc' = [pc EXCEPT ![w] = "storing"]
          /\ FirstStore(w, job[w])
     ELSE /\ pc' = [pc EXCEPT ![w] = "awake"]
          /\ UNCHANGED <<samples, identity>>
  /\ UNCHANGED <<phase, cancelled, state, queue, stop, serviced, job, found, registry>>

EndPublish(w) ==
  /\ pc[w] = "storing"
  /\ SecondStore(w, job[w])
  /\ state' = [state EXCEPT ![job[w]] = IF found[w] # 0 THEN "Ready" ELSE "Failed"]
  /\ pc' = [Notified EXCEPT ![w] = "awake"]
  /\ job' = [job EXCEPT ![w] = 0]
  /\ found' = [found EXCEPT ![w] = 0]
  /\ UNCHANGED <<phase, cancelled, queue, stop, serviced, registry>>

Load(w) == WaitForWork(w) \/ Decode(w) \/ BeginPublish(w) \/ EndPublish(w)

--------------------------------------------------------------------------------
(* stop_chart_audio_workers: raise the flag and empty the queue under the      *)
(* mutex, wake everybody, join, lower the flag.  A cancelled load forgets its  *)
(* assets as well.                                                             *)

StopWorkers ==
  /\ phase = "closing"
  /\ Unlocked
  /\ phase' = "joining"
  /\ stop' = TRUE
  /\ queue' = <<>>
  /\ pc' = Notified
  /\ UNCHANGED <<cancelled, state, serviced, job, found, registry, samples, identity>>

Joined ==
  /\ phase = "joining"
  /\ \A w \in Worker : pc[w] = "gone"
  /\ phase' = "stopped"
  /\ stop' = FALSE
  /\ IF cancelled
     THEN /\ state' = [a \in Asset |-> "Unloaded"]
          /\ samples' = [a \in Asset |-> "null"]
          /\ identity' = [a \in Asset |-> 0]
          /\ registry' = <<>>
     ELSE UNCHANGED <<state, samples, identity, registry>>
  /\ UNCHANGED <<cancelled, queue, serviced, pc, job, found>>

================================================================================
