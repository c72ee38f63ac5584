---------------------------- MODULE ChartAudioProofs ----------------------------
(* Proofs about ChartAudio, for every chart, any number of loader threads and   *)
(* every buffer size.                                                           *)
(*                                                                              *)
(* LoaderInv is about the loaders alone: the registry gives no sound two ids,   *)
(* no asset is loaded by two threads, and a clip that can be read carries the   *)
(* id of its sound.  MixInv is about the callback: whatever was heard has left  *)
(* its id with one of its occurrences, which refuses the next copy; with        *)
(* LoaderInv it gives HeardOnce.  TailInv says that while the result is         *)
(* pending everything mixed lies before the sample at which it is due; it gives *)
(* HeardToTheEnd.  TwinInv gives DroppedForATwin, StartInv StartsLoaded, and    *)
(* QueueInv, ListInv and IdInv bound the lists of TypeOK.                       *)
EXTENDS ChartAudio, FiniteSetTheorems, SequenceTheorems, TLAPS

--------------------------------------------------------------------------------
(* The loaders. *)

KnownIn(ids, id, pcm) == id \in DOMAIN ids /\ ids[id] = pcm
Known(id, pcm) == KnownIn(registry, id, pcm)

Busy(w) == pc[w] \in {"decoding", "decoded", "storing"}

LoaderTypes ==
  /\ pc \in [Worker -> {"awake", "asleep", "decoding", "decoded", "storing", "gone"}]
  /\ state \in [Asset -> {"Unloaded", "Queued", "Loading", "Ready", "Failed"}]
  /\ job \in [Worker -> 0..Assets]
  /\ found \in [Worker -> Nat]
  /\ registry \in Seq(Pcm)
  /\ samples \in [Asset -> {"null", "empty", "sound"}]
  /\ identity \in [Asset -> Nat]

OneIdEach ==
  \A i, j \in DOMAIN registry : registry[i] = registry[j] => i = j

OneLoaderEach ==
  /\ \A w \in Worker : Busy(w) => job[w] \in Asset /\ state[job[w]] = "Loading"
  /\ \A w, x \in Worker : Busy(w) /\ Busy(x) /\ job[w] = job[x] => w = x

FoundKnown ==
  \A w \in Worker : pc[w] \in {"decoded", "storing"} /\ found[w] # 0
                      => Known(found[w], Sound[job[w]])

HalfStored ==
  \A w \in Worker : pc[w] = "storing" =>
    IF found[w] # 0 THEN identity[job[w]] = found[w] ELSE samples[job[w]] = "empty"

ClipsKnown ==
  \A a \in Asset : /\ identity[a] # 0 => Known(identity[a], Sound[a])
                   /\ samples[a] = "sound" => identity[a] # 0

LoaderInv ==
  /\ LoaderTypes /\ OneIdEach /\ OneLoaderEach /\ FoundKnown /\ HalfStored /\ ClipsKnown

(* The session starts with nothing loaded. *)
LEMMA LoaderInitInv == Init => LoaderInv
  BY LoaderAssumption
  DEF Init, LoaderInit, LoaderInv, LoaderTypes, OneIdEach, OneLoaderEach, FoundKnown,
      HalfStored, ClipsKnown, Busy, Known, KnownIn

(* What a step may change for LoaderInv to survive without further argument:    *)
(* assets that nobody loads change their state, and sleepers wake or threads    *)
(* without a job sleep or leave.                                                *)
LEMMA QuietStep ==
  ASSUME LoaderInv,
         state' \in [Asset -> {"Unloaded", "Queued", "Loading", "Ready", "Failed"}],
         \A a \in Asset : state[a] = "Loading" => state'[a] = "Loading",
         pc' \in [Worker -> {"awake", "asleep", "decoding", "decoded", "storing", "gone"}],
         \A w \in Worker : Busy(w)' => pc'[w] = pc[w],
         UNCHANGED <<job, found, registry, samples, identity>>
  PROVE  LoaderInv'
  BY DEF LoaderInv, LoaderTypes, OneIdEach, OneLoaderEach, FoundKnown, HalfStored,
         ClipsKnown, Busy, Known, KnownIn

(* Queueing assets that are not loaded, by the session or at the start. *)
LEMMA EnqueueQuiet ==
  ASSUME LoaderInv, NEW S, \A a \in S : state[a] = "Unloaded", Enqueue(S),
         UNCHANGED <<job, found, registry, samples, identity>>
  PROVE  LoaderInv'
  <1>1. /\ state' \in [Asset -> {"Unloaded", "Queued", "Loading", "Ready", "Failed"}]
        /\ \A a \in Asset : state[a] = "Loading" => state'[a] = "Loading"
    BY DEF LoaderInv, LoaderTypes, Enqueue
  <1>2. /\ pc' \in [Worker -> {"awake", "asleep", "decoding", "decoded", "storing", "gone"}]
        /\ \A w \in Worker : Busy(w)' => pc'[w] = pc[w]
    BY DEF LoaderInv, LoaderTypes, Enqueue, Notified, Busy
  <1> QED BY <1>1, <1>2, QuietStep

(* The registry only grows while a file is interned: what is known stays known. *)
LEMMA InternKeeps ==
  ASSUME registry \in Seq(Pcm), OneIdEach, NEW pcm \in Pcm, Intern(pcm)
  PROVE  /\ registry' \in Seq(Pcm)
         /\ OneIdEach'
         /\ \A id, p : Known(id, p) => KnownIn(registry', id, p)
         /\ KnownIn(registry', IdOf(pcm, registry'), pcm)
         /\ IdOf(pcm, registry') \in Nat
  <1>1. CASE Ids(pcm) # {}
    <2>1. registry' = registry BY <1>1 DEF Intern
    <2>2. \E i \in DOMAIN registry : registry[i] = pcm BY <1>1 DEF Ids
    <2>3. IdOf(pcm, registry) \in DOMAIN registry /\ registry[IdOf(pcm, registry)] = pcm
      BY <2>2 DEF IdOf
    <2>4. DOMAIN registry = 1..Len(registry) /\ Len(registry) \in Nat OBVIOUS
    <2> QED BY <2>1, <2>3, <2>4 DEF Known, KnownIn, OneIdEach
  <1>2. CASE Ids(pcm) = {}
    <2>1. registry' = Append(registry, pcm) BY <1>2 DEF Intern
    <2>2. /\ registry' \in Seq(Pcm)
          /\ DOMAIN registry' = 1..(Len(registry) + 1)
          /\ \A i \in 1..Len(registry) : registry'[i] = registry[i]
          /\ registry'[Len(registry) + 1] = pcm
      BY <2>1
    <2>3. DOMAIN registry = 1..Len(registry) /\ Len(registry) \in Nat OBVIOUS
    <2>4. \A i \in DOMAIN registry : registry[i] # pcm BY <1>2 DEF Ids
    <2>5. OneIdEach' BY <2>2, <2>3, <2>4 DEF OneIdEach
    <2>6. \A id, p : Known(id, p) => KnownIn(registry', id, p) BY <2>2, <2>3 DEF Known, KnownIn
    <2>7. \E i \in DOMAIN registry' : registry'[i] = pcm BY <2>2, <2>3
    <2>8. IdOf(pcm, registry') \in DOMAIN registry' /\ registry'[IdOf(pcm, registry')] = pcm
      BY <2>7 DEF IdOf
    <2> QED BY <2>2, <2>3, <2>5, <2>6, <2>8 DEF Known, KnownIn
  <1> QED BY <1>1, <1>2

(* A thread that takes an asset is the only one to load it: nobody loads what   *)
(* is only queued.                                                              *)
LEMMA WaitStep ==
  ASSUME LoaderInv, NEW w \in Worker, WaitForWork(w)
  PROVE  LoaderInv'
  <1>1. CASE Sleep(w) \/ Leave(w)
    <2>1. /\ pc' \in [Worker -> {"awake", "asleep", "decoding", "decoded", "storing", "gone"}]
          /\ \A x \in Worker : Busy(x)' => pc'[x] = pc[x]
          /\ UNCHANGED <<state, job>>
      BY <1>1 DEF Sleep, Leave, Busy, LoaderInv, LoaderTypes
    <2> QED BY <2>1, QuietStep DEF WaitForWork, LoaderInv, LoaderTypes
  <1>2. CASE Take(w) /\ ~(Head(queue) \in Asset /\ state[Head(queue)] = "Queued")
    <2>1. UNCHANGED <<state, job, pc>> BY <1>2 DEF Take
    <2> QED BY <2>1, QuietStep DEF WaitForWork, LoaderInv, LoaderTypes, Busy
  <1>3. CASE Take(w) /\ Head(queue) \in Asset /\ state[Head(queue)] = "Queued"
    <2> DEFINE a == Head(queue)
    <2> HIDE DEF a
    <2>1. /\ a \in Asset /\ state[a] = "Queued" /\ pc[w] = "awake"
          /\ state' = [state EXCEPT ![a] = "Loading"]
          /\ job' = [job EXCEPT ![w] = a]
          /\ pc' = [pc EXCEPT ![w] = "decoding"]
          /\ UNCHANGED <<found, registry, samples, identity>>
      BY <1>3 DEF Take, WaitForWork, a
    <2>2. \A x \in Worker : Busy(x) => job[x] # a
      BY <2>1 DEF LoaderInv, OneLoaderEach
    <2>3. LoaderTypes' BY <2>1 DEF LoaderInv, LoaderTypes, Asset
    <2>4. OneLoaderEach' BY <2>1, <2>2 DEF LoaderInv, LoaderTypes, OneLoaderEach, Busy
    <2>5. /\ OneIdEach' /\ FoundKnown' /\ HalfStored' /\ ClipsKnown'
      BY <2>1 DEF LoaderInv, LoaderTypes, OneIdEach, FoundKnown, HalfStored, ClipsKnown, Known, KnownIn
    <2> QED BY <2>3, <2>4, <2>5 DEF LoaderInv
  <1> QED BY <1>1, <1>2, <1>3 DEF WaitForWork

(* Decoding gives the thread the id of its asset's sound. *)
LEMMA DecodeStep ==
  ASSUME LoaderInv, NEW w \in Worker, Decode(w)
  PROVE  LoaderInv' /\ \A id, p : Known(id, p) => KnownIn(registry', id, p)
  <1>1. /\ pc[w] = "decoding" /\ pc' = [pc EXCEPT ![w] = "decoded"]
        /\ UNCHANGED <<state, job, samples, identity>>
    BY DEF Decode
  <1>2. OneLoaderEach' /\ job[w] \in Asset
    BY <1>1 DEF LoaderInv, LoaderTypes, OneLoaderEach, Busy
  <1>3. CASE Sound[job[w]] = Broken
    <2>1. found' = [found EXCEPT ![w] = 0] /\ UNCHANGED registry BY <1>3 DEF Decode
    <2> QED
      BY <1>1, <1>2, <2>1
      DEF LoaderInv, LoaderTypes, OneIdEach, FoundKnown, HalfStored, ClipsKnown, Known, KnownIn
  <1>4. CASE Sound[job[w]] # Broken
    <2>1. /\ Intern(Sound[job[w]])
          /\ found' = [found EXCEPT ![w] = IdOf(Sound[job[w]], registry')]
      BY <1>4 DEF Decode
    <2>2. Sound[job[w]] \in Pcm BY <1>2, <1>4, LoaderAssumption
    <2>3. /\ registry' \in Seq(Pcm)
          /\ OneIdEach'
          /\ \A id, p : Known(id, p) => KnownIn(registry', id, p)
          /\ KnownIn(registry', IdOf(Sound[job[w]], registry'), Sound[job[w]])
          /\ IdOf(Sound[job[w]], registry') \in Nat
      BY <2>1, <2>2, InternKeeps DEF LoaderInv, LoaderTypes
    <2>4. LoaderTypes' BY <1>1, <2>1, <2>3 DEF LoaderInv, LoaderTypes
    <2>5. FoundKnown'
      <3> SUFFICES ASSUME NEW x \in Worker, pc'[x] \in {"decoded", "storing"}, found'[x] # 0
                   PROVE  KnownIn(registry', found'[x], Sound[job'[x]])
        BY DEF FoundKnown, Known, KnownIn
      <3>1. CASE x = w BY <3>1, <1>1, <2>1, <2>3 DEF LoaderInv, LoaderTypes, Known, KnownIn
      <3>2. CASE x # w
        <4>1. Known(found[x], Sound[job[x]])
          BY <3>2, <1>1, <2>1 DEF LoaderInv, LoaderTypes, FoundKnown
        <4> QED BY <4>1, <3>2, <1>1, <2>1, <2>3 DEF LoaderInv, LoaderTypes, Known, KnownIn
      <3> QED BY <3>1, <3>2
    <2>6. HalfStored' BY <1>1, <2>1 DEF LoaderInv, LoaderTypes, HalfStored
    <2>7. ClipsKnown'
      BY <1>1, <2>3 DEF LoaderInv, LoaderTypes, ClipsKnown, Known, KnownIn
    <2> QED BY <1>2, <2>3, <2>4, <2>5, <2>6, <2>7 DEF LoaderInv
  <1> QED BY <1>3, <1>4

(* The first store of a publication: the identity before the sound. *)
LEMMA BeginPublishStep ==
  ASSUME LoaderInv, NEW w \in Worker, BeginPublish(w)
  PROVE  LoaderInv'
  <1>1. /\ pc[w] = "decoded" /\ job[w] \in Asset /\ state[job[w]] = "Loading"
        /\ pc' = [pc EXCEPT ![w] = "storing"]
        /\ FirstStore(w, job[w])
        /\ UNCHANGED <<state, job, found, registry>>
    BY DEF BeginPublish, LoaderInv, OneLoaderEach, Busy
  <1>2. LoaderTypes'
    <2>1. /\ samples' \in [Asset -> {"null", "empty", "sound"}]
          /\ identity' \in [Asset -> Nat]
      <3>1. CASE found[w] # 0 BY <3>1, <1>1 DEF LoaderInv, LoaderTypes, FirstStore
      <3>2. CASE found[w] = 0 BY <3>2, <1>1 DEF LoaderInv, LoaderTypes, FirstStore
      <3> QED BY <3>1, <3>2
    <2> QED BY <1>1, <2>1 DEF LoaderInv, LoaderTypes
  <1>3. OneIdEach' /\ OneLoaderEach' /\ FoundKnown'
    BY <1>1 DEF LoaderInv, LoaderTypes, OneIdEach, OneLoaderEach, FoundKnown, Busy, Known, KnownIn
  <1>4. \A x \in Worker : pc'[x] = "storing" => x = w
    BY <1>1 DEF BeginPublish, Unlocked, LoaderInv, LoaderTypes
  <1>5. HalfStored'
    BY <1>1, <1>4 DEF LoaderInv, LoaderTypes, HalfStored, FirstStore
  <1>6. ClipsKnown'
    <2>1. found[w] # 0 => Known(found[w], Sound[job[w]])
      BY <1>1 DEF LoaderInv, FoundKnown
    <2> QED BY <1>1, <2>1 DEF LoaderInv, LoaderTypes, ClipsKnown, FirstStore, Known, KnownIn
  <1> QED BY <1>2, <1>3, <1>5, <1>6 DEF LoaderInv

(* The second store: the sound, when its identity is there. *)
LEMMA EndPublishStep ==
  ASSUME LoaderInv, NEW w \in Worker, EndPublish(w)
  PROVE  LoaderInv'
  <1>1. /\ pc[w] = "storing" /\ SecondStore(w, job[w])
        /\ state' = [state EXCEPT ![job[w]] = IF found[w] # 0 THEN "Ready" ELSE "Failed"]
        /\ pc' = [Notified EXCEPT ![w] = "awake"]
        /\ job' = [job EXCEPT ![w] = 0]
        /\ found' = [found EXCEPT ![w] = 0]
        /\ UNCHANGED registry
    BY DEF EndPublish
  <1>2. job[w] \in Asset /\ \A x \in Worker : x # w /\ Busy(x) => job[x] # job[w]
    BY <1>1 DEF LoaderInv, OneLoaderEach, Busy
  <1>3. LoaderTypes'
    <2>1. /\ pc' \in [Worker -> {"awake", "asleep", "decoding", "decoded", "storing", "gone"}]
          /\ state' \in [Asset -> {"Unloaded", "Queued", "Loading", "Ready", "Failed"}]
      BY <1>1, <1>2 DEF LoaderInv, LoaderTypes, Notified
    <2>2. job' \in [Worker -> 0..Assets] /\ found' \in [Worker -> Nat]
      BY <1>1, LoaderAssumption DEF LoaderInv, LoaderTypes
    <2>3. /\ samples' \in [Asset -> {"null", "empty", "sound"}]
          /\ identity' \in [Asset -> Nat]
      <3>1. CASE found[w] # 0 BY <3>1, <1>1, <1>2 DEF LoaderInv, LoaderTypes, SecondStore
      <3>2. CASE found[w] = 0 BY <3>2, <1>1, <1>2 DEF LoaderInv, LoaderTypes, SecondStore
      <3> QED BY <3>1, <3>2
    <2> QED BY <1>1, <2>1, <2>2, <2>3 DEF LoaderInv, LoaderTypes
  <1>4. OneIdEach' BY <1>1 DEF LoaderInv, OneIdEach
  <1>5. \A x \in Worker : x # w => pc'[x] = Notified[x] /\ job'[x] = job[x] /\ found'[x] = found[x]
    BY <1>1 DEF LoaderInv, LoaderTypes, Notified
  <1>6. pc'[w] = "awake" BY <1>1 DEF LoaderInv, LoaderTypes, Notified
  <1>7. \A x \in Worker : Busy(x)' => x # w /\ pc'[x] = pc[x] /\ Busy(x)
    BY <1>5, <1>6 DEF Busy, Notified
  <1>8. OneLoaderEach'
    BY <1>1, <1>2, <1>5, <1>7 DEF LoaderInv, LoaderTypes, OneLoaderEach
  <1>9. FoundKnown'
    BY <1>1, <1>5, <1>7 DEF LoaderInv, FoundKnown, Known, KnownIn, Busy
  <1>10. HalfStored'
    <2> SUFFICES ASSUME NEW x \in Worker, pc'[x] = "storing"
                 PROVE  IF found'[x] # 0 THEN identity'[job'[x]] = found'[x]
                                         ELSE samples'[job'[x]] = "empty"
      BY DEF HalfStored
    <2>1. x # w /\ pc[x] = "storing" /\ job[x] # job[w] /\ job[x] \in Asset
      BY <1>2, <1>7 DEF Busy, LoaderInv, OneLoaderEach
    <2> QED
      BY <1>1, <1>5, <2>1 DEF LoaderInv, LoaderTypes, HalfStored, SecondStore
  <1>11. ClipsKnown'
    <2>1. found[w] # 0 => identity[job[w]] = found[w]
      BY <1>1 DEF LoaderInv, HalfStored
    <2>2. found[w] = 0 => samples[job[w]] = "empty"
      BY <1>1 DEF LoaderInv, HalfStored
    <2> QED
      BY <1>1, <1>2, <2>1, <2>2 DEF LoaderInv, LoaderTypes, ClipsKnown, SecondStore, Known, KnownIn
  <1> QED BY <1>3, <1>4, <1>8, <1>9, <1>10, <1>11 DEF LoaderInv

(* The join finds every thread gone, so that the assets can be forgotten. *)
LEMMA JoinedStep == ASSUME LoaderInv, Joined PROVE LoaderInv'
  <1>1. \A w \in Worker : pc[w] = "gone" /\ pc'[w] = "gone" BY DEF Joined
  <1>2. CASE cancelled
    <2>1. /\ state' = [a \in Asset |-> "Unloaded"]
          /\ samples' = [a \in Asset |-> "null"]
          /\ identity' = [a \in Asset |-> 0]
          /\ registry' = <<>>
          /\ UNCHANGED <<pc, job, found>>
      BY <1>2 DEF Joined
    <2> QED
      BY <1>1, <2>1 DEF LoaderInv, LoaderTypes, OneIdEach, OneLoaderEach, FoundKnown,
         HalfStored, ClipsKnown, Busy
  <1>3. CASE ~cancelled
    BY <1>1, <1>3, QuietStep DEF Joined, LoaderInv, LoaderTypes
  <1> QED BY <1>2, <1>3

(* Every loader step, of whatever thread. *)
LEMMA LoadStep ==
  ASSUME LoaderInv, NEW w \in Worker, Load(w)
  PROVE  LoaderInv'
  BY WaitStep, DecodeStep, BeginPublishStep, EndPublishStep DEF Load

(* LoaderInv is inductive: no step of the session, the callback or the loaders  *)
(* breaks it.                                                                   *)
LEMMA LoaderStep == LoaderInv /\ [Next]_vars => LoaderInv'
  <1> SUFFICES ASSUME LoaderInv, [Next]_vars PROVE LoaderInv'
    OBVIOUS
  <1>1. CASE UNCHANGED loaderVars
    BY <1>1, QuietStep DEF loaderVars, LoaderInv, LoaderTypes, Busy
  <1>2. CASE UNCHANGED vars BY <1>1, <1>2 DEF vars
  <1>3. CASE Callback
    BY <1>1, <1>3
    DEF Callback, BeginBuffer, Hit, Schedule, Consider, Mix, EndBuffer
  <1>4. CASE Serve
    <2>1. \A a \in Due(at) : state[a] = "Unloaded" BY DEF Due
    <2> QED BY <1>4, <2>1, EnqueueQuiet DEF Serve, Service
  <1>5. CASE Session
    <2>1. CASE Prepare
      <3>1. \A a \in {b \in Asset : b \in StartupQueued /\ state[b] = "Unloaded"} :
              state[a] = "Unloaded"
        OBVIOUS
      <3> QED BY <2>1, <3>1, EnqueueQuiet DEF Prepare
    <2>2. CASE StartPlay
      BY <2>2, QuietStep DEF StartPlay, LoaderInv, LoaderTypes, Busy
    <2>3. CASE StopWorkers
      BY <2>3, QuietStep DEF StopWorkers, LoaderInv, LoaderTypes, Busy, Notified
    <2>4. CASE Joined BY <2>4, JoinedStep
    <2> QED BY <1>5, <2>1, <2>2, <2>3, <2>4 DEF Session
  <1>6. CASE Loaders BY <1>6, LoadStep DEF Loaders
  <1>7. CASE Cancel
    BY <1>7, QuietStep DEF Cancel, CancelLoading, LoaderInv, LoaderTypes, Busy
  <1>8. CASE Finish \/ Abort
    BY <1>8, QuietStep DEF Finish, Abort, Shutdown, LoaderInv, LoaderTypes, Busy
  <1> QED BY <1>2, <1>3, <1>4, <1>5, <1>6, <1>7, <1>8 DEF Next

--------------------------------------------------------------------------------
(* The callback. *)

VoiceSet == [start : Int, key : Occurrence, claimed : BOOLEAN, pinned : Nat]

MixTypes ==
  /\ at \in Nat
  /\ voices \in Seq(VoiceSet)
  /\ kept \in Seq(VoiceSet)
  /\ next \in 1..(Len(Bgm) + 1)
  /\ played \in [Occurrence -> Nat]
  /\ heard \in [Heard -> 0..2]
  /\ cb \in {"consider", "mix"} => turn \in 1..Len(voices)

(* Before the play, and after a load that was given up, nothing was played. *)
Silence ==
  /\ cb # "idle" => phase = "play"
  /\ phase \in {"start", "loading", "play"} => ~cancelled
  /\ phase \in {"start", "loading"} \/ cancelled =>
       voices = <<>> /\ kept = <<>> /\ \A o \in Occurrence : played[o] = 0

PinnedKnown(list) ==
  \A i \in DOMAIN list :
    list[i].pinned # 0 => Known(list[i].pinned, Sound[list[i].key.asset])

PlayedKnown == \A o \in Occurrence : played[o] # 0 => Known(played[o], Sound[o.asset])

(* What was heard has left its id with one of its occurrences. *)
Witnessed ==
  \A h \in Heard : heard[h] # 0 =>
    \E o \in Occurrence :
      <<o.at, Sound[o.asset], o.gain>> = h /\ o.gain # 0 /\ played[o] # 0

MixInv ==
  /\ MixTypes /\ Silence /\ PinnedKnown(voices) /\ PinnedKnown(kept)
  /\ PlayedKnown /\ Witnessed /\ HeardOnce

(* The elements of a sequence are of its kind. *)
LEMMA ElementOf ==
  ASSUME NEW S, NEW list \in Seq(S)
  PROVE  \A i \in DOMAIN list : list[i] \in S
  OBVIOUS

(* An occurrence is a chart time, an asset of the chart, a kind and a gain. *)
LEMMA OccurrenceType ==
  Occurrence \subseteq [at : Nat, asset : Asset, kind : {"bgm", "key"}, gain : Nat]
  <1> DEFINE Cues == [at : Nat, asset : Asset, gain : Nat]
  <1>0. Bgm \in Seq(Cues) /\ Notes \in Seq(Cues) BY LoaderAssumption
  <1>1. \A i \in DOMAIN Bgm : Bgm[i] \in Cues BY ONLY <1>0, ElementOf
  <1>2. \A i \in DOMAIN Notes : Notes[i] \in Cues BY ONLY <1>0, ElementOf
  <1>3. \A c \in Cues, kind \in {"bgm", "key"} :
          Key(c, kind) \in [at : Nat, asset : Asset, kind : {"bgm", "key"}, gain : Nat]
    BY DEF Key
  <1> HIDE DEF Cues
  <1> QED BY <1>1, <1>2, <1>3 DEF Occurrence

(* Nothing is heard before the play. *)
LEMMA MixInitInv == Init => MixInv
  BY LoaderAssumption
  DEF Init, LoaderInit, MixInv, MixTypes, Silence, PinnedKnown, PlayedKnown, Witnessed,
      HeardOnce

(* MixInv only depends on the session through what is known and on its phase:   *)
(* a step that leaves the callback alone preserves it when the ids stay valid.  *)
LEMMA OutsideStep ==
  ASSUME MixInv, UNCHANGED mixVars, Silence',
         \A id, p : Known(id, p) => KnownIn(registry', id, p)
  PROVE  MixInv'
  BY DEF MixInv, mixVars, MixTypes, PinnedKnown, PlayedKnown, Witnessed, HeardOnce, Known

(* A join that forgets the assets comes after a cancelled load, when there was  *)
(* no play: there is no id to lose.                                             *)
LEMMA JoinedOutside ==
  ASSUME MixInv, Joined, UNCHANGED mixVars
  PROVE  MixInv'
  <1>1. Silence' BY DEF MixInv, Silence, Joined, mixVars
  <1>2. CASE cancelled
    <2>1. voices = <<>> /\ kept = <<>> /\ \A o \in Occurrence : played[o] = 0
      BY <1>2 DEF MixInv, Silence
    <2>2. /\ MixTypes' /\ Witnessed' /\ HeardOnce' /\ PlayedKnown'
          /\ voices' = <<>> /\ kept' = <<>>
      BY <2>1 DEF MixInv, MixTypes, Witnessed, HeardOnce, PlayedKnown, mixVars
    <2> QED BY <1>1, <2>2 DEF MixInv, PinnedKnown
  <1>3. CASE ~cancelled
    BY <1>1, <1>3, OutsideStep DEF Joined, Known
  <1> QED BY <1>2, <1>3

(* A note's sound is a voice without a clip. *)
LEMMA HitStep ==
  ASSUME MixInv, NEW n \in DOMAIN Notes, NEW start \in at..(End + Lookahead), Hit(n, start)
  PROVE  MixInv'
  <1>1. Voice(Notes[n], "key", start) \in VoiceSet
    BY ChartAudioAssumption DEF Voice, VoiceSet, Occurrence, End, MixInv, MixTypes
  <1>2. voices' = Append(voices, Voice(Notes[n], "key", start)) BY DEF Hit
  <1>3. voices' \in Seq(VoiceSet) BY <1>1, <1>2 DEF MixInv, MixTypes
  <1>4. PinnedKnown(voices)'
    BY <1>1, <1>2 DEF MixInv, MixTypes, PinnedKnown, Voice, Hit, loaderVars, Known
  <1> QED
    BY <1>3, <1>4
    DEF Hit, loaderVars, MixInv, MixTypes, Silence, PinnedKnown, PlayedKnown, Witnessed,
        HeardOnce, Known

(* The cues that start in a buffer are the next ones of the chart. *)
LEMMA ScheduledType ==
  ASSUME MixInv
  PROVE  /\ Scheduled \in Seq(VoiceSet)
         /\ Len(Scheduled) >= Len(voices)
         /\ Len(Scheduled) = Len(voices) + Cardinality(Starting)
         /\ Cardinality(Starting) \in Nat
         /\ \A i \in 1..Len(voices) : Scheduled[i] = voices[i]
         /\ \A i \in DOMAIN Scheduled : i \notin 1..Len(voices) => Scheduled[i].pinned = 0
         /\ next + Cardinality(Starting) \in 1..(Len(Bgm) + 1)
  <1> DEFINE n == Cardinality(Starting)
             new == [j \in 1..n |-> LET cue == Bgm[next + j - 1]
                                    IN  Voice(cue, "bgm", cue.at + Offset)]
  <1>1. Len(Bgm) \in Nat /\ DOMAIN Bgm = 1..Len(Bgm) BY LoaderAssumption
  <1>2. next \in 1..(Len(Bgm) + 1) BY DEF MixInv, MixTypes
  <1>3. Starting \subseteq next..Len(Bgm) BY <1>1, <1>2 DEF Starting
  <1>4. IsFiniteSet(next..Len(Bgm)) /\ Cardinality(next..Len(Bgm)) = Len(Bgm) - next + 1
    <2>1. next \in Int /\ Len(Bgm) \in Int /\ next <= Len(Bgm) + 1 BY <1>1, <1>2
    <2>2. /\ IsFiniteSet(next..Len(Bgm))
          /\ Cardinality(next..Len(Bgm)) =
               IF next > Len(Bgm) THEN 0 ELSE Len(Bgm) - next + 1
      BY ONLY <2>1, FS_Interval
    <2> QED BY ONLY <2>1, <2>2
  <1>5. n \in Nat /\ n <= Len(Bgm) - next + 1
    <2>1. IsFiniteSet(Starting) /\ n <= Cardinality(next..Len(Bgm))
      BY ONLY <1>3, <1>4, FS_Subset
    <2>2. n \in Nat BY ONLY <2>1, FS_CardinalityType
    <2> QED BY <1>4, <2>1, <2>2
  <1>6. \A j \in 1..n : next + j - 1 \in DOMAIN Bgm
    BY <1>1, <1>2, <1>5
  <1>7. \A i \in DOMAIN Bgm : Voice(Bgm[i], "bgm", Bgm[i].at + Offset) \in VoiceSet
    <2>0. Bgm \in Seq([at : Nat, asset : Asset, gain : Nat]) /\ Offset \in Int
      BY LoaderAssumption
    <2>a. \A i \in DOMAIN Bgm : Bgm[i] \in [at : Nat, asset : Asset, gain : Nat]
      BY ONLY <2>0, ElementOf
    <2>1. \A i \in DOMAIN Bgm : Bgm[i].at + Offset \in Int
      BY <2>0, <2>a
    <2>2. \A i \in DOMAIN Bgm : Key(Bgm[i], "bgm") \in Occurrence BY DEF Occurrence
    <2> QED BY <2>1, <2>2 DEF Voice, VoiceSet
  <1>8. new \in Seq(VoiceSet) /\ Len(new) = n
    <2>1. \A j \in 1..n : new[j] \in VoiceSet BY <1>6, <1>7
    <2> QED BY <2>1, <1>5, IsASeq
  <1>9. \A j \in 1..n : new[j].pinned = 0 BY DEF Voice
  <1>10. Scheduled = voices \o new BY DEF Scheduled
  <1>11. voices \in Seq(VoiceSet) /\ Len(voices) \in Nat BY DEF MixInv, MixTypes
  <1> HIDE DEF new, n
  <1>12. Scheduled \in Seq(VoiceSet) /\ Len(Scheduled) = Len(voices) + n
    BY <1>8, <1>10, <1>11, ConcatProperties
  <1>13. \A i \in 1..Len(voices) : Scheduled[i] = voices[i]
    BY <1>5, <1>8, <1>10, <1>11
  <1>14. \A i \in DOMAIN Scheduled : i \notin 1..Len(voices) => Scheduled[i].pinned = 0
    <2> SUFFICES ASSUME NEW i \in DOMAIN Scheduled, i \notin 1..Len(voices)
                 PROVE  Scheduled[i].pinned = 0
      OBVIOUS
    <2>1. i \in (Len(voices) + 1)..(Len(voices) + n) BY <1>5, <1>11, <1>12
    <2>2. Scheduled[i] = new[i - Len(voices)] BY <2>1, <1>5, <1>8, <1>10, <1>11
    <2>3. i - Len(voices) \in 1..n BY <2>1, <1>5, <1>11
    <2> QED BY <2>2, <2>3, <1>9
  <1>15. next + n \in 1..(Len(Bgm) + 1) BY <1>1, <1>2, <1>5
  <1> QED BY <1>5, <1>11, <1>12, <1>13, <1>14, <1>15 DEF n

(* Scheduling adds voices without a clip. *)
LEMMA ScheduleStep == ASSUME MixInv, Schedule PROVE MixInv'
  <1>1. voices' = Scheduled /\ next' = next + Cardinality(Starting) /\ turn' = 1
    BY DEF Schedule
  <1>2. cb' = "consider" => Len(Scheduled) # 0
    BY ScheduledType DEF Schedule
  <1>3. Len(Scheduled) \in Nat BY ScheduledType
  <1>4. MixTypes'
    BY <1>1, <1>2, <1>3, ScheduledType DEF Schedule, MixInv, MixTypes
  <1>5. PinnedKnown(voices)'
    <2> SUFFICES ASSUME NEW i \in DOMAIN Scheduled, Scheduled[i].pinned # 0
                 PROVE  Known(Scheduled[i].pinned, Sound[Scheduled[i].key.asset])
      BY <1>1 DEF PinnedKnown, Schedule, loaderVars, Known
    <2>1. i \in 1..Len(voices) /\ Scheduled[i] = voices[i] BY ScheduledType
    <2> QED BY <2>1 DEF MixInv, MixTypes, PinnedKnown
  <1>6. Silence' BY DEF MixInv, Silence, Schedule, loaderVars
  <1> QED
    BY <1>4, <1>5, <1>6
    DEF Schedule, loaderVars, MixInv, PinnedKnown, PlayedKnown, Witnessed, HeardOnce, Known

(* The voice the callback has come to. *)
LEMMA TurnType ==
  ASSUME MixInv, cb \in {"consider", "mix"}
  PROVE  /\ turn \in DOMAIN voices
         /\ voices[turn] \in VoiceSet
         /\ voices[turn].key.asset \in Asset
  <1>1. turn \in DOMAIN voices /\ voices[turn] \in VoiceSet BY DEF MixInv, MixTypes
  <1>2. voices[turn].key \in Occurrence BY <1>1 DEF VoiceSet
  <1> QED BY <1>1, <1>2, OccurrenceType

(* A turn leaves the next one within the list. *)
LEMMA NextTurnType ==
  ASSUME MixInv, cb \in {"consider", "mix"}, NEW after \in {"mix", "end"},
         NextTurn(after), Len(voices') = Len(voices)
  PROVE  cb' \in {"consider", "mix"} => turn' \in 1..Len(voices')
  <1>1. turn \in 1..Len(voices) /\ Len(voices) \in Nat BY DEF MixInv, MixTypes
  <1> QED BY <1>1 DEF NextTurn

(* The clip a candidate pins is that of its sound. *)
LEMMA ConsiderStep == ASSUME LoaderInv, MixInv, Consider PROVE MixInv'
  <1> DEFINE v == voices[turn]
             id == identity[v.key.asset]
  <1>1. cb = "consider" /\ NextTurn("mix") BY DEF Consider
  <1>2. turn \in DOMAIN voices /\ v \in VoiceSet /\ v.key.asset \in Asset
    BY <1>1, TurnType
  <1>3. \/ voices' = [voices EXCEPT ![turn].pinned = id] /\ Eligible(v)
        \/ voices' = voices
    BY DEF Consider
  <1>4. id \in Nat /\ (id # 0 => Known(id, Sound[v.key.asset]))
    BY <1>2 DEF LoaderInv, LoaderTypes, ClipsKnown
  <1> HIDE DEF id
  <1>5. voices' \in Seq(VoiceSet) /\ Len(voices') = Len(voices)
        /\ \A i \in DOMAIN voices' : /\ voices'[i].key = voices[i].key
                                     /\ \/ voices'[i].pinned = voices[i].pinned
                                        \/ i = turn /\ voices'[i].pinned = id
    <2>1. CASE voices' = voices BY <2>1 DEF MixInv, MixTypes
    <2>2. CASE voices' = [voices EXCEPT ![turn].pinned = id]
      <3>1. voices' = [voices EXCEPT ![turn] = [v EXCEPT !.pinned = id]] BY <2>2
      <3>2. [v EXCEPT !.pinned = id] \in VoiceSet /\ [v EXCEPT !.pinned = id].key = v.key
            /\ [v EXCEPT !.pinned = id].pinned = id
        BY <1>2, <1>4 DEF VoiceSet
      <3> QED BY <1>2, <3>1, <3>2 DEF MixInv, MixTypes
    <2> QED BY <1>3, <2>1, <2>2
  <1>6. cb' \in {"consider", "mix"} => turn' \in 1..Len(voices')
    BY <1>1, <1>5, NextTurnType
  <1>7. UNCHANGED <<loaderVars, at, kept, next, played, heard>> BY DEF Consider
  <1>8. MixTypes' BY <1>5, <1>6, <1>7 DEF MixInv, MixTypes
  <1>9. PinnedKnown(voices)'
    <2> SUFFICES ASSUME NEW i \in DOMAIN voices', voices'[i].pinned # 0
                 PROVE  KnownIn(registry', voices'[i].pinned, Sound[voices'[i].key.asset])
      BY DEF PinnedKnown, Known
    <2>1. DOMAIN voices' = DOMAIN voices BY <1>5 DEF MixInv, MixTypes
    <2>2. Known(voices'[i].pinned, Sound[voices'[i].key.asset])
      BY <1>4, <1>5, <2>1 DEF MixInv, PinnedKnown
    <2> QED BY <2>2, <1>7 DEF Known, loaderVars
  <1>10. Silence'
    BY <1>1, <1>3, <1>7 DEF MixInv, Silence, Consider, loaderVars, NextTurn
  <1> QED
    BY <1>7, <1>8, <1>9, <1>10
    DEF loaderVars, MixInv, PinnedKnown, PlayedKnown, Witnessed, HeardOnce, Known

(* A kept voice keeps its clip. *)
LEMMA KeptType ==
  ASSUME MixInv, UNCHANGED registry, NEW v \in VoiceSet,
         v.pinned # 0 => Known(v.pinned, Sound[v.key.asset]),
         Keep(v) \/ Drop
  PROVE  kept' \in Seq(VoiceSet) /\ PinnedKnown(kept)'
  <1>1. CASE Drop BY <1>1 DEF Drop, MixInv, MixTypes, PinnedKnown, Known
  <1>2. CASE Keep(v)
    <2>1. kept' = Append(kept, v) /\ kept \in Seq(VoiceSet)
      BY <1>2 DEF Keep, MixInv, MixTypes
    <2>2. /\ kept' \in Seq(VoiceSet)
          /\ \A i \in DOMAIN kept' : (i \in DOMAIN kept /\ kept'[i] = kept[i]) \/ kept'[i] = v
      BY <2>1
    <2> QED BY <2>2 DEF MixInv, PinnedKnown, Known
  <1> QED BY <1>1, <1>2

(* The heart of HeardOnce.  A sound that was heard has an occurrence that was   *)
(* played with its id; no other sound has this id, and so claim refuses every   *)
(* further copy.                                                                *)
LEMMA HeardIsRefused ==
  ASSUME LoaderInv, MixInv, NEW v \in VoiceSet, NEW id,
         Known(id, Sound[v.key.asset]), heard[SoundOf(v)] # 0
  PROVE  Refused(v, id)
  <1>1. SoundOf(v) \in Heard /\ v.key \in Occurrence
    BY DEF SoundOf, Heard, VoiceSet
  <1>2. PICK o \in Occurrence : /\ <<o.at, Sound[o.asset], o.gain>> = SoundOf(v)
                               /\ played[o] # 0
    BY <1>1 DEF MixInv, Witnessed
  <1>3. o.at = v.key.at /\ Sound[o.asset] = Sound[v.key.asset] /\ o.gain = v.key.gain
    BY <1>2 DEF SoundOf
  <1>4. Known(played[o], Sound[o.asset]) BY <1>2 DEF MixInv, PlayedKnown
  <1>5. played[o] = id BY <1>3, <1>4 DEF LoaderInv, OneIdEach, Known, KnownIn
  <1> QED BY <1>3, <1>5 DEF Refused

(* What a claim that was granted leaves behind. *)
LEMMA ClaimStep ==
  ASSUME LoaderInv, MixInv, UNCHANGED registry, NEW v \in VoiceSet, NEW id \in Nat \ {0},
         Known(id, Sound[v.key.asset]), v.key.gain # 0, heard[SoundOf(v)] = 0,
         played' = [played EXCEPT ![v.key] = id],
         heard' = [heard EXCEPT ![SoundOf(v)] = Smaller(@ + 1, 2)]
  PROVE  /\ played' \in [Occurrence -> Nat] /\ heard' \in [Heard -> 0..2]
         /\ PlayedKnown' /\ Witnessed' /\ HeardOnce'
  <1>1. SoundOf(v) \in Heard /\ v.key \in Occurrence
    BY DEF SoundOf, Heard, VoiceSet
  <1>2. played \in [Occurrence -> Nat] /\ heard \in [Heard -> 0..2] BY DEF MixInv, MixTypes
  <1>3. heard' = [heard EXCEPT ![SoundOf(v)] = 1] BY <1>1, <1>2 DEF Smaller
  <1>4. played' \in [Occurrence -> Nat] /\ heard' \in [Heard -> 0..2] BY <1>1, <1>2, <1>3
  <1>5. HeardOnce' BY <1>1, <1>2, <1>3 DEF MixInv, HeardOnce
  <1>6. PlayedKnown' BY <1>1, <1>2 DEF MixInv, PlayedKnown, Known
  <1>7. Witnessed'
    <2> SUFFICES ASSUME NEW h \in Heard, heard'[h] # 0
                 PROVE  \E o \in Occurrence :
                          <<o.at, Sound[o.asset], o.gain>> = h /\ o.gain # 0 /\ played'[o] # 0
      BY DEF Witnessed
    <2>1. CASE h = SoundOf(v)
      <3>1. played'[v.key] # 0 BY <1>1, <1>2
      <3> QED BY <1>1, <2>1, <3>1 DEF SoundOf
    <2>2. CASE h # SoundOf(v)
      <3>1. heard[h] # 0 BY <1>1, <1>2, <1>3, <2>2
      <3>2. PICK o \in Occurrence :
              <<o.at, Sound[o.asset], o.gain>> = h /\ o.gain # 0 /\ played[o] # 0
        BY <3>1 DEF MixInv, Witnessed
      <3>3. played'[o] # 0 BY <1>1, <1>2, <3>2
      <3> QED BY <3>2, <3>3
    <2> QED BY <2>1, <2>2
  <1> QED BY <1>4, <1>5, <1>6, <1>7

(* Mixing a voice whose clip is there: refused, claimed, or already claimed. *)
LEMMA MixClipStep ==
  ASSUME LoaderInv, MixInv, UNCHANGED registry, cb = "mix", NEW v \in VoiceSet,
         v.key.asset \in Asset,
         v.pinned # 0 => Known(v.pinned, Sound[v.key.asset]),
         v.pinned # 0 \/ samples[v.key.asset] = "sound",
         MixClip(v)
  PROVE  /\ played' \in [Occurrence -> Nat] /\ heard' \in [Heard -> 0..2]
         /\ PlayedKnown' /\ Witnessed' /\ HeardOnce'
         /\ kept' \in Seq(VoiceSet) /\ PinnedKnown(kept)'
  <1> DEFINE claiming == ~v.claimed /\ v.start < End
             id == IF v.pinned # 0 THEN v.pinned ELSE identity[v.key.asset]
  <1>1. id \in Nat \ {0} /\ Known(id, Sound[v.key.asset])
    BY DEF VoiceSet, LoaderInv, LoaderTypes, ClipsKnown
  <1>2. Audible(v, id) <=> v.key.gain # 0 BY <1>1 DEF Audible
  <1>3. /\ [v EXCEPT !.claimed = @ \/ claiming] \in VoiceSet
        /\ [v EXCEPT !.claimed = @ \/ claiming].pinned = v.pinned
        /\ [v EXCEPT !.claimed = @ \/ claiming].key = v.key
    BY DEF VoiceSet
  <1>4. \/ Drop \/ Keep([v EXCEPT !.claimed = @ \/ claiming]) BY DEF MixClip
  <1>5. kept' \in Seq(VoiceSet) /\ PinnedKnown(kept)'
    BY <1>3, <1>4, KeptType
  <1>6. CASE UNCHANGED <<played, heard>>
    BY <1>5, <1>6 DEF MixInv, MixTypes, PlayedKnown, Witnessed, HeardOnce, Known
  <1>7. CASE claiming /\ v.key.gain # 0 /\ ~Refused(v, id)
    <2>1. /\ played' = [played EXCEPT ![v.key] = id]
          /\ heard' = [heard EXCEPT ![SoundOf(v)] = Smaller(@ + 1, 2)]
      BY <1>2, <1>7 DEF MixClip
    <2>2. heard[SoundOf(v)] = 0 BY <1>1, <1>7, HeardIsRefused
    <2> HIDE DEF id
    <2> QED BY <1>1, <1>5, <1>7, <2>1, <2>2, ClaimStep
  <1>8. CASE ~(claiming /\ v.key.gain # 0 /\ ~Refused(v, id))
    <2>1. UNCHANGED <<played, heard>> BY <1>2, <1>8 DEF MixClip
    <2> QED BY <1>6, <2>1
  <1> QED BY <1>7, <1>8

(* Mixing one voice. *)
LEMMA MixVoiceStep == ASSUME LoaderInv, MixInv, Mix PROVE MixInv'
  <1> DEFINE v == voices[turn]
             clip == IF v.pinned # 0 THEN "sound" ELSE samples[v.key.asset]
  <1>1. cb = "mix" /\ NextTurn("end") /\ UNCHANGED <<loaderVars, at, voices, next>>
    BY DEF Mix
  <1>2. turn \in DOMAIN voices /\ v \in VoiceSet /\ v.key.asset \in Asset BY <1>1, TurnType
  <1>3. v.pinned # 0 => Known(v.pinned, Sound[v.key.asset])
    BY <1>2 DEF MixInv, PinnedKnown
  <1>4. cb' \in {"consider", "mix"} => turn' \in 1..Len(voices')
    BY <1>1, NextTurnType
  <1>5. UNCHANGED registry BY <1>1 DEF loaderVars
  <1>6. /\ played' \in [Occurrence -> Nat] /\ heard' \in [Heard -> 0..2]
        /\ PlayedKnown' /\ Witnessed' /\ HeardOnce'
        /\ kept' \in Seq(VoiceSet) /\ PinnedKnown(kept)'
    <2>1. CASE clip = "sound" /\ MixClip(v)
      <3>1. v.pinned # 0 \/ samples[v.key.asset] = "sound" BY <2>1
      <3> HIDE DEF v
      <3> QED BY <1>1, <1>2, <1>3, <1>5, <2>1, <3>1, MixClipStep
    <2>2. CASE UNCHANGED <<played, heard>> /\ (Keep(v) \/ Drop)
      <3>1. kept' \in Seq(VoiceSet) /\ PinnedKnown(kept)'
        BY <1>2, <1>3, <1>5, <2>2, KeptType
      <3> QED
        BY <1>5, <2>2, <3>1 DEF MixInv, MixTypes, PlayedKnown, Witnessed, HeardOnce, Known
    <2> QED BY <2>1, <2>2 DEF Mix, MixMissing
  <1>7. MixTypes' BY <1>1, <1>4, <1>6 DEF MixInv, MixTypes
  <1>8. Silence'
    BY <1>1 DEF MixInv, Silence, loaderVars, NextTurn
  <1>9. PinnedKnown(voices)' BY <1>1, <1>5 DEF MixInv, PinnedKnown, Known
  <1> QED BY <1>6, <1>7, <1>8, <1>9 DEF MixInv

(* The end of a callback. *)
LEMMA EndBufferStep == ASSUME MixInv, EndBuffer PROVE MixInv'
  <1>1. /\ voices' = kept /\ kept' = <<>> /\ cb' = "idle" /\ at' = at + Frames
        /\ cb = "end"
        /\ UNCHANGED <<loaderVars, next, played, heard>>
    BY DEF EndBuffer, End
  <1>2. MixTypes' BY <1>1, ChartAudioAssumption DEF MixInv, MixTypes
  <1>3. Silence' BY <1>1 DEF MixInv, Silence, loaderVars
  <1> QED
    BY <1>1, <1>2, <1>3
    DEF MixInv, PinnedKnown, PlayedKnown, Witnessed, HeardOnce, Known, loaderVars

(* MixInv is inductive relative to LoaderInv. *)
LEMMA MixStep == LoaderInv /\ MixInv /\ [Next]_vars => MixInv'
  <1> SUFFICES ASSUME LoaderInv, MixInv, [Next]_vars PROVE MixInv'
    OBVIOUS
  <1> USE DEF Known
  <1>1. CASE UNCHANGED vars
    BY <1>1, OutsideStep DEF vars, loaderVars, MixInv, Silence, mixVars
  <1>2. CASE Callback
    <2>1. CASE BeginBuffer
      BY <2>1
      DEF BeginBuffer, loaderVars, MixInv, MixTypes, Silence, PinnedKnown, PlayedKnown,
          Witnessed, HeardOnce
    <2> QED
      BY <1>2, <2>1, HitStep, ScheduleStep, ConsiderStep, MixVoiceStep, EndBufferStep
      DEF Callback
  <1>3. CASE Serve
    <2>1. Silence' BY <1>3 DEF Serve, Service, MixInv, Silence, mixVars
    <2> QED BY <1>3, <2>1, OutsideStep DEF Serve, Service
  <1>4. CASE Session
    <2>1. CASE Joined BY <1>4, <2>1, JoinedOutside DEF Session
    <2>2. CASE Prepare \/ StartPlay \/ StopWorkers
      <3>1. Silence'
        BY <1>4, <2>2 DEF Session, Prepare, StartPlay, StopWorkers, MixInv, Silence, mixVars
      <3> QED
        BY <1>4, <2>2, <3>1, OutsideStep DEF Session, Prepare, StartPlay, StopWorkers
    <2> QED BY <1>4, <2>1, <2>2 DEF Session
  <1>5. CASE Loaders
    <2>1. PICK w \in Worker : Load(w) BY <1>5 DEF Loaders
    <2>2. Silence'
      BY <1>5, <2>1
      DEF Loaders, Load, WaitForWork, Decode, BeginPublish, EndPublish, MixInv, Silence, mixVars
    <2>3. \A id, p : Known(id, p) => KnownIn(registry', id, p)
      BY <2>1, DecodeStep DEF Load, WaitForWork, BeginPublish, EndPublish
    <2> QED BY <1>5, <2>2, <2>3, OutsideStep DEF Loaders
  <1>6. CASE Cancel
    <2>1. Silence' BY <1>6 DEF Cancel, CancelLoading, MixInv, Silence, mixVars
    <2> QED BY <1>6, <2>1, OutsideStep DEF Cancel, CancelLoading
  <1>7. CASE Finish \/ Abort
    <2>1. Silence' BY <1>7 DEF Finish, Abort, Shutdown, MixInv, Silence, mixVars
    <2> QED BY <1>7, <2>1, OutsideStep DEF Finish, Abort, Shutdown
  <1> QED BY <1>1, <1>2, <1>3, <1>4, <1>5, <1>6, <1>7 DEF Next

(* A sound of the chart is begun at most once at each of its times, however its *)
(* copies were struck, scheduled and decoded.                                   *)
THEOREM SoundsOnce == Spec => []HeardOnce
  <1>1. Init => LoaderInv /\ MixInv BY LoaderInitInv, MixInitInv
  <1>2. LoaderInv /\ MixInv /\ [Next]_vars => (LoaderInv /\ MixInv)'
    BY LoaderStep, MixStep
  <1>3. LoaderInv /\ MixInv => HeardOnce BY DEF MixInv
  <1> QED BY <1>1, <1>2, <1>3, PTL DEF Spec

--------------------------------------------------------------------------------
(* The end of the play. *)

Mixing == cb \in {"consider", "mix"}

TailInv ==
  /\ transition \in Int /\ mixedUntil \in Int
  /\ mixedUntil <= End
  /\ cb \in {"idle", "input"} => mixedUntil <= at
  /\ PlayToEnd /\ pending => mixedUntil <= transition
  /\ PlayToEnd /\ pending /\ Mixing => End <= transition
  /\ finished => cb = "idle"
  /\ HeardToTheEnd

(* Nothing is mixed at first. *)
LEMMA TailInitInv == Init => TailInv
  BY ChartAudioAssumption DEF Init, TailInv, End, Mixing, HeardToTheEnd

(* What a voice with a clip adds ends within its buffer. *)
LEMMA MixedStep ==
  ASSUME LoaderInv, MixInv, TailInv, Mix
  PROVE  mixedUntil' \in Int /\ mixedUntil' <= End /\ UNCHANGED at
         /\ (mixedUntil' = mixedUntil \/ mixedUntil <= mixedUntil')
  <1> DEFINE v == voices[turn]
  <1>1. cb = "mix" /\ UNCHANGED at BY DEF Mix
  <1>2. turn \in DOMAIN voices /\ v \in VoiceSet /\ v.key.asset \in Asset BY <1>1, TurnType
  <1>3. End \in Int BY ChartAudioAssumption DEF End, MixInv, MixTypes
  <1>4. mixedUntil \in Int /\ mixedUntil <= End BY DEF TailInv
  <1>5. CASE UNCHANGED mixedUntil BY <1>1, <1>4, <1>5
  <1>6. CASE /\ v.pinned # 0 \/ samples[v.key.asset] = "sound"
             /\ mixedUntil' = Larger(mixedUntil, Smaller(ClipEnd(v), End))
    <2>1. Sound[v.key.asset] \in Pcm
      <3>1. Known(v.pinned, Sound[v.key.asset]) \/ Known(identity[v.key.asset], Sound[v.key.asset])
        BY <1>2, <1>6 DEF LoaderInv, ClipsKnown, MixInv, PinnedKnown
      <3>2. registry \in Seq(Pcm) BY DEF LoaderInv, LoaderTypes
      <3> QED BY ONLY <3>1, <3>2, ElementOf DEF Known, KnownIn
    <2>2. ClipEnd(v) \in Int
      BY <1>2, <2>1, ChartAudioAssumption DEF ClipEnd, VoiceSet
    <2> QED BY <1>1, <1>3, <1>4, <1>6, <2>2 DEF Larger, Smaller
  <1>7. v.pinned # 0 \/ samples[v.key.asset] = "sound" \/ UNCHANGED mixedUntil
    BY DEF Mix, MixMissing
  <1>8. UNCHANGED mixedUntil \/ mixedUntil' = Larger(mixedUntil, Smaller(ClipEnd(v), End))
    BY DEF Mix, MixMissing, MixClip
  <1> QED BY <1>5, <1>6, <1>7, <1>8

(* TailInv is inductive relative to the two others. *)
LEMMA TailStep == LoaderInv /\ MixInv /\ TailInv /\ [Next]_vars => TailInv'
  <1> SUFFICES ASSUME LoaderInv, MixInv, TailInv, [Next]_vars PROVE TailInv'
    OBVIOUS
  <1>1. at \in Nat /\ End \in Int /\ Frames \in Nat \ {0} /\ Latency \in Nat
    BY ChartAudioAssumption DEF MixInv, MixTypes, End
  <1>2. CASE UNCHANGED mixVars
    BY <1>2 DEF mixVars, TailInv, End, Mixing, HeardToTheEnd, PlaybackHead
  <1>3. CASE UNCHANGED vars BY <1>2, <1>3 DEF vars
  <1>4. CASE BeginBuffer
    BY <1>4 DEF BeginBuffer, TailInv, End, Mixing, HeardToTheEnd, PlaybackHead
  <1>5. ASSUME NEW n \in DOMAIN Notes, NEW start \in at..(End + Lookahead), Hit(n, start)
        PROVE  TailInv'
    BY <1>5 DEF Hit, TailInv, End, Mixing, HeardToTheEnd, PlaybackHead
  <1>6. CASE Schedule
    <2>1. /\ cb = "input" /\ pending' = EngineDone
          /\ transition' = TransitionFor(Scheduled # <<>>)
          /\ cb' = IF Scheduled = <<>> THEN "end" ELSE "consider"
          /\ UNCHANGED <<at, hit, finished, mixedUntil>>
      BY <1>6 DEF Schedule
    <2>2. ~finished /\ mixedUntil \in Int /\ mixedUntil <= at /\ transition \in Int
      BY <2>1 DEF TailInv
    <2>3. /\ transition' \in Int
          /\ PlayToEnd /\ pending' => mixedUntil <= transition'
          /\ PlayToEnd /\ pending' /\ Scheduled # <<>> => End <= transition'
      <3>1. ResultTail \in Nat BY ChartAudioAssumption
      <3>2. PlayToEnd /\ pending => mixedUntil <= transition BY DEF TailInv
      <3> QED
        BY <1>1, <2>1, <2>2, <3>1, <3>2 DEF TransitionFor, Larger, End
    <2> QED
      BY <1>1, <2>1, <2>2, <2>3 DEF TailInv, End, Mixing, HeardToTheEnd
  <1>7. CASE Consider
    <2>1. UNCHANGED <<at, hit, pending, transition, finished, mixedUntil>>
          /\ cb = "consider" /\ cb' \in {"consider", "mix"}
      BY <1>7 DEF Consider, NextTurn
    <2> QED
      BY <2>1 DEF TailInv, End, Mixing, HeardToTheEnd, PlaybackHead
  <1>8. CASE Mix
    <2>1. UNCHANGED <<at, hit, pending, transition, finished>>
          /\ cb = "mix" /\ cb' \in {"mix", "end"}
      BY <1>8 DEF Mix, NextTurn
    <2>2. mixedUntil' \in Int /\ mixedUntil' <= End BY <1>8, MixedStep
    <2> QED
      BY <1>1, <2>1, <2>2 DEF TailInv, End, Mixing, HeardToTheEnd, PlaybackHead
  <1>9. CASE EndBuffer
    <2>1. /\ cb = "end" /\ cb' = "idle" /\ at' = End
          /\ finished' => pending /\ PlaybackHead >= transition
          /\ UNCHANGED <<hit, pending, transition, mixedUntil>>
      BY <1>9 DEF EndBuffer
    <2> QED
      BY <1>1, <2>1 DEF TailInv, End, Mixing, HeardToTheEnd, PlaybackHead
  <1>10. CASE Callback
    BY <1>4, <1>5, <1>6, <1>7, <1>8, <1>9, <1>10 DEF Callback
  <1>11. CASE ~Callback /\ Next
    BY <1>2, <1>11
    DEF Next, Serve, Session, Loaders, Cancel, Finish, Abort, Shutdown
  <1> QED BY <1>3, <1>10, <1>11

(* With play_to_end a play that finished has been heard to its last sample. *)
THEOREM EverythingHeard == Spec => []HeardToTheEnd
  <1>1. Init => LoaderInv /\ MixInv /\ TailInv
    BY LoaderInitInv, MixInitInv, TailInitInv
  <1>2. LoaderInv /\ MixInv /\ TailInv /\ [Next]_vars => (LoaderInv /\ MixInv /\ TailInv)'
    BY LoaderStep, MixStep, TailStep
  <1>3. TailInv => HeardToTheEnd BY DEF TailInv
  <1> QED BY <1>1, <1>2, <1>3, PTL DEF Spec

--------------------------------------------------------------------------------
(* No copy of a sound is dropped for nothing (DroppedForATwin), for every chart *)
(* and every interleaving.                                                      *)
(*                                                                              *)
(* A copy is refused in favour of one that was played, which was heard, or of   *)
(* a candidate of the same buffer that comes before it.  That candidate may     *)
(* itself be refused when its turn comes, in favour of one before it.  The      *)
(* invariant follows the chain: behind everything that was refused, and behind  *)
(* every candidate that has had its turn, there is a sound that was heard or a  *)
(* candidate, before it, that has not had its turn.  At the end of the list     *)
(* nobody is left to wait for.                                                  *)

SoundAt(o) == <<o.at, Sound[o.asset], o.gain>>

CandidateTypes ==
  /\ candidate \in [Occurrence -> [start : Int, turn : Nat, id : Nat]]
  /\ silenced \subseteq Heard
  /\ Mixing => turn \in Nat

(* The candidate of o is a voice of the buffer that will claim when its turn    *)
(* comes.                                                                       *)
StandsFor(o, c, v) ==
  /\ v.key = o /\ v.start = c.start /\ v.pinned = c.id /\ ~v.claimed
  /\ o.gain # 0 /\ v.start < End /\ ClipEnd(v) > at

Stands(o) ==
  /\ candidate[o].turn \in DOMAIN voices
  /\ StandsFor(o, candidate[o], voices[candidate[o].turn])
  /\ cb = "consider" => candidate[o].turn < turn

CandidatesStand == Mixing => \A o \in Occurrence : candidate[o].id # 0 => Stands(o)

(* What was played was heard. *)
PlayedHeard == \A o \in Occurrence : played[o] # 0 => heard[SoundAt(o)] > 0

(* A candidate for the sound h whose turn is still to come. *)
Awaited(o, h) == SoundAt(o) = h /\ candidate[o].id # 0 /\ candidate[o].turn >= turn

SilencedAwaited ==
  \A h \in silenced :
    heard[h] > 0 \/ (cb = "mix" /\ \E o \in Occurrence : Awaited(o, h))

PassedAwaited ==
  cb = "mix" => \A o \in Occurrence :
    candidate[o].id # 0 /\ candidate[o].turn < turn =>
      \/ heard[SoundAt(o)] > 0
      \/ \E p \in Occurrence : Awaited(p, SoundAt(o)) /\ Before(candidate[p], candidate[o])

TwinInv ==
  /\ CandidateTypes /\ CandidatesStand /\ PlayedHeard /\ SilencedAwaited /\ PassedAwaited

(* Nothing is refused at first. *)
LEMMA TwinInitInv == Init => TwinInv
  BY LoaderAssumption
  DEF Init, TwinInv, CandidateTypes, CandidatesStand, PlayedHeard, SilencedAwaited,
      PassedAwaited, NoCandidate, Mixing

(* A step that leaves the callback alone. *)
LEMMA TwinQuiet == ASSUME TwinInv, UNCHANGED mixVars PROVE TwinInv'
  BY DEF mixVars, TwinInv, CandidateTypes, CandidatesStand, Stands, StandsFor, PlayedHeard,
     SilencedAwaited, PassedAwaited, Awaited, Mixing, End, ClipEnd, Before

(* Outside the turns only the candidates of the next buffer are prepared. *)
LEMMA TwinBetween ==
  ASSUME TwinInv, ~Mixing, UNCHANGED <<heard, silenced, played>>,
         UNCHANGED candidate \/ candidate' = [o \in Occurrence |-> NoCandidate],
         cb' # "mix", cb' = "consider" => candidate' = [o \in Occurrence |-> NoCandidate] /\ turn' = 1
  PROVE  TwinInv'
  <1>1. CandidateTypes' BY DEF TwinInv, CandidateTypes, NoCandidate, Mixing
  <1>2. CandidatesStand' BY DEF CandidatesStand, NoCandidate, Mixing
  <1>3. PlayedHeard' BY DEF TwinInv, PlayedHeard
  <1>4. SilencedAwaited' BY DEF TwinInv, SilencedAwaited, Mixing
  <1>5. PassedAwaited' BY DEF PassedAwaited
  <1> QED BY <1>1, <1>2, <1>3, <1>4, <1>5 DEF TwinInv

(* consider makes the voice of the turn a candidate, or leaves the earlier one. *)
LEMMA TwinConsider == ASSUME LoaderInv, MixInv, TwinInv, Consider PROVE TwinInv'
  <1> DEFINE v == voices[turn]
             id == identity[v.key.asset]
  <1>1. cb = "consider" /\ Mixing /\ NextTurn("mix")
        /\ UNCHANGED <<loaderVars, at, played, heard, silenced>>
    BY DEF Consider, Mixing
  <1>2. turn \in DOMAIN voices /\ v \in VoiceSet /\ v.key.asset \in Asset /\ v.key \in Occurrence
    BY <1>1, TurnType DEF VoiceSet
  <1>3. turn \in Nat /\ turn \in 1..Len(voices) /\ Len(voices) \in Nat /\ voices \in Seq(VoiceSet)
    BY <1>1 DEF MixInv, MixTypes
  <1>4. id \in Nat BY <1>2 DEF LoaderInv, LoaderTypes
  <1>5. \/ /\ Eligible(v) /\ voices' = [voices EXCEPT ![turn].pinned = id]
           /\ \/ UNCHANGED candidate
              \/ v.key.gain # 0 /\ candidate' = [candidate EXCEPT ![v.key] = Entry(v, id)]
        \/ UNCHANGED <<voices, candidate>>
    BY DEF Consider
  <1>6. Entry(v, id) \in [start : Int, turn : Nat, id : Nat]
        /\ Entry(v, id).start = v.start /\ Entry(v, id).turn = turn /\ Entry(v, id).id = id
    BY <1>2, <1>3, <1>4 DEF Entry, VoiceSet
  <1>7. candidate \in [Occurrence -> [start : Int, turn : Nat, id : Nat]]
    BY DEF TwinInv, CandidateTypes
  <1>8. candidate' \in [Occurrence -> [start : Int, turn : Nat, id : Nat]]
    <2> HIDE DEF v, id
    <2> QED BY <1>2, <1>5, <1>6, <1>7
  <1>9. cb' \in {"consider", "mix"} /\ (cb' = "consider" => turn' = turn + 1) /\ turn' \in Nat
        /\ (cb' = "mix" => turn' = 1)
    BY <1>1, <1>3 DEF NextTurn
  <1>10. CandidateTypes' BY <1>1, <1>8, <1>9 DEF TwinInv, CandidateTypes
  <1>11. ASSUME NEW o \in Occurrence, candidate'[o].id # 0
         PROVE  /\ candidate'[o].turn \in DOMAIN voices'
                /\ StandsFor(o, candidate'[o], voices'[candidate'[o].turn])
                /\ candidate'[o].turn <= turn
    <2>1. DOMAIN voices' = DOMAIN voices BY <1>5
    <2>2. CASE candidate'[o] = candidate[o]
      <3>1. /\ candidate[o].turn \in DOMAIN voices /\ candidate[o].turn < turn
            /\ StandsFor(o, candidate[o], voices[candidate[o].turn])
        BY <1>1, <1>11, <2>2 DEF TwinInv, CandidatesStand, Stands
      <3>2. voices'[candidate[o].turn] = voices[candidate[o].turn]
        BY <1>3, <1>5, <3>1
      <3> QED BY <1>3, <1>7, <2>1, <2>2, <3>1, <3>2
    <2>3. CASE candidate'[o] # candidate[o]
      <3>1. /\ Eligible(v) /\ o = v.key /\ v.key.gain # 0
            /\ voices' = [voices EXCEPT ![turn].pinned = id]
            /\ candidate'[o] = Entry(v, id)
        BY <1>2, <1>5, <1>7, <2>3
      <3>2. voices'[turn] = [v EXCEPT !.pinned = id] BY <1>2, <3>1
      <3>3. /\ voices'[turn].key = v.key /\ voices'[turn].start = v.start
            /\ voices'[turn].pinned = id /\ voices'[turn].claimed = v.claimed
        BY <1>2, <3>2 DEF VoiceSet
      <3>4. ~v.claimed /\ v.start < End /\ ClipEnd(v) > at BY <3>1 DEF Eligible
      <3>5. ClipEnd(voices'[turn]) = ClipEnd(v) BY <3>3 DEF ClipEnd
      <3>6. candidate'[o].turn = turn /\ candidate'[o].start = v.start /\ candidate'[o].id = id
        BY <1>6, <3>1
      <3> HIDE DEF v, id
      <3> QED BY <1>2, <1>3, <2>1, <3>1, <3>3, <3>4, <3>5, <3>6 DEF StandsFor
    <2> QED BY <2>2, <2>3
  <1>12. CandidatesStand'
    <2> SUFFICES ASSUME NEW o \in Occurrence, candidate'[o].id # 0
                 PROVE  Stands(o)'
      BY DEF CandidatesStand
    <2>1. StandsFor(o, candidate[o], voices[candidate[o].turn])'
      BY <1>1, <1>11 DEF StandsFor, ClipEnd, End
    <2>2. candidate'[o].turn \in Nat BY <1>8
    <2> QED BY <1>3, <1>9, <1>11, <2>1, <2>2 DEF Stands
  <1>13. PlayedHeard' BY <1>1 DEF TwinInv, PlayedHeard
  <1>14. SilencedAwaited' BY <1>1 DEF TwinInv, SilencedAwaited
  <1>15. PassedAwaited'
    <2>1. ASSUME cb' = "mix", NEW o \in Occurrence, candidate'[o].id # 0, candidate'[o].turn < turn'
          PROVE  FALSE
      BY <1>3, <1>5, <1>9, <1>11, <2>1
    <2> QED BY <2>1 DEF PassedAwaited
  <1> QED BY <1>10, <1>12, <1>13, <1>14, <1>15 DEF TwinInv

(* A copy that claim refuses was refused for a sound that was heard, or for a   *)
(* candidate of the same sound before it.                                       *)
LEMMA RefusedFor ==
  ASSUME LoaderInv, MixInv, TwinInv, cb = "mix", NEW v \in VoiceSet, NEW id \in Nat \ {0},
         Known(id, Sound[v.key.asset]), Refused(v, id)
  PROVE  \/ heard[SoundAt(v.key)] > 0
         \/ \E q \in Occurrence : /\ SoundAt(q) = SoundAt(v.key) /\ candidate[q].id # 0
                                  /\ Before(candidate[q], Entry(v, id))
  <1>1. PICK q \in Occurrence :
          /\ q.at = v.key.at /\ q.gain = v.key.gain
          /\ \/ played[q] = id
             \/ candidate[q].id = id /\ Before(candidate[q], Entry(v, id))
    BY DEF Refused
  <1>2. Known(id, Sound[q.asset]) => SoundAt(q) = SoundAt(v.key)
    BY <1>1 DEF SoundAt, Known, KnownIn
  <1>3. CASE played[q] = id
    <2>1. Known(id, Sound[q.asset]) BY <1>3 DEF MixInv, PlayedKnown
    <2>2. heard[SoundAt(q)] > 0 BY <1>3 DEF TwinInv, PlayedHeard
    <2> QED BY <1>2, <2>1, <2>2
  <1>4. CASE candidate[q].id = id /\ Before(candidate[q], Entry(v, id))
    <2>1. Stands(q) BY <1>4 DEF TwinInv, CandidatesStand, Mixing
    <2>2. Known(id, Sound[q.asset])
      BY <1>4, <2>1 DEF Stands, StandsFor, MixInv, PinnedKnown
    <2> QED BY <1>2, <1>4, <2>2
  <1> QED BY <1>1, <1>3, <1>4

(* What a turn adds to the history. *)
LEMMA MixHears ==
  ASSUME LoaderInv, MixInv, TwinInv, Mix
  PROVE  /\ \A h \in Heard : heard[h] > 0 => heard'[h] > 0
         /\ \A o \in Occurrence : played'[o] # played[o] => heard'[SoundAt(o)] > 0
         /\ \A h \in silenced' : h \in silenced \/
              \E id \in Nat \ {0} : /\ Known(id, Sound[voices[turn].key.asset])
                                    /\ Refused(voices[turn], id)
                                    /\ h = SoundAt(voices[turn].key)
  <1> DEFINE v == voices[turn]
             id == IF v.pinned # 0 THEN v.pinned ELSE identity[v.key.asset]
  <1>1. cb = "mix" BY DEF Mix
  <1>2. turn \in DOMAIN voices /\ v \in VoiceSet /\ v.key.asset \in Asset /\ v.key \in Occurrence
    BY <1>1, TurnType DEF VoiceSet
  <1>3. heard \in [Heard -> 0..2] /\ played \in [Occurrence -> Nat] BY DEF MixInv, MixTypes
  <1>4. SoundOf(v) = SoundAt(v.key) /\ SoundOf(v) \in Heard
    BY <1>2 DEF SoundOf, SoundAt, Heard
  <1>5. CASE UNCHANGED <<heard, played, silenced>> BY <1>5
  <1>6. CASE MixClip(v) /\ (v.pinned # 0 \/ samples[v.key.asset] = "sound")
    <2>1. id \in Nat \ {0} /\ Known(id, Sound[v.key.asset])
      BY <1>2, <1>6 DEF VoiceSet, LoaderInv, LoaderTypes, ClipsKnown, MixInv, PinnedKnown
    <2> DEFINE claiming == ~v.claimed /\ v.start < End
    <2>2. Audible(v, id) <=> v.key.gain # 0 BY <2>1 DEF Audible
    <2>3. \/ /\ Refused(v, id) /\ silenced' = silenced \cup {SoundOf(v)}
             /\ UNCHANGED <<played, heard>>
          \/ /\ claiming /\ v.key.gain # 0 /\ UNCHANGED silenced
             /\ played' = [played EXCEPT ![v.key] = id]
             /\ heard' = [heard EXCEPT ![SoundOf(v)] = Smaller(@ + 1, 2)]
          \/ UNCHANGED <<played, heard, silenced>>
      BY <1>6, <2>2 DEF MixClip
    <2> HIDE DEF id, v, claiming
    <2>4. CASE /\ Refused(v, id) /\ silenced' = silenced \cup {SoundOf(v)}
               /\ UNCHANGED <<played, heard>>
      BY <1>4, <2>1, <2>4 DEF v
    <2>5. CASE /\ UNCHANGED silenced
               /\ played' = [played EXCEPT ![v.key] = id]
               /\ heard' = [heard EXCEPT ![SoundOf(v)] = Smaller(@ + 1, 2)]
      <3>1. heard'[SoundOf(v)] > 0 BY <1>3, <1>4, <2>5 DEF Smaller
      <3>2. \A h \in Heard : h # SoundOf(v) => heard'[h] = heard[h] BY <1>3, <2>5
      <3>3. \A o \in Occurrence : o # v.key => played'[o] = played[o] BY <1>3, <2>5
      <3> QED BY <1>4, <2>5, <3>1, <3>2, <3>3
    <2> QED BY <2>3, <2>4, <2>5
  <1> QED BY <1>5, <1>6 DEF Mix, MixMissing

(* The order of the candidates is one. *)
LEMMA BeforeOrder ==
  ASSUME NEW C, C = [start : Int, turn : Nat, id : Nat], NEW a \in C, NEW b \in C, NEW c \in C
  PROVE  ~Before(a, a) /\ (Before(a, b) /\ Before(b, c) => Before(a, c))
  BY DEF Before

(* Behind a candidate whose turn has come there is, after this turn, a sound    *)
(* that was heard or a candidate before it that is still to come.               *)
LEMMA OnItsTurn ==
  ASSUME LoaderInv, MixInv, TwinInv, Mix, NEW o \in Occurrence,
         candidate[o].id # 0, candidate[o].turn = turn
  PROVE  \/ heard'[SoundAt(o)] > 0
         \/ \E p \in Occurrence : /\ SoundAt(p) = SoundAt(o) /\ candidate[p].id # 0
                                  /\ candidate[p].turn > turn
                                  /\ Before(candidate[p], candidate[o])
  <1> DEFINE v == voices[turn]
  <1>1. cb = "mix" /\ Mixing BY DEF Mix, Mixing
  <1>2. v \in VoiceSet /\ v.key.asset \in Asset BY <1>1, TurnType
  <1>3. /\ v.key = o /\ v.start = candidate[o].start /\ v.pinned = candidate[o].id /\ ~v.claimed
        /\ o.gain # 0 /\ v.start < End /\ ClipEnd(v) > at
    BY <1>1 DEF TwinInv, CandidatesStand, Stands, StandsFor
  <1>4. /\ candidate \in [Occurrence -> [start : Int, turn : Nat, id : Nat]]
        /\ at \in Nat /\ turn \in Nat
    BY <1>1 DEF TwinInv, CandidateTypes, MixInv, MixTypes
  <1>5. v.pinned \in Nat \ {0} /\ Known(v.pinned, Sound[v.key.asset])
    <2>1. turn \in DOMAIN voices BY <1>1, TurnType
    <2> QED BY <1>3, <1>4, <2>1 DEF MixInv, PinnedKnown
  <1>6. Entry(v, v.pinned) = candidate[o]
    BY <1>3, <1>4 DEF Entry
  <1>7. SoundOf(v) = SoundAt(o) /\ SoundAt(o) \in Heard
    BY <1>3 DEF SoundOf, SoundAt, Heard
  <1>8. MixClip(v)
    <2>1. ~(ClipEnd(v) <= at)
      <3>1. Sound[v.key.asset] \in Pcm
        <4>1. registry \in Seq(Pcm) BY DEF LoaderInv, LoaderTypes
        <4> QED BY ONLY <1>5, <4>1, ElementOf DEF Known, KnownIn
      <3>2. ClipEnd(v) \in Int
        BY <1>2, <3>1, ChartAudioAssumption DEF ClipEnd, VoiceSet
      <3> QED BY <1>3, <1>4, <3>2
    <2> QED BY <1>5, <2>1 DEF Mix
  <1>9. heard \in [Heard -> 0..2] BY DEF MixInv, MixTypes
  <1>10. CASE ~Refused(v, v.pinned)
    <2>1. heard' = [heard EXCEPT ![SoundOf(v)] = Smaller(@ + 1, 2)]
      BY <1>3, <1>5, <1>8, <1>10 DEF MixClip
    <2> QED BY <1>7, <1>9, <2>1 DEF Smaller
  <1>11. CASE Refused(v, v.pinned)
    <2>1. \/ heard[SoundAt(o)] > 0
          \/ \E q \in Occurrence : /\ SoundAt(q) = SoundAt(o) /\ candidate[q].id # 0
                                   /\ Before(candidate[q], candidate[o])
      <3> HIDE DEF v
      <3> QED BY <1>1, <1>2, <1>3, <1>5, <1>6, <1>11, RefusedFor
    <2>2. CASE heard[SoundAt(o)] > 0 BY <1>7, <2>2, MixHears
    <2>3. CASE \E q \in Occurrence : /\ SoundAt(q) = SoundAt(o) /\ candidate[q].id # 0
                                     /\ Before(candidate[q], candidate[o])
      <3>1. PICK q \in Occurrence : /\ SoundAt(q) = SoundAt(o) /\ candidate[q].id # 0
                                    /\ Before(candidate[q], candidate[o])
        BY <2>3
      <3>2. ASSUME NEW p \in Occurrence, candidate[p].id # 0, candidate[p].turn = turn
            PROVE  p = o
        BY <1>1, <1>3, <3>2 DEF TwinInv, CandidatesStand, Stands, StandsFor
      <3>3. q # o BY <1>4, <3>1 DEF Before
      <3>4. candidate[q].turn # turn BY <3>1, <3>2, <3>3
      <3>5. CASE candidate[q].turn > turn BY <3>1, <3>5
      <3>6. CASE candidate[q].turn < turn
        <4>1. \/ heard[SoundAt(q)] > 0
              \/ \E p \in Occurrence : Awaited(p, SoundAt(q)) /\ Before(candidate[p], candidate[q])
          BY <1>1, <3>1, <3>6 DEF TwinInv, PassedAwaited
        <4>2. CASE heard[SoundAt(q)] > 0 BY <1>7, <3>1, <4>2, MixHears
        <4>3. CASE \E p \in Occurrence : Awaited(p, SoundAt(q)) /\ Before(candidate[p], candidate[q])
          <5>1. PICK p \in Occurrence : Awaited(p, SoundAt(q)) /\ Before(candidate[p], candidate[q])
            BY <4>3
          <5>2. Before(candidate[p], candidate[o])
            <6> DEFINE C == [start : Int, turn : Nat, id : Nat]
            <6>1. candidate[p] \in C /\ candidate[q] \in C /\ candidate[o] \in C BY <1>4
            <6>2. Before(candidate[p], candidate[q]) /\ Before(candidate[q], candidate[o])
              BY <3>1, <5>1
            <6> QED BY ONLY <6>1, <6>2, BeforeOrder
          <5>3. p # o BY <1>4, <5>2 DEF Before
          <5>4. candidate[p].turn # turn BY <3>2, <5>1, <5>3 DEF Awaited
          <5>5. candidate[p].turn > turn BY <1>4, <5>1, <5>4 DEF Awaited
          <5> QED BY <3>1, <5>1, <5>2, <5>5 DEF Awaited
        <4> QED BY <4>1, <4>2, <4>3
      <3> QED BY <1>4, <3>4, <3>5, <3>6
    <2> QED BY <2>1, <2>2, <2>3
  <1> QED BY <1>10, <1>11

(* The same for every candidate: before its turn it is still to come itself. *)
LEMMA AfterTheTurn ==
  ASSUME LoaderInv, MixInv, TwinInv, Mix, NEW o \in Occurrence, candidate[o].id # 0
  PROVE  \/ heard'[SoundAt(o)] > 0
         \/ \E p \in Occurrence : /\ SoundAt(p) = SoundAt(o) /\ candidate[p].id # 0
                                  /\ candidate[p].turn > turn
                                  /\ p = o \/ Before(candidate[p], candidate[o])
  <1>1. cb = "mix" /\ Mixing BY DEF Mix, Mixing
  <1>2. /\ candidate \in [Occurrence -> [start : Int, turn : Nat, id : Nat]]
        /\ turn \in Nat
    BY <1>1 DEF TwinInv, CandidateTypes
  <1>3. SoundAt(o) \in Heard BY DEF SoundAt, Heard
  <1>4. CASE candidate[o].turn > turn BY <1>4
  <1>5. CASE candidate[o].turn = turn BY <1>5, OnItsTurn
  <1>6. CASE candidate[o].turn < turn
    <2>1. \/ heard[SoundAt(o)] > 0
          \/ \E p \in Occurrence : Awaited(p, SoundAt(o)) /\ Before(candidate[p], candidate[o])
      BY <1>1, <1>6 DEF TwinInv, PassedAwaited
    <2>2. CASE heard[SoundAt(o)] > 0 BY <1>3, <2>2, MixHears
    <2>3. CASE \E p \in Occurrence : Awaited(p, SoundAt(o)) /\ Before(candidate[p], candidate[o])
      <3>1. PICK p \in Occurrence : Awaited(p, SoundAt(o)) /\ Before(candidate[p], candidate[o])
        BY <2>3
      <3>2. SoundAt(p) = SoundAt(o) /\ candidate[p].id # 0 /\ candidate[p].turn >= turn
        BY <3>1 DEF Awaited
      <3>3. CASE candidate[p].turn > turn BY <3>1, <3>2, <3>3
      <3>4. CASE candidate[p].turn = turn
        <4>1. \/ heard'[SoundAt(p)] > 0
              \/ \E q \in Occurrence : /\ SoundAt(q) = SoundAt(p) /\ candidate[q].id # 0
                                       /\ candidate[q].turn > turn
                                       /\ Before(candidate[q], candidate[p])
          BY <3>2, <3>4, OnItsTurn
        <4>2. \A q \in Occurrence : Before(candidate[q], candidate[p])
                                      => Before(candidate[q], candidate[o])
          BY <1>2, <3>1, BeforeOrder
        <4> QED BY <3>2, <4>1, <4>2
      <3> QED BY <1>2, <3>2, <3>3, <3>4
    <2> QED BY <2>1, <2>2, <2>3
  <1> QED BY <1>2, <1>4, <1>5, <1>6

(* Mixing one voice. *)
LEMMA TwinMix == ASSUME LoaderInv, MixInv, TwinInv, Mix PROVE TwinInv'
  <1> DEFINE v == voices[turn]
  <1>1. cb = "mix" /\ Mixing /\ NextTurn("end")
        /\ UNCHANGED <<loaderVars, at, voices, candidate>>
    BY DEF Mix, Mixing
  <1>2. /\ candidate \in [Occurrence -> [start : Int, turn : Nat, id : Nat]]
        /\ turn \in 1..Len(voices) /\ Len(voices) \in Nat /\ DOMAIN voices = 1..Len(voices)
        /\ silenced \subseteq Heard
    BY <1>1 DEF TwinInv, CandidateTypes, MixInv, MixTypes
  <1>a. turn \in Nat /\ Len(voices) \in Nat /\ turn <= Len(voices) BY <1>2
  <1>3. v \in VoiceSet /\ v.key \in Occurrence BY <1>1, TurnType DEF VoiceSet
  <1>4. \A o \in Occurrence : SoundAt(o) \in Heard BY DEF SoundAt, Heard
  <1>5. \/ cb' = "mix" /\ turn' = turn + 1
        \/ cb' = "end" /\ turn' = 1 /\ turn = Len(voices)
    BY <1>1 DEF NextTurn
  <1>6. CandidateTypes'
    <2>1. silenced' \subseteq Heard BY <1>2, <1>3, <1>4, MixHears
    <2>2. turn' \in Nat BY <1>a, <1>5
    <2> HIDE DEF v
    <2> QED BY <1>1, <1>2, <2>1, <2>2 DEF CandidateTypes
  <1>7. CandidatesStand'
    BY <1>1, <1>5
    DEF TwinInv, CandidatesStand, Stands, StandsFor, Mixing, ClipEnd, End
  <1>8. PlayedHeard'
    <2> SUFFICES ASSUME NEW o \in Occurrence, played'[o] # 0 PROVE heard'[SoundAt(o)] > 0
      BY DEF PlayedHeard
    <2>1. CASE played'[o] = played[o]
      BY <1>4, <2>1, MixHears DEF TwinInv, PlayedHeard
    <2> QED BY <2>1, MixHears
  <1>9. ASSUME NEW o \in Occurrence, candidate[o].id # 0
        PROVE  \/ heard'[SoundAt(o)] > 0
               \/ /\ cb' = "mix"
                  /\ \E p \in Occurrence : /\ SoundAt(p) = SoundAt(o) /\ candidate'[p].id # 0
                                           /\ candidate'[p].turn >= turn'
                                           /\ p = o \/ Before(candidate'[p], candidate'[o])
    <2>1. CASE heard'[SoundAt(o)] > 0 BY <2>1
    <2>2. CASE \E p \in Occurrence : /\ SoundAt(p) = SoundAt(o) /\ candidate[p].id # 0
                                     /\ candidate[p].turn > turn
                                     /\ p = o \/ Before(candidate[p], candidate[o])
      <3>1. PICK p \in Occurrence : /\ SoundAt(p) = SoundAt(o) /\ candidate[p].id # 0
                                    /\ candidate[p].turn > turn
                                    /\ p = o \/ Before(candidate[p], candidate[o])
        BY <2>2
      <3>2. candidate[p].turn \in 1..Len(voices)
        BY <1>1, <1>2, <3>1 DEF TwinInv, CandidatesStand, Stands
      <3>3. cb' = "mix" /\ turn' = turn + 1 /\ candidate[p].turn >= turn'
        <4>0. candidate[p].turn \in Nat /\ candidate[p].turn <= Len(voices) BY <1>a, <3>2
        <4>1. turn # Len(voices) /\ candidate[p].turn >= turn + 1 BY <1>a, <3>1, <4>0
        <4> QED BY <1>5, <4>1
      <3> QED BY <1>1, <3>1, <3>3
    <2> QED BY <1>9, <2>1, <2>2, AfterTheTurn
  <1>10. SilencedAwaited'
    <2> SUFFICES ASSUME NEW h \in silenced'
                 PROVE  heard'[h] > 0 \/ (cb' = "mix" /\ \E o \in Occurrence : Awaited(o, h)')
      BY DEF SilencedAwaited
    <2>1. ASSUME NEW o \in Occurrence, SoundAt(o) = h, candidate[o].id # 0
          PROVE  heard'[h] > 0 \/ (cb' = "mix" /\ \E p \in Occurrence : Awaited(p, h)')
      BY <1>9, <2>1 DEF Awaited
    <2>2. CASE h \in silenced
      <3>1. heard[h] > 0 \/ \E o \in Occurrence : Awaited(o, h)
        BY <2>2 DEF TwinInv, SilencedAwaited
      <3>2. CASE heard[h] > 0 BY <1>2, <2>2, <3>2, MixHears
      <3> QED BY <2>1, <3>1, <3>2 DEF Awaited
    <2>3. CASE h \notin silenced
      <3>1. PICK id \in Nat \ {0} : /\ Known(id, Sound[v.key.asset]) /\ Refused(v, id)
                                    /\ h = SoundAt(v.key)
        BY <2>3, MixHears
      <3>2. \/ heard[h] > 0
            \/ \E q \in Occurrence : SoundAt(q) = h /\ candidate[q].id # 0
        <4> HIDE DEF v
        <4> QED BY <1>1, <1>3, <3>1, RefusedFor
      <3>3. CASE heard[h] > 0 BY <1>3, <1>4, <3>1, <3>3, MixHears
      <3> QED BY <2>1, <3>2, <3>3
    <2> QED BY <2>2, <2>3
  <1>11. PassedAwaited'
    <2> SUFFICES ASSUME cb' = "mix", NEW o \in Occurrence, candidate[o].id # 0,
                        candidate[o].turn < turn'
                 PROVE  \/ heard'[SoundAt(o)] > 0
                        \/ \E p \in Occurrence : Awaited(p, SoundAt(o))'
                                                 /\ Before(candidate'[p], candidate'[o])
      BY <1>1 DEF PassedAwaited
    <2>1. CASE heard'[SoundAt(o)] > 0 BY <2>1
    <2>2. CASE \E p \in Occurrence : /\ SoundAt(p) = SoundAt(o) /\ candidate'[p].id # 0
                                     /\ candidate'[p].turn >= turn'
                                     /\ p = o \/ Before(candidate'[p], candidate'[o])
      <3>1. PICK p \in Occurrence : /\ SoundAt(p) = SoundAt(o) /\ candidate'[p].id # 0
                                    /\ candidate'[p].turn >= turn'
                                    /\ p = o \/ Before(candidate'[p], candidate'[o])
        BY <2>2
      <3>2. p # o BY <1>1, <1>2, <1>5, <3>1
      <3> QED BY <3>1, <3>2 DEF Awaited
    <2> QED BY <1>9, <2>1, <2>2
  <1> QED BY <1>6, <1>7, <1>8, <1>10, <1>11 DEF TwinInv

(* TwinInv is inductive relative to the two others. *)
LEMMA TwinStep == LoaderInv /\ MixInv /\ TwinInv /\ [Next]_vars => TwinInv'
  <1> SUFFICES ASSUME LoaderInv, MixInv, TwinInv, [Next]_vars PROVE TwinInv'
    OBVIOUS
  <1>1. CASE UNCHANGED mixVars BY <1>1, TwinQuiet
  <1>2. CASE UNCHANGED vars BY <1>1, <1>2 DEF vars
  <1>3. CASE BeginBuffer BY <1>3, TwinBetween DEF BeginBuffer, Mixing
  <1>4. ASSUME NEW n \in DOMAIN Notes, NEW start \in at..(End + Lookahead), Hit(n, start)
        PROVE  TwinInv'
    BY <1>4, TwinBetween DEF Hit, Mixing
  <1>5. CASE Schedule BY <1>5, TwinBetween DEF Schedule, Mixing
  <1>6. CASE EndBuffer BY <1>6, TwinBetween DEF EndBuffer, Mixing
  <1>7. CASE Callback
    BY <1>3, <1>4, <1>5, <1>6, <1>7, TwinConsider, TwinMix DEF Callback
  <1>8. CASE ~Callback /\ Next
    BY <1>1, <1>8
    DEF Next, Serve, Session, Loaders, Cancel, Finish, Abort, Shutdown
  <1> QED BY <1>2, <1>7, <1>8

(* Whatever was dropped as a copy has been heard by the end of the callback.    *)
THEOREM NothingLost == Spec => []DroppedForATwin
  <1>1. Init => LoaderInv /\ MixInv /\ TwinInv
    BY LoaderInitInv, MixInitInv, TwinInitInv
  <1>2. LoaderInv /\ MixInv /\ TwinInv /\ [Next]_vars => (LoaderInv /\ MixInv /\ TwinInv)'
    BY LoaderStep, MixStep, TwinStep
  <1>3. TwinInv => DroppedForATwin
    BY DEF TwinInv, SilencedAwaited, DroppedForATwin
  <1> QED BY <1>1, <1>2, <1>3, PTL DEF Spec


--------------------------------------------------------------------------------
(* The start of the play (StartsLoaded).  A file only moves on: it is queued,   *)
(* taken, and ready or failed, and it is never forgotten before the session     *)
(* has ended.                                                                   *)

Decided(a) == state[a] \in {"Ready", "Failed"}

StartInv ==
  /\ phase = "start" => \A a \in Asset : state[a] = "Unloaded"
  /\ phase = "loading" => \A a \in Required : state[a] # "Unloaded"
  /\ phase = "play" => \A a \in Required : Decided(a)
  /\ \A a \in Asset : Decided(a) => samples[a] # "null"

(* What a step does to a file: nothing, or the next thing in its life. *)
MovesOn(a) ==
  /\ \/ state'[a] = state[a]
     \/ state[a] = "Unloaded" /\ state'[a] = "Queued"
     \/ state[a] = "Queued" /\ state'[a] = "Loading"
     \/ state[a] = "Loading" /\ Decided(a)' /\ samples'[a] # "null"
  /\ samples[a] # "null" => samples'[a] # "null"

(* The required files are files of the chart. *)
LEMMA RequiredAssets == Required \subseteq Asset
  BY DEF Required, Used

(* Nothing is loaded at first. *)
LEMMA StartInitInv == Init => StartInv
  BY DEF Init, LoaderInit, StartInv, Decided

(* While the phase stays, files that move on keep the invariant. *)
LEMMA StartKept ==
  ASSUME StartInv, UNCHANGED phase, \A a \in Asset : MovesOn(a),
         phase = "start" => \A a \in Asset : state'[a] = state[a]
  PROVE  StartInv'
  BY RequiredAssets DEF StartInv, MovesOn, Decided

(* A loader takes what is queued, and decides what it has taken. *)
LEMMA LoadMovesOn ==
  ASSUME LoaderInv, NEW w \in Worker, Load(w), NEW a \in Asset
  PROVE  MovesOn(a) /\ (state[a] = "Unloaded" => state'[a] = "Unloaded")
  <1>1. CASE WaitForWork(w)
    <2>1. UNCHANGED samples BY <1>1 DEF WaitForWork
    <2>2. CASE UNCHANGED state BY <2>1, <2>2 DEF MovesOn
    <2>3. CASE Take(w) /\ Head(queue) \in Asset /\ state[Head(queue)] = "Queued"
      <3>1. state' = [state EXCEPT ![Head(queue)] = "Loading"] BY <2>3 DEF Take
      <3> QED BY <2>1, <2>3, <3>1 DEF LoaderInv, LoaderTypes, MovesOn
    <2> QED BY <1>1, <2>2, <2>3 DEF WaitForWork, Sleep, Leave, Take
  <1>2. CASE Decode(w) BY <1>2 DEF Decode, MovesOn
  <1>3. CASE BeginPublish(w)
    <2>1. UNCHANGED state /\ job[w] \in Asset
      BY <1>3 DEF BeginPublish, LoaderInv, OneLoaderEach, Busy
    <2>2. UNCHANGED samples \/ samples' = [samples EXCEPT ![job[w]] = "empty"]
      BY <1>3 DEF BeginPublish, FirstStore
    <2> QED BY <2>1, <2>2 DEF LoaderInv, LoaderTypes, MovesOn
  <1>4. CASE EndPublish(w)
    <2>1. /\ pc[w] = "storing" /\ SecondStore(w, job[w])
          /\ state' = [state EXCEPT ![job[w]] = IF found[w] # 0 THEN "Ready" ELSE "Failed"]
      BY <1>4 DEF EndPublish
    <2>2. job[w] \in Asset /\ state[job[w]] = "Loading"
      BY <2>1 DEF LoaderInv, OneLoaderEach, Busy
    <2>3. /\ samples'[job[w]] # "null"
          /\ samples[a] # "null" => samples'[a] # "null"
      <3>1. CASE found[w] # 0
        BY <2>1, <2>2, <3>1 DEF SecondStore, LoaderInv, LoaderTypes
      <3>2. CASE found[w] = 0
        BY <2>1, <2>2, <3>2 DEF SecondStore, LoaderInv, HalfStored
      <3> QED BY <3>1, <3>2
    <2>4. CASE a = job[w]
      BY <2>1, <2>2, <2>3, <2>4 DEF LoaderInv, LoaderTypes, MovesOn, Decided
    <2>5. CASE a # job[w]
      BY <2>1, <2>3, <2>5 DEF LoaderInv, LoaderTypes, MovesOn
    <2> QED BY <2>4, <2>5
  <1> QED BY <1>1, <1>2, <1>3, <1>4 DEF Load

(* Queueing moves on what nobody has asked for yet. *)
LEMMA EnqueueMovesOn ==
  ASSUME LoaderInv, NEW S, \A a \in S : state[a] = "Unloaded", Enqueue(S),
         UNCHANGED samples, NEW a \in Asset
  PROVE  MovesOn(a)
  BY DEF Enqueue, MovesOn

(* StartInv is inductive relative to LoaderInv. *)
LEMMA StartStep == LoaderInv /\ StartInv /\ [Next]_vars => StartInv'
  <1> SUFFICES ASSUME LoaderInv, StartInv, [Next]_vars PROVE StartInv'
    OBVIOUS
  <1>1. CASE UNCHANGED loaderVars BY <1>1 DEF loaderVars, StartInv, Decided
  <1>2. CASE UNCHANGED vars BY <1>1, <1>2 DEF vars
  <1>3. CASE Callback
    BY <1>1, <1>3
    DEF Callback, BeginBuffer, Hit, Schedule, Consider, Mix, EndBuffer
  <1>4. CASE Serve
    <2>1. \A a \in Due(at) : state[a] = "Unloaded" BY DEF Due
    <2>2. /\ phase = "play" /\ UNCHANGED phase /\ UNCHANGED samples /\ Enqueue(Due(at))
      BY <1>4 DEF Serve, Service
    <2>3. \A a \in Asset : MovesOn(a) BY <2>1, <2>2, EnqueueMovesOn
    <2> QED BY <2>2, <2>3, StartKept
  <1>5. CASE Session
    <2>1. CASE Prepare
      <3> DEFINE S == {a \in Asset : a \in StartupQueued /\ state[a] = "Unloaded"}
      <3>1. phase = "start" /\ phase' = "loading" /\ Enqueue(S) /\ UNCHANGED samples
        BY <2>1 DEF Prepare
      <3>2. \A a \in Asset : state[a] = "Unloaded" BY <3>1 DEF StartInv
      <3>3. \A a \in Required : a \in S
        BY <3>2, RequiredAssets DEF StartupQueued
      <3> HIDE DEF S
      <3>4. \A a \in Required : state'[a] = "Queued"
        BY <3>1, <3>3, RequiredAssets DEF Enqueue
      <3>5. \A a \in Asset : ~Decided(a)' BY <3>1, <3>2 DEF Enqueue, Decided
      <3> QED BY <3>1, <3>4, <3>5 DEF StartInv
    <2>2. CASE StartPlay
      <3>1. phase = "loading" /\ phase' = "play" /\ UNCHANGED <<state, samples>> /\ Pending = {}
        BY <2>2 DEF StartPlay
      <3>2. \A a \in Required : Decided(a)
        BY <3>1, RequiredAssets DEF Pending, StartInv, Decided, LoaderInv, LoaderTypes
      <3> QED BY <3>1, <3>2 DEF StartInv, Decided
    <2>3. CASE StopWorkers BY <2>3 DEF StopWorkers, StartInv, Decided
    <2>4. CASE Joined
      <3>1. phase' = "stopped" BY <2>4 DEF Joined
      <3>2. \A a \in Asset : Decided(a)' => samples'[a] # "null"
        <4>1. CASE cancelled BY <2>4, <4>1 DEF Joined, Decided
        <4>2. CASE ~cancelled BY <2>4, <4>2 DEF Joined, StartInv, Decided
        <4> QED BY <4>1, <4>2
      <3> QED BY <3>1, <3>2 DEF StartInv
    <2> QED BY <1>5, <2>1, <2>2, <2>3, <2>4 DEF Session
  <1>6. CASE Loaders
    <2>1. PICK w \in Worker : Load(w) BY <1>6 DEF Loaders
    <2>2. UNCHANGED phase
      BY <2>1 DEF Load, WaitForWork, Decode, BeginPublish, EndPublish
    <2>3. \A a \in Asset : MovesOn(a) BY <2>1, LoadMovesOn
    <2>4. phase = "start" => \A a \in Asset : state'[a] = state[a]
      BY <2>1, LoadMovesOn DEF StartInv
    <2> QED BY <2>2, <2>3, <2>4, StartKept
  <1>7. CASE Cancel BY <1>7 DEF Cancel, CancelLoading, StartInv, Decided
  <1>8. CASE Finish \/ Abort BY <1>8 DEF Finish, Abort, Shutdown, StartInv, Decided
  <1> QED BY <1>2, <1>3, <1>4, <1>5, <1>6, <1>7, <1>8 DEF Next

(* The play never starts with a sound of its first seconds missing, whatever    *)
(* the loaders had taken when the session looked (wait_for_chart_audio_startup) *)
(* and it loses none while it lasts.                                            *)
THEOREM NothingMissing == Spec => []StartsLoaded
  <1>1. Init => LoaderInv /\ StartInv BY LoaderInitInv, StartInitInv
  <1>2. LoaderInv /\ StartInv /\ [Next]_vars => (LoaderInv /\ StartInv)'
    BY LoaderStep, StartStep
  <1>3. StartInv => StartsLoaded BY RequiredAssets DEF StartInv, StartsLoaded
  <1> QED BY <1>1, <1>2, <1>3, PTL DEF Spec


--------------------------------------------------------------------------------
(* The lists stay within what can enter them (TypeOK).                          *)
(*                                                                              *)
(* QueueInv: the queue holds each asset once, because it is queued only when    *)
(* unloaded and holds only what is queued.  ListInv: each voice is a cue that   *)
(* was scheduled or a note that was hit, and the callback keeps at most the     *)
(* voices it has passed.  IdInv: an id is a place of the registry, which holds  *)
(* each sound of the chart's files once.                                        *)

QueueInv ==
  /\ queue \in Seq(Asset)
  /\ \A i \in DOMAIN queue : state[queue[i]] = "Queued"
  /\ \A i, j \in DOMAIN queue : queue[i] = queue[j] => i = j
  /\ phase \in {"joining", "stopped"} => queue = <<>>

ListInv ==
  /\ hit \subseteq DOMAIN Notes
  /\ Len(voices) <= next - 1 + Cardinality(hit)
  /\ cb \in {"idle", "input", "consider", "mix", "end"}
  /\ cb \in {"idle", "input", "consider"} => kept = <<>>
  /\ cb = "mix" => Len(kept) <= turn - 1
  /\ cb = "end" => Len(kept) <= Len(voices)
  /\ turn \in Place

IdInv ==
  /\ registry \in Seq(Decoded)
  /\ found \in [Worker -> Id]
  /\ candidate \in [Occurrence -> [start : Int, turn : Place, id : Id]]

FlagTypes ==
  /\ phase \in {"start", "loading", "play", "closing", "joining", "stopped"}
  /\ cancelled \in BOOLEAN /\ stop \in BOOLEAN
  /\ serviced \in Int
  /\ pending \in BOOLEAN /\ finished \in BOOLEAN

(* A sequence without repetition is no longer than the set it is drawn from. *)
LEMMA DistinctFit ==
  ASSUME NEW S, IsFiniteSet(S), NEW list \in Seq(S),
         \A i, j \in DOMAIN list : list[i] = list[j] => i = j
  PROVE  Len(list) <= Cardinality(S)
  <1>1. Len(list) \in Nat /\ DOMAIN list = 1..Len(list) /\ list \in [1..Len(list) -> S]
    BY LenProperties
  <1>2. list \in Injection(1..Len(list), S) BY <1>1 DEF Injection, IsInjective
  <1>3. Cardinality(1..Len(list)) <= Cardinality(S) BY ONLY <1>2, IsFiniteSet(S), FS_Injection
  <1>4. Cardinality(1..Len(list)) = Len(list)
    <2>1. Len(list) \in Int /\ 1 \in Int BY <1>1
    <2>2. Cardinality(1..Len(list)) = IF 1 > Len(list) THEN 0 ELSE Len(list) - 1 + 1
      BY ONLY <2>1, FS_Interval
    <2> QED BY ONLY <1>1, <2>2
  <1> QED BY <1>3, <1>4

(* There are finitely many assets. *)
LEMMA AssetsFinite == IsFiniteSet(Asset) /\ Cardinality(Asset) = Assets
  <1>1. Assets \in Int /\ 1 \in Int /\ Assets >= 1 BY LoaderAssumption
  <1>2. /\ IsFiniteSet(1..Assets)
        /\ Cardinality(1..Assets) = IF 1 > Assets THEN 0 ELSE Assets - 1 + 1
    BY ONLY <1>1, FS_Interval
  <1> QED BY <1>1, <1>2 DEF Asset

(* There are finitely many sounds. *)
LEMMA DecodedFinite == IsFiniteSet(Decoded) /\ Cardinality(Decoded) \in Nat
  <1> DEFINE Sounds == {Sound[a] : a \in Asset}
  <1>1. Sound \in Surjection(Asset, Sounds) BY LoaderAssumption DEF Surjection
  <1>2. IsFiniteSet(Sounds) BY ONLY <1>1, AssetsFinite, FS_Surjection
  <1>3. Decoded \in SUBSET Sounds BY DEF Decoded
  <1>4. IsFiniteSet(Decoded) BY ONLY <1>2, <1>3, FS_Subset
  <1> QED BY <1>4, FS_CardinalityType

(* A list that gives no sound two ids has no more ids than there are sounds. *)
LEMMA RegistryFits ==
  ASSUME NEW ids \in Seq(Decoded), \A i, j \in DOMAIN ids : ids[i] = ids[j] => i = j
  PROVE  /\ Len(ids) <= Cardinality(Decoded)
         /\ \A id, p : KnownIn(ids, id, p) => id \in Id
  <1>1. Len(ids) <= Cardinality(Decoded) BY DecodedFinite, DistinctFit
  <1>2. DOMAIN ids = 1..Len(ids) /\ Len(ids) \in Nat BY LenProperties
  <1> QED BY <1>1, <1>2, DecodedFinite DEF KnownIn, Id

(* The rank of an asset among those of a set, by which ById lists them. *)
LEMMA ByIdType ==
  ASSUME NEW S \in SUBSET Asset
  PROVE  /\ ById(S) \in Seq(S)
         /\ \A i, j \in DOMAIN ById(S) : ById(S)[i] = ById(S)[j] => i = j
  <1> DEFINE n == Cardinality(S)
             Upto(a) == {b \in S : b <= a}
             rank == [a \in S |-> Cardinality(Upto(a))]
             list == [i \in 1..n |-> CHOOSE a \in S : rank[a] = i]
  <1>1. IsFiniteSet(S) /\ n \in Nat
    BY AssetsFinite, FS_Subset, FS_CardinalityType
  <1>2. \A a \in S : a \in Int BY DEF Asset
  <1>3. \A a \in S : IsFiniteSet(Upto(a)) /\ Cardinality(Upto(a)) <= n
                     /\ Cardinality(Upto(a)) \in Nat
    <2> SUFFICES ASSUME NEW a \in S
                 PROVE  IsFiniteSet(Upto(a)) /\ Cardinality(Upto(a)) <= n
                        /\ Cardinality(Upto(a)) \in Nat
      OBVIOUS
    <2>1. Upto(a) \in SUBSET S OBVIOUS
    <2>2. IsFiniteSet(Upto(a)) /\ Cardinality(Upto(a)) <= n
      BY ONLY <1>1, <2>1, FS_Subset
    <2> QED BY ONLY <2>2, FS_CardinalityType
  <1>4. \A a, b \in S : a < b => rank[a] < rank[b]
    <2> SUFFICES ASSUME NEW a \in S, NEW b \in S, a < b PROVE rank[a] < rank[b]
      OBVIOUS
    <2>1. Upto(a) \in SUBSET Upto(b) /\ b \in Upto(b) /\ b \notin Upto(a) BY <1>2
    <2>2. Upto(a) # Upto(b) BY ONLY <2>1
    <2>3. Cardinality(Upto(a)) <= Cardinality(Upto(b))
          /\ Cardinality(Upto(a)) # Cardinality(Upto(b))
      <3>1. IsFiniteSet(Upto(b)) BY <1>3
      <3> HIDE DEF Upto
      <3> QED BY ONLY <2>1, <2>2, <3>1, FS_Subset
    <2>4. Cardinality(Upto(a)) < Cardinality(Upto(b))
      <3>1. Cardinality(Upto(a)) \in Nat /\ Cardinality(Upto(b)) \in Nat BY <1>3
      <3> HIDE DEF Upto
      <3> QED BY ONLY <2>3, <3>1
    <2> QED BY <2>4
  <1>5. \A a \in S : rank[a] \in 1..n
    <2> SUFFICES ASSUME NEW a \in S PROVE rank[a] \in 1..n
      OBVIOUS
    <2>1. rank[a] = Cardinality(Upto(a)) OBVIOUS
    <2>2. Upto(a) # {} BY <1>2
    <2>3. Cardinality(Upto(a)) # 0
      <3>1. IsFiniteSet(Upto(a)) BY <1>3
      <3> HIDE DEF Upto
      <3> QED BY ONLY <2>2, <3>1, FS_EmptySet
    <2> QED BY <1>1, <1>3, <2>1, <2>3
  <1> HIDE DEF rank
  <1>6. rank \in [S -> 1..n] BY <1>5 DEF rank
  <1>7. rank \in Injection(S, 1..n)
    <2>1. \A a, b \in S : rank[a] = rank[b] => a = b
      BY <1>1, <1>2, <1>4, <1>5
    <2> QED BY <1>6, <2>1 DEF Injection, IsInjective
  <1>8. rank \in Surjection(S, 1..n)
    <2>1. IsFiniteSet(1..n) /\ Cardinality(1..n) = n
      <3>1. n \in Int /\ 1 \in Int BY <1>1
      <3> HIDE DEF n
      <3>2. IsFiniteSet(1..n) /\ Cardinality(1..n) = IF 1 > n THEN 0 ELSE n - 1 + 1
        BY ONLY <3>1, FS_Interval
      <3>3. n \in Nat BY <1>1 DEF n
      <3> QED BY ONLY <3>2, <3>3
    <2>2. Cardinality(S) = Cardinality(1..n) => rank \in Surjection(S, 1..n)
      BY ONLY <1>7, <2>1, FS_Injection
    <2> QED BY <2>1, <2>2
  <1>9. \A i \in 1..n : \E a \in S : rank[a] = i BY <1>8 DEF Surjection
  <1>10. \A i \in 1..n : list[i] \in S /\ rank[list[i]] = i BY <1>9
  <1> HIDE DEF list
  <1>11. list \in [1..n -> S]
    <2>1. DOMAIN list = 1..n /\ list = [i \in 1..n |-> list[i]] BY DEF list
    <2> QED BY <1>10, <2>1
  <1>12. \A i, j \in 1..n : i < j => list[i] < list[j]
    <2> SUFFICES ASSUME NEW i \in 1..n, NEW j \in 1..n, i < j, ~(list[i] < list[j])
                 PROVE  FALSE
      OBVIOUS
    <2>1. list[i] \in S /\ list[j] \in S /\ rank[list[i]] = i /\ rank[list[j]] = j BY <1>10
    <2>2. list[j] < list[i] \/ list[j] = list[i] BY <1>2, <2>1
    <2>3. j < i \/ j = i BY <1>4, <2>1, <2>2
    <2> QED BY <1>1, <2>3
  <1>13. /\ ById(S) \in [1..n -> S]
         /\ \A i, j \in 1..n : i < j => ById(S)[i] < ById(S)[j]
    BY <1>11, <1>12 DEF ById
  <1>14. ById(S) \in Seq(S) /\ DOMAIN ById(S) = 1..n BY <1>1, <1>13
  <1> HIDE DEF n
  <1>15. \A i, j \in 1..n : ById(S)[i] = ById(S)[j] => i = j
    <2> SUFFICES ASSUME NEW i \in 1..n, NEW j \in 1..n, ById(S)[i] = ById(S)[j], i # j
                 PROVE  FALSE
      OBVIOUS
    <2>1. i < j \/ j < i BY <1>1
    <2>2. ById(S)[i] \in Int /\ ById(S)[j] \in Int BY <1>2, <1>13
    <2> QED BY <1>13, <2>1, <2>2
  <1> QED BY <1>14, <1>15


(* The queue is empty at first. *)
LEMMA QueueInitInv == Init => QueueInv
  BY DEF Init, LoaderInit, QueueInv

(* Queueing what is unloaded: nothing of it is in the queue. *)
LEMMA QueueEnqueue ==
  ASSUME LoaderInv, QueueInv, NEW S \in SUBSET Asset, \A a \in S : state[a] = "Unloaded",
         Enqueue(S), phase' \in {"loading", "play"}
  PROVE  QueueInv'
  <1> DEFINE new == ById(S)
  <1>1. queue' = queue \o new BY DEF Enqueue
  <1>2. new \in Seq(S) /\ \A i, j \in DOMAIN new : new[i] = new[j] => i = j BY ByIdType
  <1>3. /\ queue \in Seq(Asset)
        /\ \A i \in DOMAIN queue : state[queue[i]] = "Queued"
        /\ \A i, j \in DOMAIN queue : queue[i] = queue[j] => i = j
    BY DEF QueueInv
  <1> HIDE DEF new
  <1>4. \A i \in DOMAIN new : new[i] \in S BY ONLY <1>2, ElementOf
  <1>5. \A i \in DOMAIN queue : queue[i] \in Asset BY ONLY <1>3, ElementOf
  <1>6. new \in Seq(Asset)
    <2>1. DOMAIN new = 1..Len(new) /\ Len(new) \in Nat BY ONLY <1>2, LenProperties
    <2> QED BY ONLY <1>2, <1>4, <2>1
  <1>7. /\ queue' \in Seq(Asset)
        /\ DOMAIN queue' = 1..(Len(queue) + Len(new))
        /\ Len(queue) \in Nat /\ Len(new) \in Nat
        /\ DOMAIN queue = 1..Len(queue) /\ DOMAIN new = 1..Len(new)
        /\ \A i \in DOMAIN queue' :
             queue'[i] = IF i <= Len(queue) THEN queue[i] ELSE new[i - Len(queue)]
    <2>1. /\ queue \o new \in Seq(Asset)
          /\ Len(queue \o new) = Len(queue) + Len(new)
          /\ \A i \in 1..Len(queue) + Len(new) :
               (queue \o new)[i] = IF i <= Len(queue) THEN queue[i] ELSE new[i - Len(queue)]
      BY <1>3, <1>6, ConcatProperties
    <2>2. /\ Len(queue) \in Nat /\ Len(new) \in Nat
          /\ DOMAIN queue = 1..Len(queue) /\ DOMAIN new = 1..Len(new)
          /\ DOMAIN (queue \o new) = 1..Len(queue \o new)
      BY <1>3, <1>6, <2>1, LenProperties
    <2> QED BY <1>1, <2>1, <2>2
  <1>8. \A i \in DOMAIN queue' :
          \/ i \in DOMAIN queue /\ queue'[i] = queue[i] /\ queue'[i] \notin S
          \/ i - Len(queue) \in DOMAIN new /\ queue'[i] = new[i - Len(queue)] /\ queue'[i] \in S
             /\ ~(i <= Len(queue))
    <2> SUFFICES ASSUME NEW i \in DOMAIN queue'
                 PROVE  \/ i \in DOMAIN queue /\ queue'[i] = queue[i] /\ queue'[i] \notin S
                        \/ /\ i - Len(queue) \in DOMAIN new
                           /\ queue'[i] = new[i - Len(queue)] /\ queue'[i] \in S
                           /\ ~(i <= Len(queue))
      OBVIOUS
    <2>1. CASE i <= Len(queue)
      <3>1. i \in DOMAIN queue /\ queue'[i] = queue[i] BY <1>7, <2>1
      <3>2. state[queue[i]] = "Queued" BY <1>3, <3>1
      <3> QED BY <3>1, <3>2
    <2>2. CASE ~(i <= Len(queue))
      <3>1. i - Len(queue) \in DOMAIN new /\ queue'[i] = new[i - Len(queue)] BY <1>7, <2>2
      <3> QED BY <1>4, <2>2, <3>1
    <2> QED BY <2>1, <2>2
  <1>9. \A i \in DOMAIN queue' : state'[queue'[i]] = "Queued"
    <2> SUFFICES ASSUME NEW i \in DOMAIN queue' PROVE state'[queue'[i]] = "Queued"
      OBVIOUS
    <2>1. queue'[i] \in Asset /\ (queue'[i] \in S \/ state[queue'[i]] = "Queued")
      BY <1>3, <1>5, <1>8
    <2> QED BY <2>1 DEF Enqueue
  <1>10. \A i, j \in DOMAIN queue' : queue'[i] = queue'[j] => i = j
    <2> SUFFICES ASSUME NEW i \in DOMAIN queue', NEW j \in DOMAIN queue', queue'[i] = queue'[j]
                 PROVE  i = j
      OBVIOUS
    <2>1. CASE queue'[i] \notin S BY <1>3, <1>8, <2>1
    <2>2. CASE queue'[i] \in S
      <3>1. i - Len(queue) = j - Len(queue) BY <1>2, <1>8, <2>2
      <3> QED BY <1>7, <3>1
    <2> QED BY <2>1, <2>2
  <1> QED BY <1>7, <1>9, <1>10 DEF QueueInv

(* A step that leaves the queue and does not touch what is queued. *)
LEMMA QueueQuiet ==
  ASSUME QueueInv, UNCHANGED queue, \A a \in Asset : state[a] = "Queued" => state'[a] = "Queued",
         phase' \in {"joining", "stopped"} => phase \in {"joining", "stopped"}
  PROVE  QueueInv'
  <1>1. \A i \in DOMAIN queue : queue[i] \in Asset BY ElementOf DEF QueueInv
  <1> QED BY <1>1 DEF QueueInv

(* A loader takes the first asset of the queue, which is queued nowhere else. *)
LEMMA QueueLoad ==
  ASSUME LoaderInv, QueueInv, NEW w \in Worker, Load(w)
  PROVE  QueueInv'
  <1>1. UNCHANGED phase BY DEF Load, WaitForWork, Decode, BeginPublish, EndPublish
  <1>2. CASE WaitForWork(w) /\ Take(w)
    <2> DEFINE a == Head(queue)
    <2>1. queue \in Seq(Asset) /\ queue # <<>> BY <1>2 DEF QueueInv, Take
    <2>2. /\ Tail(queue) \in Seq(Asset) /\ Len(Tail(queue)) = Len(queue) - 1
          /\ \A i \in 1..Len(Tail(queue)) : Tail(queue)[i] = queue[i + 1]
      BY ONLY <2>1, HeadTailProperties
    <2>3. /\ DOMAIN queue = 1..Len(queue) /\ Len(queue) \in Nat \ {0} /\ a = queue[1]
          /\ DOMAIN Tail(queue) = 1..(Len(queue) - 1)
      BY <2>1, <2>2
    <2>4. a \in Asset /\ state[a] = "Queued" BY <2>1, <2>3, ElementOf DEF QueueInv
    <2>5. queue' = Tail(queue) /\ state' = [state EXCEPT ![a] = "Loading"]
      BY <1>2, <2>4 DEF Take
    <2> HIDE DEF a
    <2>6. \A i \in DOMAIN queue' : /\ i + 1 \in DOMAIN queue /\ queue'[i] = queue[i + 1]
                                   /\ queue'[i] # a /\ queue'[i] \in Asset
                                   /\ state[queue'[i]] = "Queued"
      <3> SUFFICES ASSUME NEW i \in DOMAIN queue'
                   PROVE  /\ i + 1 \in DOMAIN queue /\ queue'[i] = queue[i + 1]
                          /\ queue'[i] # a /\ queue'[i] \in Asset
                          /\ state[queue'[i]] = "Queued"
        OBVIOUS
      <3>1. i \in 1..(Len(queue) - 1) /\ 1 \in DOMAIN queue /\ i + 1 \in DOMAIN queue
            /\ i + 1 # 1
        BY <2>3, <2>5
      <3>2. queue'[i] = queue[i + 1] BY <2>2, <2>5, <3>1
      <3>3. queue[i + 1] # queue[1] BY <3>1 DEF QueueInv
      <3>4. queue[i + 1] \in Asset BY <2>1, <3>1, ElementOf
      <3> QED BY <2>3, <3>1, <3>2, <3>3, <3>4 DEF QueueInv
    <2>7. \A i \in DOMAIN queue' : state'[queue'[i]] = "Queued"
      BY <2>5, <2>6 DEF LoaderInv, LoaderTypes
    <2>8. \A i, j \in DOMAIN queue' : queue'[i] = queue'[j] => i = j
      <3> SUFFICES ASSUME NEW i \in DOMAIN queue', NEW j \in DOMAIN queue',
                          queue'[i] = queue'[j]
                   PROVE  i = j
        OBVIOUS
      <3>1. i + 1 = j + 1 BY <2>6 DEF QueueInv
      <3>2. i \in Int /\ j \in Int BY <2>3, <2>5
      <3> QED BY <3>1, <3>2
    <2>9. phase \notin {"joining", "stopped"} BY <2>1 DEF QueueInv
    <2> QED BY <1>1, <2>2, <2>5, <2>7, <2>8, <2>9 DEF QueueInv
  <1>3. CASE WaitForWork(w) /\ ~Take(w)
    BY <1>1, <1>3, QueueQuiet DEF WaitForWork, Sleep, Leave
  <1>4. CASE Decode(w) \/ BeginPublish(w)
    BY <1>1, <1>4, QueueQuiet DEF Decode, BeginPublish
  <1>5. CASE EndPublish(w)
    <2>1. /\ pc[w] = "storing" /\ UNCHANGED queue
          /\ state' = [state EXCEPT ![job[w]] = IF found[w] # 0 THEN "Ready" ELSE "Failed"]
      BY <1>5 DEF EndPublish
    <2>2. job[w] \in Asset /\ state[job[w]] = "Loading"
      BY <2>1 DEF LoaderInv, OneLoaderEach, Busy
    <2>3. \A a \in Asset : state[a] = "Queued" => state'[a] = "Queued"
      BY <2>1, <2>2 DEF LoaderInv, LoaderTypes
    <2> QED BY <1>1, <2>1, <2>3, QueueQuiet
  <1> QED BY <1>2, <1>3, <1>4, <1>5 DEF Load

(* QueueInv is inductive relative to LoaderInv. *)
LEMMA QueueStep == LoaderInv /\ QueueInv /\ [Next]_vars => QueueInv'
  <1> SUFFICES ASSUME LoaderInv, QueueInv, [Next]_vars PROVE QueueInv'
    OBVIOUS
  <1>1. CASE UNCHANGED loaderVars BY <1>1, QueueQuiet DEF loaderVars
  <1>2. CASE UNCHANGED vars BY <1>1, <1>2 DEF vars
  <1>3. CASE Callback
    BY <1>1, <1>3
    DEF Callback, BeginBuffer, Hit, Schedule, Consider, Mix, EndBuffer
  <1>4. CASE Serve
    <2>1. Due(at) \in SUBSET Asset /\ \A a \in Due(at) : state[a] = "Unloaded" BY DEF Due
    <2>2. Enqueue(Due(at)) /\ phase' = "play" BY <1>4 DEF Serve, Service
    <2> QED BY <2>1, <2>2, QueueEnqueue
  <1>5. CASE Session
    <2>1. CASE Prepare
      <3> DEFINE S == {a \in Asset : a \in StartupQueued /\ state[a] = "Unloaded"}
      <3>1. S \in SUBSET Asset /\ \A a \in S : state[a] = "Unloaded" OBVIOUS
      <3>2. Enqueue(S) /\ phase' = "loading" BY <2>1 DEF Prepare
      <3> HIDE DEF S
      <3> QED BY <3>1, <3>2, QueueEnqueue
    <2>2. CASE StartPlay BY <2>2, QueueQuiet DEF StartPlay
    <2>3. CASE StopWorkers BY <2>3 DEF StopWorkers, QueueInv
    <2>4. CASE Joined
      <3>1. queue = <<>> /\ UNCHANGED queue BY <2>4 DEF Joined, QueueInv
      <3> QED BY <3>1 DEF QueueInv
    <2> QED BY <1>5, <2>1, <2>2, <2>3, <2>4 DEF Session
  <1>6. CASE Loaders BY <1>6, QueueLoad DEF Loaders
  <1>7. CASE Cancel BY <1>7, QueueQuiet DEF Cancel, CancelLoading
  <1>8. CASE Finish \/ Abort BY <1>8, QueueQuiet DEF Finish, Abort, Shutdown
  <1> QED BY <1>2, <1>3, <1>4, <1>5, <1>6, <1>7, <1>8 DEF Next


(* There are finitely many notes, and hits. *)
LEMMA HitsFinite ==
  ASSUME NEW H \in SUBSET (DOMAIN Notes)
  PROVE  IsFiniteSet(H) /\ Cardinality(H) \in Nat /\ Cardinality(H) <= Len(Notes)
  <1>1. DOMAIN Notes = 1..Len(Notes) /\ Len(Notes) \in Nat BY LoaderAssumption
  <1>2. IsFiniteSet(1..Len(Notes)) /\ Cardinality(1..Len(Notes)) = Len(Notes)
    <2>1. Len(Notes) \in Int /\ 1 \in Int BY <1>1
    <2>2. /\ IsFiniteSet(1..Len(Notes))
          /\ Cardinality(1..Len(Notes)) = IF 1 > Len(Notes) THEN 0 ELSE Len(Notes) - 1 + 1
      BY ONLY <2>1, FS_Interval
    <2> QED BY ONLY <1>1, <2>2
  <1>3. IsFiniteSet(H) /\ Cardinality(H) <= Len(Notes)
    <2>1. H \in SUBSET (1..Len(Notes)) BY <1>1
    <2> QED BY ONLY <1>2, <2>1, FS_Subset
  <1> QED BY <1>3, FS_CardinalityType

(* A cue and a note are one voice each. *)
LEMMA VoicesFit ==
  ASSUME MixInv, ListInv
  PROVE  /\ Len(voices) \in Nat /\ Len(voices) <= Len(Bgm) + Len(Notes)
         /\ Len(kept) \in Nat
         /\ 0..Len(voices) \subseteq Place /\ {0, 1} \subseteq Place
         /\ Place \subseteq Nat
  <1>1. Len(Bgm) \in Nat /\ Len(Notes) \in Nat BY LoaderAssumption
  <1>2. next \in 1..(Len(Bgm) + 1) /\ Len(voices) \in Nat /\ Len(kept) \in Nat
    BY DEF MixInv, MixTypes
  <1>3. Cardinality(hit) \in Nat /\ Cardinality(hit) <= Len(Notes)
    BY HitsFinite DEF ListInv
  <1>4. Len(voices) <= Len(Bgm) + Len(Notes) BY <1>1, <1>2, <1>3 DEF ListInv
  <1> QED BY <1>1, <1>2, <1>4 DEF Place, Larger

(* No voice at first. *)
LEMMA ListInitInv == Init => ListInv
  <1> SUFFICES ASSUME Init PROVE ListInv
    OBVIOUS
  <1>1. Len(Bgm) \in Nat /\ Len(Notes) \in Nat BY LoaderAssumption
  <1>2. /\ voices = <<>> /\ kept = <<>> /\ next = 1 /\ hit = {} /\ cb = "idle" /\ turn = 0
    BY DEF Init
  <1>3. Cardinality(hit) = 0 BY <1>2, FS_EmptySet
  <1>4. turn \in Place BY <1>1, <1>2 DEF Place, Larger
  <1> QED BY <1>2, <1>3, <1>4 DEF ListInv

(* A note that is hit is one more voice and one more hit. *)
LEMMA ListHit ==
  ASSUME MixInv, ListInv, NEW n \in DOMAIN Notes, NEW start \in at..(End + Lookahead), Hit(n, start)
  PROVE  ListInv'
  <1>1. /\ n \notin hit /\ hit' = hit \cup {n} /\ cb = "input"
        /\ voices' = Append(voices, Voice(Notes[n], "key", start))
        /\ UNCHANGED <<cb, turn, kept, next>>
    BY DEF Hit
  <1>2. hit' \subseteq DOMAIN Notes BY <1>1 DEF ListInv
  <1>3. Cardinality(hit') = Cardinality(hit) + 1
    <2>1. IsFiniteSet(hit) BY HitsFinite DEF ListInv
    <2> QED BY <1>1, <2>1, FS_AddElement
  <1>4. Len(voices') = Len(voices) + 1 /\ Len(voices) \in Nat
    BY <1>1 DEF MixInv, MixTypes
  <1>5. next \in Int /\ Cardinality(hit) \in Nat
    BY HitsFinite DEF ListInv, MixInv, MixTypes
  <1>6. Len(voices') <= next' - 1 + Cardinality(hit')
    BY <1>1, <1>3, <1>4, <1>5 DEF ListInv
  <1>7. Place' = Place BY DEF Place
  <1> QED BY <1>1, <1>2, <1>6, <1>7 DEF ListInv

(* The cues of a buffer are one voice each. *)
LEMMA ListSchedule == ASSUME MixInv, ListInv, Schedule PROVE ListInv'
  <1>1. /\ cb = "input" /\ voices' = Scheduled /\ next' = next + Cardinality(Starting)
        /\ cb' = (IF Scheduled = <<>> THEN "end" ELSE "consider")
        /\ turn' = 1 /\ UNCHANGED <<kept, hit>>
    BY DEF Schedule
  <1>2. /\ Len(Scheduled) = Len(voices) + Cardinality(Starting)
        /\ Cardinality(Starting) \in Nat /\ Len(Scheduled) \in Nat
    BY ScheduledType
  <1>3. next \in Int /\ Cardinality(hit) \in Nat /\ Len(voices) \in Nat
    BY HitsFinite DEF ListInv, MixInv, MixTypes
  <1>4. kept = <<>> /\ turn' \in Place BY <1>1, VoicesFit DEF ListInv
  <1>5. Len(voices') <= next' - 1 + Cardinality(hit')
    BY <1>1, <1>2, <1>3 DEF ListInv
  <1>6. Len(kept') = 0 /\ Len(kept') <= Len(voices') BY <1>1, <1>2, <1>4
  <1>7. Place' = Place BY DEF Place
  <1> QED BY <1>1, <1>4, <1>5, <1>6, <1>7 DEF ListInv

(* A candidate is pinned in its place. *)
LEMMA ListConsider == ASSUME MixInv, ListInv, Consider PROVE ListInv'
  <1>1. cb = "consider" /\ NextTurn("mix") /\ UNCHANGED <<kept, next, hit>>
    BY DEF Consider
  <1>2. \/ voices' = [voices EXCEPT ![turn].pinned = identity[voices[turn].key.asset]]
        \/ voices' = voices
    BY DEF Consider
  <1>3. Len(voices') = Len(voices) BY <1>2 DEF MixInv, MixTypes
  <1>4. turn \in 1..Len(voices) /\ Len(voices) \in Nat BY <1>1 DEF MixInv, MixTypes
  <1>5. kept' = <<>> BY <1>1 DEF ListInv
  <1>6. turn' \in 0..Len(voices) /\ (cb' = "mix" => turn' = 1) /\ cb' \in {"consider", "mix"}
    BY <1>1, <1>4 DEF NextTurn
  <1>7. turn' \in Place BY <1>6, VoicesFit
  <1>8. cb' = "mix" => Len(kept') <= turn' - 1 BY <1>5, <1>6
  <1>9. Place' = Place BY DEF Place
  <1> QED BY <1>1, <1>3, <1>5, <1>6, <1>7, <1>8, <1>9 DEF ListInv

(* A voice is kept once, or dropped. *)
LEMMA ListMix == ASSUME MixInv, ListInv, Mix PROVE ListInv'
  <1>1. cb = "mix" /\ NextTurn("end") /\ UNCHANGED <<voices, next, hit>>
    BY DEF Mix
  <1>2. Len(kept') <= Len(kept) + 1 /\ Len(kept') \in Nat
    <2>1. \/ UNCHANGED kept
          \/ \E v : kept' = Append(kept, v)
      BY DEF Mix, MixMissing, MixClip, Keep, Drop
    <2>2. kept \in Seq(VoiceSet) BY DEF MixInv, MixTypes
    <2> QED BY <2>1, <2>2
  <1>3. turn \in 1..Len(voices) /\ Len(voices) \in Nat BY <1>1 DEF MixInv, MixTypes
  <1>4. Len(kept) <= turn - 1 /\ Len(kept) \in Nat BY <1>1, VoicesFit DEF ListInv
  <1>5. /\ cb' \in {"mix", "end"} /\ turn' \in 0..Len(voices)
        /\ cb' = "mix" => turn' = turn + 1
        /\ cb' = "end" => turn = Len(voices)
    BY <1>1, <1>3 DEF NextTurn
  <1>6. turn' \in Place BY <1>5, VoicesFit
  <1>7. cb' = "mix" => Len(kept') <= turn' - 1 BY <1>2, <1>3, <1>4, <1>5
  <1>8. cb' = "end" => Len(kept') <= Len(voices') BY <1>1, <1>2, <1>3, <1>4, <1>5
  <1>9. Place' = Place BY DEF Place
  <1> QED BY <1>1, <1>5, <1>6, <1>7, <1>8, <1>9 DEF ListInv

(* ListInv is inductive relative to MixInv. *)
LEMMA ListStep == MixInv /\ ListInv /\ [Next]_vars => ListInv'
  <1> SUFFICES ASSUME MixInv, ListInv, [Next]_vars PROVE ListInv'
    OBVIOUS
  <1>1. CASE UNCHANGED mixVars BY <1>1 DEF mixVars, ListInv, Place
  <1>2. CASE UNCHANGED vars BY <1>1, <1>2 DEF vars
  <1>3. CASE BeginBuffer BY <1>3 DEF BeginBuffer, ListInv, Place
  <1>4. CASE EndBuffer
    <2>1. /\ cb = "end" /\ voices' = kept /\ kept' = <<>> /\ cb' = "idle" /\ turn' = 0
          /\ UNCHANGED <<next, hit>>
      BY <1>4 DEF EndBuffer
    <2>2. Len(kept) <= Len(voices) /\ Len(kept) \in Nat /\ Len(voices) \in Nat
      BY <2>1, VoicesFit DEF ListInv
    <2>3. next \in Int /\ Cardinality(hit) \in Nat
      BY HitsFinite DEF ListInv, MixInv, MixTypes
    <2>4. Len(voices') <= next' - 1 + Cardinality(hit') BY <2>1, <2>2, <2>3 DEF ListInv
    <2>5. turn' \in Place' BY <2>1, VoicesFit DEF Place
    <2> QED BY <2>1, <2>4, <2>5 DEF ListInv
  <1>5. CASE Callback
    BY <1>3, <1>4, <1>5, ListHit, ListSchedule, ListConsider, ListMix DEF Callback
  <1>6. CASE ~Callback /\ Next
    BY <1>1, <1>6
    DEF Next, Serve, Session, Loaders, Cancel, Finish, Abort, Shutdown
  <1> QED BY <1>2, <1>5, <1>6


(* An id is a place of the registry. *)
LEMMA KnownIds ==
  ASSUME LoaderInv, IdInv
  PROVE  /\ Len(registry) <= Cardinality(Decoded)
         /\ \A id, p : Known(id, p) => id \in Id
         /\ identity \in [Asset -> Id] /\ 0 \in Id
  <1>1. registry \in Seq(Decoded) /\ \A i, j \in DOMAIN registry : registry[i] = registry[j] => i = j
    BY DEF IdInv, LoaderInv, OneIdEach
  <1>2. /\ Len(registry) <= Cardinality(Decoded)
        /\ \A id, p : KnownIn(registry, id, p) => id \in Id
    BY ONLY <1>1, RegistryFits
  <1>3. 0 \in Id BY DecodedFinite DEF Id
  <1>4. \A a \in Asset : identity[a] \in Id
    BY <1>2, <1>3 DEF LoaderInv, ClipsKnown, Known
  <1>5. identity \in [Asset -> Id] BY <1>4 DEF LoaderInv, LoaderTypes
  <1> QED BY <1>2, <1>3, <1>5 DEF Known

(* No id is given at first. *)
LEMMA IdInitInv == Init => IdInv
  <1> SUFFICES ASSUME Init PROVE IdInv
    OBVIOUS
  <1>1. 0 \in Id /\ 0 \in Place /\ 0 \in Int
    BY DecodedFinite, LoaderAssumption DEF Id, Place, Larger
  <1>2. /\ registry = <<>> /\ found = [w \in Worker |-> 0]
        /\ candidate = [o \in Occurrence |-> NoCandidate]
    BY DEF Init, LoaderInit
  <1>3. NoCandidate \in [start : Int, turn : Place, id : Id] BY <1>1 DEF NoCandidate
  <1> QED BY <1>1, <1>2, <1>3 DEF IdInv

(* A step that gives no id. *)
LEMMA IdQuiet ==
  ASSUME IdInv, registry' = registry \/ registry' = <<>>, UNCHANGED <<found, candidate>>
  PROVE  IdInv'
  <1>1. registry' \in Seq(Decoded)
    <2>1. registry \in Seq(Decoded) BY DEF IdInv
    <2>2. <<>> \in Seq(Decoded) OBVIOUS
    <2> QED BY <2>1, <2>2
  <1>2. /\ Place' = Place /\ Id' = Id /\ Occurrence' = Occurrence /\ Decoded' = Decoded
    BY DEF Place, Id, Occurrence, Decoded
  <1> QED BY <1>1, <1>2 DEF IdInv

(* A decoding registers a sound of the chart's files. *)
LEMMA IdDecode ==
  ASSUME LoaderInv, LoaderInv', IdInv, NEW w \in Worker, Decode(w), UNCHANGED candidate
  PROVE  IdInv'
  <1>1. pc[w] = "decoding" BY DEF Decode
  <1>2. job[w] \in Asset BY <1>1 DEF LoaderInv, OneLoaderEach, Busy
  <1>3. CASE Sound[job[w]] = Broken
    <2>1. found' = [found EXCEPT ![w] = 0] /\ UNCHANGED registry BY <1>3 DEF Decode
    <2>2. 0 \in Id BY KnownIds
    <2> QED BY <2>1, <2>2 DEF IdInv
  <1>4. CASE Sound[job[w]] # Broken
    <2> DEFINE pcm == Sound[job[w]]
    <2>1. pcm \in Decoded /\ pcm \in Pcm BY <1>2, <1>4, LoaderAssumption DEF Decoded
    <2>2. Intern(pcm) /\ found' = [found EXCEPT ![w] = IdOf(pcm, registry')]
      BY <1>4 DEF Decode
    <2> HIDE DEF pcm
    <2>3. registry' \in Seq(Decoded) BY <2>1, <2>2 DEF Intern, IdInv
    <2>4. KnownIn(registry', IdOf(pcm, registry'), pcm)
      BY <2>1, <2>2, InternKeeps DEF LoaderInv, LoaderTypes
    <2>5. \A i, j \in DOMAIN registry' : registry'[i] = registry'[j] => i = j
      BY DEF LoaderInv, OneIdEach
    <2>6. IdOf(pcm, registry') \in Id
      <3>1. \A id, p : KnownIn(registry', id, p) => id \in Id
        BY ONLY <2>3, <2>5, RegistryFits
      <3> QED BY <2>4, <3>1
    <2> QED BY <2>2, <2>3, <2>6 DEF IdInv
  <1> QED BY <1>3, <1>4

(* A candidate has the id of its clip and its place in the list. *)
LEMMA IdConsider ==
  ASSUME LoaderInv, MixInv, ListInv, IdInv, Consider
  PROVE  IdInv'
  <1> DEFINE v == voices[turn]
             id == identity[v.key.asset]
  <1>1. cb = "consider" /\ UNCHANGED <<registry, found>> BY DEF Consider, loaderVars
  <1>2. turn \in DOMAIN voices /\ v \in VoiceSet /\ v.key.asset \in Asset BY <1>1, TurnType
  <1>3. id \in Id BY <1>2, KnownIds
  <1>4. turn \in Place /\ v.start \in Int BY <1>2 DEF ListInv, VoiceSet
  <1>5. Entry(v, id) \in [start : Int, turn : Place, id : Id]
    BY <1>3, <1>4 DEF Entry
  <1>6. UNCHANGED candidate \/ candidate' = [candidate EXCEPT ![v.key] = Entry(v, id)]
    BY DEF Consider
  <1> HIDE DEF v, id
  <1>7. candidate' \in [Occurrence -> [start : Int, turn : Place, id : Id]]
    BY <1>5, <1>6 DEF IdInv
  <1> QED BY <1>1, <1>7 DEF IdInv

(* IdInv is inductive relative to the others. *)
LEMMA IdStep ==
  LoaderInv /\ LoaderInv' /\ MixInv /\ ListInv /\ IdInv /\ [Next]_vars => IdInv'
  <1> SUFFICES ASSUME LoaderInv, LoaderInv', MixInv, ListInv, IdInv, [Next]_vars PROVE IdInv'
    OBVIOUS
  <1>1. CASE UNCHANGED vars BY <1>1, IdQuiet DEF vars, loaderVars, mixVars
  <1>2. CASE Callback
    <2>1. CASE Consider BY <2>1, IdConsider
    <2>2. CASE Schedule
      <3>1. NoCandidate \in [start : Int, turn : Place, id : Id]
        BY KnownIds, VoicesFit DEF NoCandidate
      <3>2. candidate' = [o \in Occurrence |-> NoCandidate] /\ UNCHANGED <<registry, found>>
        BY <2>2 DEF Schedule, loaderVars
      <3> QED BY <3>1, <3>2 DEF IdInv
    <2> QED
      BY <1>2, <2>1, <2>2, IdQuiet
      DEF Callback, BeginBuffer, Hit, Mix, EndBuffer, loaderVars
  <1>3. CASE Serve BY <1>3, IdQuiet DEF Serve, Service, mixVars
  <1>4. CASE Session
    BY <1>4, IdQuiet DEF Session, Prepare, StartPlay, StopWorkers, Joined, mixVars
  <1>5. CASE Loaders
    <2>1. PICK w \in Worker : Load(w) BY <1>5 DEF Loaders
    <2>2. UNCHANGED candidate BY <1>5 DEF Loaders, mixVars
    <2>3. CASE Decode(w) BY <2>2, <2>3, IdDecode
    <2>4. CASE EndPublish(w)
      <3>1. 0 \in Id BY KnownIds
      <3>2. found' = [found EXCEPT ![w] = 0] /\ UNCHANGED registry BY <2>4 DEF EndPublish
      <3> QED BY <2>2, <3>1, <3>2 DEF IdInv
    <2> QED
      BY <2>1, <2>2, <2>3, <2>4, IdQuiet DEF Load, WaitForWork, BeginPublish
  <1>6. CASE Cancel BY <1>6, IdQuiet DEF Cancel, CancelLoading, mixVars
  <1>7. CASE Finish \/ Abort BY <1>7, IdQuiet DEF Finish, Abort, Shutdown, mixVars
  <1> QED BY <1>1, <1>2, <1>3, <1>4, <1>5, <1>6, <1>7 DEF Next

(* The session's phases and the flags. *)
LEMMA FlagInit == Init => FlagTypes
  <1>1. Never \in Int BY DEF Never
  <1> QED BY <1>1 DEF Init, LoaderInit, FlagTypes

(* No step leaves its phase or flag undefined. *)
LEMMA FlagStep == MixInv /\ FlagTypes /\ [Next]_vars => FlagTypes'
  <1> SUFFICES ASSUME MixInv, FlagTypes, [Next]_vars PROVE FlagTypes'
    OBVIOUS
  <1>1. CASE UNCHANGED vars BY <1>1 DEF vars, loaderVars, mixVars, FlagTypes
  <1>2. CASE Callback
    <2>1. CASE Schedule
      <3>1. pending' \in BOOLEAN BY <2>1 DEF Schedule, EngineDone
      <3> QED BY <2>1, <3>1 DEF Schedule, loaderVars, FlagTypes
    <2>2. CASE EndBuffer
      <3>1. finished' \in BOOLEAN BY <2>2 DEF EndBuffer
      <3> QED BY <2>2, <3>1 DEF EndBuffer, loaderVars, FlagTypes
    <2> QED
      BY <1>2, <2>1, <2>2
      DEF Callback, BeginBuffer, Hit, Consider, Mix, loaderVars, FlagTypes
  <1>3. CASE Serve
    BY <1>3 DEF Serve, Service, mixVars, FlagTypes, MixInv, MixTypes
  <1>4. CASE Session
    BY <1>4 DEF Session, Prepare, StartPlay, StopWorkers, Joined, mixVars, FlagTypes
  <1>5. CASE Loaders
    BY <1>5
    DEF Loaders, Load, WaitForWork, Decode, BeginPublish, EndPublish, mixVars, FlagTypes
  <1>6. CASE Cancel BY <1>6 DEF Cancel, CancelLoading, mixVars, FlagTypes
  <1>7. CASE Finish \/ Abort BY <1>7 DEF Finish, Abort, Shutdown, mixVars, FlagTypes
  <1> QED BY <1>1, <1>2, <1>3, <1>4, <1>5, <1>6, <1>7 DEF Next

(* A list of voices whose ids are known is well typed. *)
LEMMA VoicesTyped ==
  ASSUME LoaderInv, IdInv, NEW list \in Seq(VoiceSet), PinnedKnown(list)
  PROVE  list \in Seq(VoiceType)
  <1>1. DOMAIN list = 1..Len(list) /\ Len(list) \in Nat BY LenProperties
  <1>2. \A i \in DOMAIN list : list[i] \in VoiceSet BY ElementOf
  <1>3. \A i \in DOMAIN list : list[i].pinned \in Id BY KnownIds DEF PinnedKnown
  <1>4. \A i \in DOMAIN list : list[i] \in VoiceType
    BY <1>2, <1>3 DEF VoiceSet, VoiceType
  <1> QED BY <1>1, <1>4

(* The state is well typed: no list outgrows what can enter it, for a chart of  *)
(* any size, any number of loaders and any interleaving.                        *)
THEOREM WellTyped == Spec => []TypeOK
  <1> DEFINE Inv == /\ LoaderInv /\ MixInv /\ TailInv /\ TwinInv
                    /\ QueueInv /\ ListInv /\ IdInv /\ FlagTypes
  <1>1. Init => Inv
    BY LoaderInitInv, MixInitInv, TailInitInv, TwinInitInv, QueueInitInv, ListInitInv,
       IdInitInv, FlagInit
  <1>2. Inv /\ [Next]_vars => Inv'
    BY LoaderStep, MixStep, TailStep, TwinStep, QueueStep, ListStep, IdStep, FlagStep
  <1>3. Inv => TypeOK
    <2> SUFFICES ASSUME Inv PROVE TypeOK
      OBVIOUS
    <2>1. Len(queue) <= Assets BY AssetsFinite, DistinctFit DEF QueueInv
    <2>2. LoaderType
      BY <2>1, KnownIds DEF LoaderType, FlagTypes, LoaderInv, LoaderTypes, QueueInv, IdInv
    <2>3. kept \in Seq(VoiceType) /\ voices \in Seq(VoiceType)
      BY VoicesTyped DEF MixInv, MixTypes
    <2>4. played \in [Occurrence -> Id]
      <3>1. \A o \in Occurrence : played[o] \in Id BY KnownIds DEF MixInv, PlayedKnown
      <3> QED BY <3>1 DEF MixInv, MixTypes
    <2>5. MixType
      BY <2>3, <2>4
      DEF MixType, MixInv, MixTypes, ListInv, IdInv, FlagTypes, TailInv, TwinInv, CandidateTypes
    <2> QED BY <2>2, <2>5 DEF TypeOK
  <1> HIDE DEF Inv
  <1>4. Spec => []Inv BY <1>1, <1>2, PTL DEF Spec
  <1> QED BY <1>3, <1>4, PTL

================================================================================
