--------------------------- MODULE InputThreadProofs ---------------------------
(***************************************************************************)
(* What the tracker promises of a key, for any number of keyboards, any    *)
(* window and any queue, in every behaviour of the input thread.           *)
(*                                                                         *)
(* Types and ownership (IInv) come first: each case of                     *)
(* KeyStateTracker::process is a lemma of its own, and every action that   *)
(* touches the key uses one of them. QuietInv says what the debounce of    *)
(* the poll must hold while the window of a release runs. CaughtUp says of *)
(* every keyboard how its last message, still under way or handled, stands *)
(* to the finger, the last state of the poll and the owners of the key:    *)
(* once nothing is under way, they agree.                                  *)
(***************************************************************************)
EXTENDS InputThread, FiniteSetTheorems, TLAPS

(* A key as the tracker may hold it: typed, and consistently owned.        *)
Sound(k) == k \in KeyStates /\ Consistent(k)

(* Counters go down to zero and no further.                                *)
LEMMA LowerType == ASSUME NEW n \in Nat PROVE Lower(n) \in Nat /\ Lower(n) =< n
  BY DEF Lower

(* Sets of sources are finite and have a size.                             *)
LEMMA SourcesFinite ==
  ASSUME NEW S \in SUBSET Sources
  PROVE  IsFiniteSet(S) /\ Cardinality(S) \in Nat /\ (Cardinality(S) = 0 <=> S = {})
<1>1. IsFiniteSet(Sources)
  BY KeyboardsAssumption, FS_AddElement DEF Sources
<1>2. IsFiniteSet(S)
  BY <1>1, FS_Subset
<1> QED BY <1>2, FS_CardinalityType, FS_EmptySet

(* A key no source has reported, and a reset one.                          *)
LEMMA FreshSound == Sound(FreshKey)
<1>1. FreshKey \in KeyStates
  BY WindowAssumption DEF FreshKey, KeyStates
<1>2. Consistent(FreshKey)
  BY FS_EmptySet DEF FreshKey, Consistent
<1> QED BY <1>1, <1>2 DEF Sound

(* Time passing touches no ownership.                                      *)
LEMMA CoolSound == ASSUME NEW k, Sound(k) PROVE Sound(Cool(k))
<1>1. \A s \in Sources : Lower(k.cooling[s]) \in 0..Window
  BY WindowAssumption DEF Sound, KeyStates, Lower
<1>2. Cool(k) \in KeyStates
  BY <1>1 DEF Sound, KeyStates, Cool
<1>3. Cool(k).down = k.down /\ Cool(k).suppressed = k.suppressed /\ Cool(k).count = k.count
      /\ Cool(k).pollingOnly = k.pollingOnly
  BY DEF Cool, Sound, KeyStates
<1> QED BY <1>2, <1>3 DEF Sound, Consistent

(* Polling's release takes every owner away.                               *)
LEMMA PollingReleaseSound == ASSUME NEW k, Sound(k) PROVE Sound(PollingRelease(k))
<1>0. k.pollingOnly \in BOOLEAN /\ k.cooling \in [Sources -> 0..Window]
  BY DEF Sound, KeyStates
<1>1. PollingRelease(k) \in KeyStates
  <2> DEFINE released == k.down \cup k.suppressed
             cooled == IF released = {} THEN {} ELSE released \cup {Polling}
             cooling == [s \in Sources |-> IF s \in cooled THEN Window ELSE k.cooling[s]]
  <2>1. cooling \in [Sources -> 0..Window]
    BY <1>0, WindowAssumption
  <2>2. PollingRelease(k) = [down |-> {}, suppressed |-> {}, cooling |-> cooling, count |-> 0,
                             pollingOnly |-> k.pollingOnly]
    <3>1. k = [down |-> k.down, suppressed |-> k.suppressed, cooling |-> k.cooling,
               count |-> k.count, pollingOnly |-> k.pollingOnly]
      BY DEF Sound, KeyStates
    <3>2. PollingRelease(k) = [k EXCEPT !.down = {}, !.suppressed = {}, !.count = 0, !.cooling = cooling]
      BY Zenon DEF PollingRelease
    <3> HIDE DEF cooling
    <3> QED BY <3>1, <3>2
  <2> HIDE DEF cooling
  <2> QED BY <1>0, <2>1, <2>2 DEF KeyStates
<1>2. PollingRelease(k).down = {} /\ PollingRelease(k).suppressed = {} /\ PollingRelease(k).count = 0
  BY DEF PollingRelease, Sound, KeyStates
<1>3. Consistent(PollingRelease(k))
  BY <1>2, FS_EmptySet DEF Consistent
<1> QED BY <1>1, <1>3 DEF Sound

(* What is left when one source lets go.                                   *)
LEMMA CountWithoutIs ==
  ASSUME NEW k, Sound(k), NEW s \in Sources
  PROVE  CountWithout(k, s) \in Nat /\ CountWithout(k, s) = Cardinality(k.down \ {s})
<1>1. k.down \in SUBSET Sources /\ k.count \in Nat /\ k.count = Cardinality(k.down)
  BY DEF Sound, KeyStates, Consistent
<1>2. IsFiniteSet(k.down)
  BY <1>1, SourcesFinite
<1>3. Cardinality(k.down \ {s}) = IF s \in k.down THEN Cardinality(k.down) - 1 ELSE Cardinality(k.down)
  BY <1>2, FS_RemoveElement
<1>4. Cardinality(k.down \ {s}) \in Nat
  BY <1>1, SourcesFinite
<1>5. s \in k.down => k.count > 0
  BY <1>1, SourcesFinite
<1> QED BY <1>1, <1>3, <1>4, <1>5 DEF CountWithout, Lower

(* A keyboard's release: the others keep their ownership.                  *)
LEMMA RawReleaseSound ==
  ASSUME NEW k, Sound(k), NEW s \in Keyboards
  PROVE  Sound(RawRelease(k, s))
<1> DEFINE after == RawRelease(k, s)
           attributed == k.pollingOnly /\ Polling \in k.suppressed
           counted == s \in k.down \cup k.suppressed \/ attributed
<1>0. s \in Sources /\ s # Polling
  BY KeyboardsAssumption DEF Sources
<1>1. CASE ~counted
  <2>1. after = k
    BY <1>1 DEF RawRelease
  <2> QED BY <2>1
<1>2. CASE counted
  <2> DEFINE others == k.suppressed \ {s}
  <2>1. k.down \in SUBSET Sources /\ k.suppressed \in SUBSET Sources /\ k.pollingOnly \in BOOLEAN
        /\ k.cooling \in [Sources -> 0..Window]
    BY DEF Sound, KeyStates
  <2>2. /\ after.down = k.down \ {s}
        /\ after.suppressed = IF CountWithout(k, s) > 0 THEN others
                              ELSE IF others \cap Keyboards = {} THEN {} ELSE others \cup {Polling}
        /\ after.cooling = [t \in Sources |-> IF t \in CooledBy(k, s) THEN Window ELSE k.cooling[t]]
        /\ after.count = CountWithout(k, s)
        /\ after.pollingOnly = (k.pollingOnly /\ ~attributed)
        /\ after = [down |-> after.down, suppressed |-> after.suppressed, cooling |-> after.cooling,
                    count |-> after.count, pollingOnly |-> after.pollingOnly]
    BY <1>2 DEF RawRelease
  <2>3. CountWithout(k, s) \in Nat /\ CountWithout(k, s) = Cardinality(k.down \ {s})
    BY <1>0, CountWithoutIs
  <2>4. after.cooling \in [Sources -> 0..Window]
    BY <2>1, <2>2, WindowAssumption
  <2>5. after.suppressed \in SUBSET Sources
    BY <2>1, <2>2 DEF Sources
  <2>6. after \in KeyStates
    BY <2>1, <2>2, <2>3, <2>4, <2>5 DEF KeyStates
  <2>7. after.count = Cardinality(after.down)
    BY <2>2, <2>3
  <2>8. Polling \in after.down => after.down = {Polling} /\ after.pollingOnly
    BY <1>0, <2>2 DEF Sound, Consistent
  <2>9. after.down \cap after.suppressed = {}
    <3>1. CASE CountWithout(k, s) > 0
      BY <2>2, <3>1 DEF Sound, Consistent
    <3>2. CASE ~(CountWithout(k, s) > 0)
      <4>1. Cardinality(k.down \ {s}) = 0
        BY <2>3, <3>2
      <4>2. k.down \ {s} = {}
        BY <2>1, <4>1, SourcesFinite
      <4> QED BY <2>2, <4>2
    <3> QED BY <3>1, <3>2
  <2> QED BY <2>6, <2>7, <2>8, <2>9 DEF Sound, Consistent
<1> QED BY <1>1, <1>2

(* A press, taken, transferred or rejected.                                *)
LEMMA PressSound ==
  ASSUME NEW k, Sound(k), NEW s \in Sources
  PROVE  Sound(Press(k, s))
<1> DEFINE after == Press(k, s)
           moved == Transferred(k, s)
           known == s \in k.down \cup k.suppressed \/ (s = Polling /\ IsPressed(k))
           mirrored == s # Polling /\ ~IsPressed(k)
<1>0. /\ k.down \in SUBSET Sources /\ k.suppressed \in SUBSET Sources /\ k.pollingOnly \in BOOLEAN
      /\ k.cooling \in [Sources -> 0..Window] /\ k.count \in Nat
      /\ k = [down |-> k.down, suppressed |-> k.suppressed, cooling |-> k.cooling,
              count |-> k.count, pollingOnly |-> k.pollingOnly]
  BY DEF Sound, KeyStates
<1>1. /\ k.count = Cardinality(k.down)
      /\ Polling \in k.down => k.down = {Polling} /\ k.pollingOnly
      /\ k.down \cap k.suppressed = {}
  BY DEF Sound, Consistent
<1>2. Polling \in Sources
  BY DEF Sources
<1>3. IsPressed(k) <=> k.down # {}
  BY <1>0, <1>1, SourcesFinite DEF IsPressed
<1>4. CASE ~moved /\ known
  <2>1. after = k
    BY <1>4 DEF Press
  <2> QED BY <2>1
<1>5. CASE ~moved /\ ~known /\ Rejected(k, s)
  <2>1. after = [k EXCEPT !.suppressed = @ \cup {s} \cup (IF mirrored THEN {Polling} ELSE {}),
                          !.pollingOnly = IF s = Polling THEN TRUE ELSE @ /\ ~mirrored]
    BY <1>5 DEF Press
  <2>2. /\ after.down = k.down /\ after.count = k.count /\ after.cooling = k.cooling
        /\ after.suppressed = k.suppressed \cup {s} \cup (IF mirrored THEN {Polling} ELSE {})
        /\ after.pollingOnly = IF s = Polling THEN TRUE ELSE k.pollingOnly /\ ~mirrored
    BY <1>0, <2>1
  <2>3. after \in KeyStates
    <3>1. after = [down |-> after.down, suppressed |-> after.suppressed, cooling |-> after.cooling,
                   count |-> after.count, pollingOnly |-> after.pollingOnly]
      BY <1>0, <2>1
    <3>2. after.suppressed \in SUBSET Sources
      BY <1>0, <1>2, <2>2
    <3>3. after.pollingOnly \in BOOLEAN
      BY <1>0, <2>2
    <3> HIDE DEF after
    <3> QED BY <1>0, <2>2, <3>1, <3>2, <3>3 DEF KeyStates
  <2>4. Polling \in k.down => s = Polling
    BY <1>5 DEF Transferred
  <2>5. Polling \notin k.down
    BY <2>4, <1>5
  <2>6. after.down \cap after.suppressed = {}
    <3>1. s \notin k.down
      BY <1>5
    <3> QED BY <1>1, <2>2, <2>5, <3>1
  <2> QED BY <1>1, <2>2, <2>3, <2>5, <2>6 DEF Sound, Consistent
<1>6. CASE moved
  <2>1. k.down = {Polling} /\ s # Polling
    BY <1>1, <1>6 DEF Transferred
  <2>2. k.count = 1
    BY <1>1, <2>1, FS_Singleton
  <2>3. Lower(k.count) = 0
    BY <2>2 DEF Lower
  <2>4. after = [k EXCEPT !.down = (k.down \ {Polling}) \cup {s}, !.suppressed = @ \ {s},
                          !.count = Lower(k.count) + 1, !.pollingOnly = (s = Polling)]
    BY <1>6 DEF Press
  <2>5. after.down = {s} /\ after.count = 1 /\ after.suppressed = k.suppressed \ {s}
    BY <1>0, <2>1, <2>3, <2>4
  <2>6. after \in KeyStates
    <3>1. after = [down |-> (k.down \ {Polling}) \cup {s}, suppressed |-> k.suppressed \ {s},
                   cooling |-> k.cooling, count |-> Lower(k.count) + 1, pollingOnly |-> (s = Polling)]
      BY <1>0, <2>4
    <3>2. Lower(k.count) + 1 \in Nat
      BY <2>3
    <3> HIDE DEF after
    <3> QED BY <1>0, <3>1, <3>2 DEF KeyStates
  <2>7. Cardinality(after.down) = 1
    BY <2>5, FS_Singleton
  <2> QED BY <2>1, <2>5, <2>6, <2>7 DEF Sound, Consistent
<1>7. CASE ~moved /\ ~known /\ ~Rejected(k, s)
  <2>1. after = [k EXCEPT !.down = k.down \cup {s}, !.suppressed = k.suppressed,
                          !.count = k.count + 1, !.pollingOnly = (s = Polling)]
    BY <1>0, <1>7 DEF Press
  <2>2. /\ after.down = k.down \cup {s} /\ after.count = k.count + 1
        /\ after.suppressed = k.suppressed /\ after.pollingOnly = (s = Polling)
    BY <1>0, <2>1
  <2>3. after \in KeyStates
    <3>1. after = [down |-> k.down \cup {s}, suppressed |-> k.suppressed, cooling |-> k.cooling,
                   count |-> k.count + 1, pollingOnly |-> (s = Polling)]
      BY <1>0, <2>1
    <3> HIDE DEF after
    <3> QED BY <1>0, <3>1 DEF KeyStates
  <2>4. s \notin k.down /\ s \notin k.suppressed
    BY <1>7
  <2>5. Cardinality(k.down \cup {s}) = Cardinality(k.down) + 1
    BY <1>0, <2>4, SourcesFinite, FS_AddElement
  <2>6. Polling \in after.down => after.down = {Polling} /\ after.pollingOnly
    <3>1. Polling \notin k.down
      BY <1>7 DEF Transferred
    <3>2. s = Polling => k.down = {}
      BY <1>3, <1>7
    <3> QED BY <2>2, <3>1, <3>2
  <2> QED BY <1>1, <2>2, <2>3, <2>4, <2>5, <2>6 DEF Sound, Consistent
<1> QED BY <1>4, <1>5, <1>6, <1>7

(* KeyStateTracker::process, whatever it is given.                         *)
LEMMA ProcessSound ==
  ASSUME NEW k, Sound(k), NEW s \in Sources, NEW pressed \in BOOLEAN
  PROVE  Sound(Process(k, s, pressed))
<1>1. s # Polling => s \in Keyboards
  BY DEF Sources
<1> QED BY <1>1, PressSound, PollingReleaseSound, RawReleaseSound DEF Process

--------------------------------------------------------------------------------

(* What the induction needs: a sound key, and messages from keyboards.     *)
IInv == Sound(key) /\ wire \in Seq(Message)

(* Crossing the focus boundary leaves a sound key.                         *)
LEMMA SyncedSound == ASSUME NEW allowed, IInv PROVE Sound(Synced(allowed))
  BY FreshSound DEF Synced, IInv

(* on_input_event hands on a sound key.                                    *)
LEMMA OnInputEventSound ==
  ASSUME IInv, NEW s \in Sources, NEW pressed \in BOOLEAN, OnInputEvent(s, pressed)
  PROVE  Sound(key')
<1>1. key' = IF foreground THEN Process(Synced(foreground), s, pressed) ELSE Synced(foreground)
  BY DEF OnInputEvent
<1> QED BY <1>1, SyncedSound, ProcessSound

(* The messages in the wire stay messages.                                 *)
LEMMA PostType ==
  ASSUME IInv, NEW kb \in Keyboards, NEW pressed \in BOOLEAN, Post(kb, pressed)
  PROVE  wire' \in Seq(Message)
<1>1. [source |-> kb, pressed |-> pressed] \in Message
  BY DEF Message
<1> QED BY <1>1 DEF IInv, Post

(* Every step keeps the invariant.                                         *)
LEMMA StepSound == IInv /\ [Next]_vars => IInv'
<1> SUFFICES ASSUME IInv, [Next]_vars PROVE IInv'
  OBVIOUS
<1>0. Polling \in Sources /\ Physical \in BOOLEAN
  BY DEF Sources, Physical
<1>1. ASSUME NEW kb \in Keyboards, PressKey(kb) \/ ReleaseKey(kb) PROVE IInv'
  <2>1. wire' \in Seq(Message)
    BY <1>1, PostType DEF PressKey, ReleaseKey
  <2>2. key' = key
    BY <1>1 DEF PressKey, ReleaseKey, thread
  <2> QED BY <2>1, <2>2 DEF IInv
<1>2. ASSUME NEW kb \in Keyboards, AutoRepeat(kb) PROVE IInv'
  <2>0. [source |-> kb, pressed |-> TRUE] \in Message
    BY DEF Message
  <2>1. wire' \in Seq(Message)
    BY <1>2, <2>0 DEF AutoRepeat, IInv
  <2>2. key' = key
    BY <1>2 DEF AutoRepeat, thread
  <2> QED BY <2>1, <2>2 DEF IInv
<1>3. CASE ChangeFocus \/ LoseRegistration
  BY <1>3 DEF ChangeFocus, LoseRegistration, IInv, thread
<1>4. CASE Tick
  <2>1. wire' = wire /\ key' = Cool(key)
    BY <1>4 DEF Tick, device
  <2> QED BY <2>1, CoolSound DEF IInv
<1>5. CASE PumpMessage
  <2>1. Head(wire) \in Message /\ Tail(wire) \in Seq(Message)
    BY <1>5 DEF PumpMessage, IInv
  <2>2. Head(wire).source \in Sources /\ Head(wire).pressed \in BOOLEAN
    BY <2>1 DEF Message, Sources
  <2>3. Sound(key')
    BY <1>5, <2>2, OnInputEventSound DEF PumpMessage
  <2> QED BY <1>5, <2>1, <2>3 DEF PumpMessage, IInv
<1>6. CASE PumpDone
  BY <1>6 DEF PumpDone, IInv, device
<1>7. CASE CheckGate
  <2>1. wire' = wire /\ key' = Synced(foreground)
    BY <1>7 DEF CheckGate, device
  <2> QED BY <2>1, SyncedSound DEF IInv
<1>8. CASE Poll \/ Reconcile
  <2>1. wire' = wire
    BY <1>8 DEF Poll, Reconcile, device
  <2>2. CASE OnInputEvent(Polling, Physical)
    BY <1>0, <2>1, <2>2, OnInputEventSound DEF IInv
  <2>3. CASE key' = key
    BY <2>1, <2>3 DEF IInv
  <2> QED BY <1>8, <2>2, <2>3 DEF Poll, Reconcile, PollKey
<1>9. CASE PumpQuits \/ HealthCheckFails
  <2>1. wire' = <<>> /\ key' = key
    BY <1>9 DEF PumpQuits, HealthCheckFails, FallBackToPolling
  <2> QED BY <2>1 DEF IInv
<1>10. CASE PopEdge \/ Rebaseline
  BY <1>10 DEF PopEdge, Rebaseline, IInv, device, thread
<1>11. CASE UNCHANGED vars
  BY <1>11 DEF vars, IInv
<1> QED BY <1>1, <1>2, <1>3, <1>4, <1>5, <1>6, <1>7, <1>8, <1>9, <1>10, <1>11 DEF Next, Device, Thread

(* However the edges of the keyboards and of the poll interleave, and      *)
(* whatever the focus, the registration and the session do, the owners of  *)
(* the key and their count agree (KeyStateTracker::process).               *)
THEOREM OwnershipConsistent == Spec => []TrackerConsistent
<1>1. Init => IInv
  BY FreshSound DEF Init, IInv
<1>2. IInv => TrackerConsistent
  BY DEF IInv, Sound, TrackerConsistent
<1> QED BY <1>1, <1>2, StepSound, PTL DEF Spec

--------------------------------------------------------------------------------
(* Types.                                                                  *)

(* What the steps do not take from Sound(key).                             *)
PlainTypes ==
  /\ held \in SUBSET Keyboards
  /\ registered \in BOOLEAN /\ foreground \in BOOLEAN
  /\ backend \in {"RawInput", "Polling"} /\ step \in {"pump", "gate", "poll", "reconcile"}
  /\ gate \in BOOLEAN /\ lastState \in BOOLEAN /\ down \in BOOLEAN
  /\ queue \in Seq({"press", "release"}) /\ Len(queue) =< QueueCapacity
  /\ quiet \in [of : Sources, left : 0..Window]
  /\ baselined \in BOOLEAN /\ slipped \in BOOLEAN

(* on_input_event leaves everything in its type.                           *)
LEMMA OnInputEventTypes ==
  ASSUME PlainTypes, NEW s \in Sources, NEW pressed \in BOOLEAN, OnInputEvent(s, pressed)
  PROVE  /\ gate' \in BOOLEAN /\ baselined' \in BOOLEAN /\ slipped' = FALSE
         /\ queue' \in Seq({"press", "release"}) /\ Len(queue') =< QueueCapacity
         /\ quiet' \in [of : Sources, left : 0..Window]
<1> DEFINE before == Synced(foreground)
           after  == IF foreground THEN Process(before, s, pressed) ELSE before
           edge   == EdgeOf(before, after)
<1>1. edge \in Edges
  BY DEF EdgeOf, Edges
<1>2. /\ gate' = foreground /\ baselined' = (baselined \/ (foreground # gate /\ Physical))
      /\ slipped' = FALSE
      /\ queue' = IF edge # "none" /\ Len(queue) < QueueCapacity THEN Append(queue, edge) ELSE queue
      /\ quiet' = IF edge = "release" THEN [of |-> s, left |-> Window]
                  ELSE IF foreground # gate THEN NoRelease ELSE quiet
  BY DEF OnInputEvent
<1> HIDE DEF edge
<1>3. gate' \in BOOLEAN /\ baselined' \in BOOLEAN
  BY <1>2 DEF PlainTypes, Physical
<1>4. queue' \in Seq({"press", "release"}) /\ Len(queue') =< QueueCapacity
  BY <1>1, <1>2, QueueAssumption DEF PlainTypes, Edges
<1>5. NoRelease \in [of : Sources, left : 0..Window] /\ Window \in 0..Window
  BY WindowAssumption DEF NoRelease, Sources
<1>6. quiet' \in [of : Sources, left : 0..Window]
  BY <1>2, <1>5 DEF PlainTypes
<1> QED BY <1>2, <1>3, <1>4, <1>6

(* poll_input_keys leaves everything in its type.                          *)
LEMMA PollKeyTypes ==
  ASSUME PlainTypes, PollKey
  PROVE  /\ gate' \in BOOLEAN /\ baselined' \in BOOLEAN /\ slipped' \in BOOLEAN
         /\ lastState' \in BOOLEAN
         /\ queue' \in Seq({"press", "release"}) /\ Len(queue') =< QueueCapacity
         /\ quiet' \in [of : Sources, left : 0..Window]
<1>0. Polling \in Sources /\ Physical \in BOOLEAN /\ lastState' = Physical
  BY DEF Sources, Physical, PollKey
<1>1. CASE OnInputEvent(Polling, Physical)
  BY <1>0, <1>1, OnInputEventTypes
<1>2. CASE ~OnInputEvent(Polling, Physical)
  <2>1. /\ UNCHANGED <<gate, queue, quiet, baselined>>
        /\ slipped' = (slipped /\ (step = "reconcile" => ~Physical))
    BY <1>2 DEF PollKey
  <2> QED BY <1>0, <2>1 DEF PlainTypes
<1> QED BY <1>1, <1>2

(* Every step leaves every variable in its type.                           *)
LEMMA StepTypes == IInv /\ PlainTypes /\ [Next]_vars => PlainTypes'
<1> SUFFICES ASSUME IInv, PlainTypes, [Next]_vars PROVE PlainTypes'
  OBVIOUS
<1>0. Polling \in Sources /\ Physical \in BOOLEAN /\ NoRelease \in [of : Sources, left : 0..Window]
  BY WindowAssumption DEF Sources, Physical, NoRelease
<1>1. ASSUME NEW kb \in Keyboards, PressKey(kb) \/ ReleaseKey(kb) \/ AutoRepeat(kb) PROVE PlainTypes'
  <2>1. held' \in SUBSET Keyboards
    BY <1>1 DEF PressKey, ReleaseKey, AutoRepeat, PlainTypes
  <2>2. baselined' \in BOOLEAN
    BY <1>1 DEF PressKey, ReleaseKey, AutoRepeat, PlainTypes
  <2>3. UNCHANGED <<registered, foreground, thread, queue, down>>
    BY <1>1 DEF PressKey, ReleaseKey, AutoRepeat
  <2> QED BY <2>1, <2>2, <2>3 DEF PlainTypes, thread
<1>2. CASE ChangeFocus \/ LoseRegistration
  <2>1. /\ registered' \in BOOLEAN /\ foreground' \in BOOLEAN
        /\ UNCHANGED <<held, thread, queue, down, baselined>>
    BY <1>2 DEF ChangeFocus, LoseRegistration, PlainTypes
  <2> QED BY <2>1 DEF PlainTypes, thread
<1>3. CASE Tick
  <2>1. quiet' \in [of : Sources, left : 0..Window]
    <3>1. quiet' = IF quiet.left > 1 THEN [quiet EXCEPT !.left = @ - 1] ELSE NoRelease
      BY <1>3 DEF Tick
    <3>2. quiet.left \in 0..Window
      BY DEF PlainTypes
    <3>3. quiet.left > 1 => quiet.left - 1 \in 0..Window
      BY <3>2, WindowAssumption
    <3> QED BY <1>0, <3>1, <3>3 DEF PlainTypes
  <2> QED BY <1>3, <2>1 DEF Tick, PlainTypes, device
<1>4. CASE PumpMessage
  <2>0. Head(wire) \in Message
    BY <1>4 DEF PumpMessage, IInv
  <2>1. Head(wire).source \in Sources /\ Head(wire).pressed \in BOOLEAN
    BY <2>0 DEF Message, Sources
  <2>2. OnInputEvent(Head(wire).source, Head(wire).pressed)
    BY <1>4 DEF PumpMessage
  <2>3. UNCHANGED <<held, registered, foreground, backend, step, lastState, down>>
    BY <1>4 DEF PumpMessage
  <2> QED BY <2>1, <2>2, <2>3, OnInputEventTypes DEF PlainTypes
<1>5. CASE PumpDone
  BY <1>5 DEF PumpDone, PlainTypes, device
<1>6. CASE CheckGate
  <2>1. quiet' \in [of : Sources, left : 0..Window]
    BY <1>0, <1>6 DEF CheckGate, PlainTypes
  <2> QED BY <1>0, <1>6, <2>1 DEF CheckGate, NextPass, PlainTypes, device
<1>7. CASE Poll \/ Reconcile
  <2>1. /\ UNCHANGED <<held, registered, foreground, backend, down>>
        /\ step' \in {"pump", "gate"} /\ PollKey
    BY <1>7 DEF Poll, Reconcile, NextPass, device
  <2> QED BY <2>1, PollKeyTypes DEF PlainTypes
<1>8. CASE PumpQuits \/ HealthCheckFails
  <2>1. FallBackToPolling
    BY <1>8 DEF PumpQuits, HealthCheckFails
  <2>2. /\ backend' = "Polling" /\ step' = "reconcile" /\ registered' = FALSE
        /\ lastState' \in BOOLEAN /\ slipped' \in BOOLEAN
        /\ UNCHANGED <<held, foreground, gate, queue, quiet, down, baselined>>
    BY <1>0, <2>1 DEF FallBackToPolling, Seed
  <2> QED BY <2>2 DEF PlainTypes
<1>9. CASE PopEdge
  <2>1. queue # <<>> /\ queue' = Tail(queue) /\ down' = (Head(queue) = "press")
    BY <1>9 DEF PopEdge
  <2>2. Tail(queue) \in Seq({"press", "release"}) /\ Len(Tail(queue)) =< QueueCapacity
    BY <2>1, QueueAssumption DEF PlainTypes
  <2>3. down' \in BOOLEAN
    BY <2>1
  <2> QED BY <1>9, <2>1, <2>2, <2>3 DEF PopEdge, PlainTypes, device, thread
<1>10. CASE Rebaseline
  BY <1>0, <1>10, QueueAssumption DEF Rebaseline, PlainTypes, device, thread
<1>11. CASE UNCHANGED vars
  BY <1>11 DEF vars, PlainTypes
<1> QED BY <1>1, <1>2, <1>3, <1>4, <1>5, <1>6, <1>7, <1>8, <1>9, <1>10, <1>11 DEF Next, Device, Thread

(* The game starts with every variable in its type.                        *)
LEMMA InitTypes == Init => IInv /\ PlainTypes
<1> SUFFICES ASSUME Init PROVE IInv /\ PlainTypes
  OBVIOUS
<1>1. IInv
  BY FreshSound DEF Init, IInv
<1>2. NoRelease \in [of : Sources, left : 0..Window]
  BY WindowAssumption DEF NoRelease, Sources
<1>3. queue \in Seq({"press", "release"}) /\ Len(queue) =< QueueCapacity
  BY QueueAssumption DEF Init
<1>4. quiet \in [of : Sources, left : 0..Window]
  BY <1>2 DEF Init
<1> QED BY <1>1, <1>3, <1>4 DEF Init, PlainTypes

(* Type correctness of the input path: the queue never holds more than its *)
(* capacity, whatever the keyboards post (EventQueue::push).               *)
THEOREM InputTypes == Spec => []TypeOK
<1>1. IInv /\ PlainTypes => TypeOK
  BY DEF IInv, Sound, PlainTypes, TypeOK
<1> QED BY <1>1, InitTypes, StepSound, StepTypes, PTL DEF Spec

--------------------------------------------------------------------------------
(* The debounce filter.                                                    *)

(* What process does to the windows: none gets shorter, and the release of *)
(* the key opens the windows of its source and of the mirror.              *)
LEMMA ProcessCools ==
  ASSUME NEW k, Sound(k), NEW s \in Sources, NEW pressed \in BOOLEAN,
         NEW after, after = Process(k, s, pressed)
  PROVE  /\ \A t \in Sources : after.cooling[t] >= k.cooling[t]
         /\ (IsPressed(k) /\ ~IsPressed(after)) =>
              (after.cooling[s] = Window /\ after.cooling[Polling] = Window)
<1>0. /\ k.cooling \in [Sources -> 0..Window] /\ k.down \in SUBSET Sources /\ k.count \in Nat
      /\ k = [down |-> k.down, suppressed |-> k.suppressed, cooling |-> k.cooling,
              count |-> k.count, pollingOnly |-> k.pollingOnly]
      /\ Polling \in Sources /\ Window \in Nat
  BY WindowAssumption DEF Sound, KeyStates, Sources
<1>1. \A t \in Sources : k.cooling[t] \in 0..Window
  BY <1>0
<1>2. CASE pressed
  <2>1. after = Press(k, s)
    BY <1>2 DEF Process
  <2>2. after.cooling = k.cooling /\ (after.count = k.count \/ after.count > 0)
    <3>1. after = k \/ (after.cooling = k.cooling /\ after.count \in {k.count, k.count + 1, Lower(k.count) + 1})
      BY <1>0, <2>1 DEF Press
    <3> QED BY <1>0, <3>1, LowerType
  <2> QED BY <1>1, <2>2 DEF IsPressed
<1>3. CASE ~pressed /\ s = Polling
  <2> DEFINE released == k.down \cup k.suppressed
             cooled == IF released = {} THEN {} ELSE released \cup {Polling}
             cooling == [t \in Sources |-> IF t \in cooled THEN Window ELSE k.cooling[t]]
  <2>1. after = PollingRelease(k)
    BY <1>3 DEF Process
  <2>2. PollingRelease(k) = [k EXCEPT !.down = {}, !.suppressed = {}, !.count = 0, !.cooling = cooling]
    BY Zenon DEF PollingRelease
  <2>3. after.cooling = cooling
    <3> HIDE DEF cooling
    <3> QED BY <1>0, <2>1, <2>2
  <2>4. IsPressed(k) => Polling \in cooled
    <3>1. IsPressed(k) => k.down # {}
      BY FS_EmptySet DEF Sound, Consistent, IsPressed
    <3> QED BY <3>1
  <2> QED BY <1>0, <1>1, <1>3, <2>3, <2>4
<1>4. CASE ~pressed /\ s # Polling
  <2>1. after = RawRelease(k, s)
    BY <1>4 DEF Process
  <2>2. \/ after = k
        \/ /\ after.cooling = [t \in Sources |-> IF t \in CooledBy(k, s) THEN Window ELSE k.cooling[t]]
           /\ after.count = CountWithout(k, s)
    BY <2>1 DEF RawRelease
  <2>3. CASE after = k
    BY <1>1, <2>3
  <2>4. CASE /\ after.cooling = [t \in Sources |-> IF t \in CooledBy(k, s) THEN Window ELSE k.cooling[t]]
             /\ after.count = CountWithout(k, s)
    <3>1. CountWithout(k, s) \in Nat
      BY CountWithoutIs
    <3>2. ~IsPressed(after) => CooledBy(k, s) = {s, Polling}
      BY <2>4, <3>1 DEF IsPressed, CooledBy
    <3> QED BY <1>0, <1>1, <2>4, <3>2
  <2> QED BY <2>2, <2>3, <2>4
<1> QED BY <1>2, <1>3, <1>4

(* A press that is let through comes from a source out of its window, and  *)
(* that source alone owns the key.                                         *)
LEMMA PressLetThroughBy ==
  ASSUME NEW k, Sound(k), NEW s \in Sources, NEW pressed \in BOOLEAN,
         ~IsPressed(k), IsPressed(Process(k, s, pressed))
  PROVE  k.cooling[s] = 0 /\ Process(k, s, pressed).down = {s}
<1> DEFINE after == Process(k, s, pressed)
<1>0. /\ k.down \in SUBSET Sources /\ k.count \in Nat /\ k.cooling[s] \in 0..Window
      /\ k = [down |-> k.down, suppressed |-> k.suppressed, cooling |-> k.cooling,
              count |-> k.count, pollingOnly |-> k.pollingOnly]
  BY DEF Sound, KeyStates
<1>1. k.count = 0 /\ k.down = {}
  BY <1>0, SourcesFinite DEF Sound, Consistent, IsPressed
<1>2. pressed
  <2>1. CASE ~pressed /\ s = Polling
    <3>1. after.count = 0
      BY <1>0, <2>1 DEF Process, PollingRelease
    <3> QED BY <3>1 DEF IsPressed
  <2>2. CASE ~pressed /\ s # Polling
    <3>1. CountWithout(k, s) = 0
      BY <1>1 DEF CountWithout
    <3>2. after.count \in {0, k.count}
      BY <2>2, <3>1 DEF Process, RawRelease
    <3> QED BY <1>1, <3>2 DEF IsPressed
  <2> QED BY <2>1, <2>2
<1>3. after = Press(k, s)
  BY <1>2 DEF Process
<1>4. ~Transferred(k, s)
  BY <1>1 DEF Transferred
<1>5. s \notin k.suppressed /\ ~Rejected(k, s)
  <2>1. s \in k.suppressed => after = k
    BY <1>3, <1>4 DEF Press
  <2>2. s \notin k.suppressed /\ Rejected(k, s) => after.count = k.count
    BY <1>0, <1>1, <1>3, <1>4 DEF Press
  <2> QED BY <1>1, <2>1, <2>2 DEF IsPressed
<1>6. after = [k EXCEPT !.down = k.down \cup {s}, !.suppressed = k.suppressed, !.count = k.count + 1,
                        !.pollingOnly = (s = Polling)]
  BY <1>0, <1>1, <1>3, <1>4, <1>5 DEF Press, IsPressed
<1>7. after.down = {s}
  BY <1>0, <1>1, <1>6
<1> QED BY <1>0, <1>5, <1>7 DEF Rejected

(* While the window of a release runs, so do those of its source and of    *)
(* the mirror.                                                             *)
QuietInv ==
  quiet.left > 0 => /\ key.cooling[quiet.of] >= quiet.left
                    /\ key.cooling[Polling] >= quiet.left

(* on_input_event, as far as the filter is concerned.                      *)
LEMMA OnInputEventQuiet ==
  ASSUME IInv, PlainTypes, QuietInv, NEW s \in Sources, NEW pressed \in BOOLEAN,
         OnInputEvent(s, pressed)
  PROVE  QuietInv'
<1> DEFINE before == Synced(foreground)
           after  == IF foreground THEN Process(before, s, pressed) ELSE before
           edge   == EdgeOf(before, after)
<1>1. /\ key' = after
      /\ quiet' = IF edge = "release" THEN [of |-> s, left |-> Window]
                  ELSE IF foreground # gate THEN NoRelease ELSE quiet
  BY DEF OnInputEvent
<1>2. Sound(before) /\ Polling \in Sources /\ Window \in Nat
  BY SyncedSound, WindowAssumption DEF Sources
<1>3. foreground => /\ \A t \in Sources : after.cooling[t] >= before.cooling[t]
                    /\ (IsPressed(before) /\ ~IsPressed(after)) =>
                         (after.cooling[s] = Window /\ after.cooling[Polling] = Window)
  BY <1>2, ProcessCools
<1>4. CASE edge = "release"
  <2>1. IsPressed(before) /\ ~IsPressed(after)
    <3> HIDE DEF before, after
    <3>1. IsPressed(before) # IsPressed(after) /\ ~IsPressed(after)
      BY <1>4 DEF EdgeOf
    <3>2. IsPressed(before) \in BOOLEAN /\ IsPressed(after) \in BOOLEAN
      BY DEF IsPressed
    <3> QED BY <3>1, <3>2
  <2>2. foreground
    BY <2>1
  <2>3. quiet'.of = s /\ quiet'.left = Window /\ key'.cooling[s] = Window /\ key'.cooling[Polling] = Window
    BY <1>1, <1>3, <1>4, <2>1, <2>2
  <2> QED BY <1>2, <2>3 DEF QuietInv
<1>5. CASE edge # "release" /\ foreground # gate
  <2>1. quiet'.left = 0
    BY <1>1, <1>5 DEF NoRelease
  <2> QED BY <2>1 DEF QuietInv
<1>6. CASE edge # "release" /\ foreground = gate
  <2>1. quiet' = quiet /\ before = key
    BY <1>1, <1>6 DEF Synced
  <2>2. \A t \in Sources : key'.cooling[t] >= key.cooling[t]
    <3>1. CASE foreground
      BY <1>1, <1>3, <2>1, <3>1
    <3>2. CASE ~foreground
      <4>1. key' = key
        BY <1>1, <2>1, <3>2
      <4>2. \A t \in Sources : key.cooling[t] \in 0..Window
        BY DEF IInv, Sound, KeyStates
      <4> QED BY <4>1, <4>2
    <3> QED BY <3>1, <3>2
  <2>3. Sound(key')
    BY OnInputEventSound
  <2>4. \A t \in Sources : key.cooling[t] \in 0..Window /\ key'.cooling[t] \in 0..Window
    BY <2>3 DEF IInv, Sound, KeyStates
  <2>5. quiet.of \in Sources /\ quiet.left \in 0..Window
    BY DEF PlainTypes
  <2> HIDE DEF before, after, edge
  <2> QED BY <1>2, <2>1, <2>2, <2>4, <2>5 DEF QuietInv
<1> QED BY <1>4, <1>5, <1>6

(* Every step keeps the windows open as long as they should be.            *)
LEMMA StepQuiet == IInv /\ PlainTypes /\ QuietInv /\ [Next]_vars => QuietInv'
<1> SUFFICES ASSUME IInv, PlainTypes, QuietInv, [Next]_vars PROVE QuietInv'
  OBVIOUS
<1>0. Polling \in Sources /\ Physical \in BOOLEAN
  BY DEF Sources, Physical
<1>1. CASE UNCHANGED <<key, quiet>>
  BY <1>1 DEF QuietInv
<1>2. CASE Tick
  <2>1. key' = Cool(key) /\ quiet' = IF quiet.left > 1 THEN [quiet EXCEPT !.left = @ - 1] ELSE NoRelease
    BY <1>2 DEF Tick
  <2>2. \A t \in Sources : key.cooling[t] \in Nat /\ key'.cooling[t] = Lower(key.cooling[t])
    BY <2>1 DEF Cool, IInv, Sound, KeyStates
  <2>3. quiet.of \in Sources /\ quiet.left \in Nat
    BY DEF PlainTypes
  <2>4. CASE quiet.left > 1
    <3>1. quiet'.of = quiet.of /\ quiet'.left = quiet.left - 1
      BY <2>1, <2>4 DEF PlainTypes
    <3> QED BY <1>0, <2>2, <2>3, <2>4, <3>1 DEF QuietInv, Lower
  <2>5. CASE ~(quiet.left > 1)
    BY <2>1, <2>5 DEF NoRelease, QuietInv
  <2> QED BY <2>4, <2>5
<1>3. CASE PumpMessage
  <2>0. Head(wire) \in Message
    BY <1>3 DEF PumpMessage, IInv
  <2>1. Head(wire).source \in Sources /\ Head(wire).pressed \in BOOLEAN
    BY <2>0 DEF Message, Sources
  <2> QED BY <1>3, <2>1, OnInputEventQuiet DEF PumpMessage
<1>4. CASE CheckGate
  <2>1. foreground = gate => UNCHANGED <<key, quiet>>
    BY <1>4 DEF CheckGate, Synced
  <2>2. foreground # gate => quiet' = NoRelease
    BY <1>4 DEF CheckGate
  <2>3. quiet' = NoRelease => QuietInv'
    BY DEF QuietInv, NoRelease
  <2> QED BY <1>1, <2>1, <2>2, <2>3
<1>5. CASE OnInputEvent(Polling, Physical)
  BY <1>0, <1>5, OnInputEventQuiet
<1>6. CASE Poll \/ Reconcile
  BY <1>1, <1>5, <1>6 DEF Poll, Reconcile, PollKey
<1>7. CASE PumpQuits \/ HealthCheckFails
  BY <1>1, <1>7 DEF PumpQuits, HealthCheckFails, FallBackToPolling
<1>8. ASSUME NEW kb \in Keyboards, PressKey(kb) \/ ReleaseKey(kb) \/ AutoRepeat(kb)
      PROVE  UNCHANGED <<key, quiet>>
  BY <1>8 DEF PressKey, ReleaseKey, AutoRepeat, thread
<1>9. CASE ChangeFocus \/ LoseRegistration \/ PumpDone \/ PopEdge \/ Rebaseline \/ UNCHANGED vars
  BY <1>1, <1>9 DEF ChangeFocus, LoseRegistration, PumpDone, PopEdge, Rebaseline, thread, vars
<1> QED BY <1>1, <1>2, <1>3, <1>4, <1>6, <1>7, <1>8, <1>9 DEF Next, Device, Thread

(* on_input_event lets a press through only past the filter.               *)
LEMMA OnInputEventFilters ==
  ASSUME IInv, PlainTypes, QuietInv, NEW s \in Sources, NEW pressed \in BOOLEAN,
         OnInputEvent(s, pressed), PressLetThrough, quiet.left > 0, gate = foreground
  PROVE  \E kb \in Keyboards \ {quiet.of} : key'.down = {kb}
<1>1. key' = IF foreground THEN Process(key, s, pressed) ELSE key
  BY DEF OnInputEvent, Synced
<1>2. foreground /\ ~IsPressed(key) /\ IsPressed(Process(key, s, pressed))
  BY <1>1 DEF PressLetThrough
<1>3. key.cooling[s] = 0 /\ key'.down = {s}
  BY <1>1, <1>2, PressLetThroughBy DEF IInv
<1>4. key.cooling[quiet.of] # 0 /\ key.cooling[Polling] # 0
  <2>1. quiet.left \in Nat
    BY DEF PlainTypes
  <2>2. \A t \in Sources : key.cooling[t] \in Nat
    BY DEF IInv, Sound, KeyStates
  <2>3. quiet.of \in Sources /\ Polling \in Sources
    BY DEF PlainTypes, Sources
  <2> QED BY <2>1, <2>2, <2>3 DEF QuietInv
<1> QED BY <1>3, <1>4 DEF Sources

(* Whatever the order in which RawInput and the poll report it, a chatter  *)
(* of the key that was just released is filtered: only another keyboard    *)
(* can press the key while the window runs (KeyStateTracker::process).     *)
THEOREM MirrorsFiltered == Spec => MirrorsCannotBypass
<1> DEFINE Filters == PressLetThrough /\ quiet.left > 0 /\ gate = foreground =>
                        \E kb \in Keyboards \ {quiet.of} : key'.down = {kb}
<1>1. Init => QuietInv
  BY DEF Init, NoRelease, QuietInv
<1>2. ASSUME IInv, PlainTypes, QuietInv, [Next]_vars PROVE Filters
  <2>0. Polling \in Sources /\ Physical \in BOOLEAN
    BY DEF Sources, Physical
  <2>1. CASE IsPressed(key') = IsPressed(key)
    BY <2>1 DEF PressLetThrough
  <2>2. key' = key => IsPressed(key') = IsPressed(key)
    OBVIOUS
  <2>3. CASE Tick
    <3>1. key'.count = key.count
      BY <1>2, <2>3 DEF Tick, Cool, IInv, Sound, KeyStates
    <3> QED BY <2>1, <3>1 DEF IsPressed
  <2>4. CASE PumpMessage
    <3>0. Head(wire) \in Message
      BY <1>2, <2>4 DEF PumpMessage, IInv
    <3>1. Head(wire).source \in Sources /\ Head(wire).pressed \in BOOLEAN
      BY <3>0 DEF Message, Sources
    <3>2. OnInputEvent(Head(wire).source, Head(wire).pressed)
      BY <2>4 DEF PumpMessage
    <3> QED BY <1>2, <3>1, <3>2, OnInputEventFilters
  <2>5. CASE CheckGate
    <3>1. gate = foreground => key' = key
      BY <2>5 DEF CheckGate, Synced
    <3> QED BY <2>1, <2>2, <3>1
  <2>6. CASE OnInputEvent(Polling, Physical)
    BY <1>2, <2>0, <2>6, OnInputEventFilters
  <2>7. Poll \/ Reconcile => OnInputEvent(Polling, Physical) \/ key' = key
    BY DEF Poll, Reconcile, PollKey
  <2>8. PumpQuits \/ HealthCheckFails => key' = key
    BY DEF PumpQuits, HealthCheckFails, FallBackToPolling
  <2>9. ASSUME NEW kb \in Keyboards, PressKey(kb) \/ ReleaseKey(kb) \/ AutoRepeat(kb) PROVE key' = key
    BY <2>9 DEF PressKey, ReleaseKey, AutoRepeat, thread
  <2>10. CASE ChangeFocus \/ LoseRegistration \/ PumpDone \/ PopEdge \/ Rebaseline \/ UNCHANGED vars
    <3>1. key' = key
      BY <2>10 DEF ChangeFocus, LoseRegistration, PumpDone, PopEdge, Rebaseline, thread, vars
    <3> QED BY <2>1, <2>2, <3>1
  <2> HIDE DEF Filters
  <2> QED BY <1>2, <2>1, <2>2, <2>3, <2>4, <2>5, <2>6, <2>7, <2>8, <2>9, <2>10 DEF Next, Device, Thread
<1>3. IInv /\ PlainTypes /\ QuietInv /\ [Next]_vars => [Filters]_vars
  BY <1>2
<1>4. Spec => [](IInv /\ PlainTypes /\ QuietInv)
  BY <1>1, InitTypes, StepSound, StepTypes, StepQuiet, PTL DEF Spec
<1> QED BY <1>3, <1>4, PTL DEF Spec, MirrorsCannotBypass

--------------------------------------------------------------------------------
(* Nothing about the key is lost: whoever has pressed or released it is    *)
(* known to the tracker, or will be once the messages are pumped.          *)

(* A message of keyboard kb is still to be pumped.                         *)
Awaited(kb) == \E i \in DOMAIN wire : wire[i].source = kb

(* The last message of a keyboard tells what it does now.                  *)
LastOfIts(i) == \A j \in DOMAIN wire : j > i => wire[j].source # wire[i].source
WireInv ==
  Posts => \A i \in DOMAIN wire : LastOfIts(i) => (wire[i].pressed <=> wire[i].source \in held)

(* A key taken for pressed is seen down by the poll, which will see it go  *)
(* up, unless it slipped between the looks of the fallback; or its owners  *)
(* hold it or have told that they let go.                                  *)
OwnersInv ==
  /\ ~gate => ~IsPressed(key)
  /\ backend # "RawInput" => step # "pump" /\ (IsPressed(key) => lastState \/ slipped)
  /\ Posts /\ ~lastState =>
       \A s \in key.down : s \in Keyboards /\ (s \in held \/ Awaited(s))

(* A keyboard that holds the key owns it, was rejected or is still to be   *)
(* heard, unless the key was down before the game had the focus.           *)
HoldersInv ==
  Posts /\ gate /\ ~baselined =>
    \A kb \in held : kb \in key.down \cup key.suppressed \/ Awaited(kb)

CaughtUp == WireInv /\ OwnersInv /\ HoldersInv

(* What process does to the owners of the key.                             *)
LEMMA ProcessOwners ==
  ASSUME NEW k, Sound(k), NEW s \in Sources, NEW pressed \in BOOLEAN,
         NEW after, after = Process(k, s, pressed)
  PROVE  /\ after.down \subseteq k.down \cup {s}
         /\ ~pressed => s \notin after.down
         /\ ~pressed /\ s = Polling => ~IsPressed(after)
         /\ pressed /\ s \in Keyboards => s \in after.down \cup after.suppressed
         /\ pressed \/ s # Polling =>
              \A kb \in Keyboards : kb # s /\ kb \in k.down \cup k.suppressed
                                      => kb \in after.down \cup after.suppressed
<1>0. /\ k = [down |-> k.down, suppressed |-> k.suppressed, cooling |-> k.cooling,
              count |-> k.count, pollingOnly |-> k.pollingOnly]
      /\ Polling \notin Keyboards
  BY KeyboardsAssumption DEF Sound, KeyStates
<1>1. CASE pressed
  <2>1. after = Press(k, s)
    BY <1>1 DEF Process
  <2>2. \/ after = k /\ (s \in k.down \cup k.suppressed \/ s = Polling)
        \/ after.down = k.down /\ k.suppressed \cup {s} \subseteq after.suppressed
        \/ /\ after.down \in {k.down \cup {s}, (k.down \ {Polling}) \cup {s}}
           /\ k.suppressed \ {s} \subseteq after.suppressed
    BY <1>0, <2>1 DEF Press
  <2> QED BY <1>0, <1>1, <2>2
<1>2. CASE ~pressed /\ s = Polling
  <2>1. after.down = {} /\ after.count = 0
    BY <1>0, <1>2 DEF Process, PollingRelease
  <2> QED BY <1>0, <1>2, <2>1 DEF IsPressed
<1>3. CASE ~pressed /\ s # Polling
  <2>1. after = RawRelease(k, s)
    BY <1>3 DEF Process
  <2>2. \/ after = k /\ s \notin k.down
        \/ /\ after.down = k.down \ {s}
           /\ \/ k.suppressed \ {s} \subseteq after.suppressed
              \/ (k.suppressed \ {s}) \cap Keyboards = {}
    BY <2>1 DEF RawRelease
  <2> QED BY <1>3, <2>2
<1> QED BY <1>1, <1>2, <1>3

(* A key that is not pressed has no owner.                                 *)
LEMMA NobodyOwns == ASSUME NEW k, Sound(k), ~IsPressed(k) PROVE k.down = {}
<1>1. k.down \in SUBSET Sources /\ k.count \in Nat /\ k.count = Cardinality(k.down)
  BY DEF Sound, KeyStates, Consistent
<1>2. k.count = 0
  BY <1>1 DEF IsPressed
<1> QED BY <1>1, <1>2, SourcesFinite

(* What posting a message does to the wire.                                *)
LEMMA PostWire ==
  ASSUME IInv, WireInv, NEW kb \in Keyboards, NEW pressed \in BOOLEAN,
         Posts, wire' = Append(wire, [source |-> kb, pressed |-> pressed]),
         pressed <=> kb \in held',
         \A other \in Keyboards \ {kb} : other \in held' <=> other \in held
  PROVE  WireInv' /\ Awaited(kb)' /\ (\A other : Awaited(other) => Awaited(other)')
<1> DEFINE n == Len(wire)
           m == [source |-> kb, pressed |-> pressed]
<1>1. /\ n \in Nat /\ DOMAIN wire = 1..n /\ DOMAIN wire' = 1..(n + 1)
      /\ wire'[n + 1] = m /\ \A i \in 1..n : wire'[i] = wire[i] /\ wire[i] \in Message
  <2>1. wire \in Seq(Message) /\ m \in Message /\ wire' = Append(wire, m)
    BY DEF IInv, Message
  <2> HIDE DEF m
  <2> QED BY <2>1
<1> HIDE DEF n
<1>2. ASSUME NEW i \in DOMAIN wire', LastOfIts(i)'
      PROVE  wire'[i].pressed <=> wire'[i].source \in held'
  <2>1. CASE i = n + 1
    BY <1>1, <2>1
  <2>2. CASE i # n + 1
    <3>1. i \in 1..n /\ i \in DOMAIN wire /\ n + 1 > i
      BY <1>1, <2>2
    <3>2. wire[i].source # kb
      BY <1>1, <1>2, <3>1 DEF LastOfIts
    <3>3. LastOfIts(i)
      <4>1. \A j \in DOMAIN wire : j \in DOMAIN wire' /\ wire'[j] = wire[j]
        BY <1>1
      <4> QED BY <1>2, <3>1, <4>1 DEF LastOfIts
    <3>4. wire[i].source \in Keyboards
      BY <1>1, <3>1 DEF Message
    <3> QED BY <1>1, <3>1, <3>2, <3>3, <3>4 DEF WireInv
  <2> QED BY <2>1, <2>2
<1>3. WireInv'
  BY <1>2 DEF WireInv
<1>4. Awaited(kb)'
  BY <1>1 DEF Awaited
<1>5. ASSUME NEW other, Awaited(other) PROVE Awaited(other)'
  BY <1>1, <1>5 DEF Awaited
<1> QED BY <1>3, <1>4, <1>5

(* What pumping the first message does to the wire.                        *)
LEMMA PumpWire ==
  ASSUME IInv, WireInv, wire # <<>>, wire' = Tail(wire),
         UNCHANGED <<held, backend, registered>>,
         NEW CONSTANT s, s = Head(wire).source
  PROVE  /\ WireInv'
         /\ \A other : Awaited(other) /\ other # s => Awaited(other)'
         /\ Posts /\ ~Awaited(s)' => (Head(wire).pressed <=> s \in held)
<1> DEFINE n == Len(wire)
<1>1. /\ n \in Nat \ {0} /\ DOMAIN wire = 1..n /\ DOMAIN wire' = 1..(n - 1)
      /\ \A i \in 1..(n - 1) : wire'[i] = wire[i + 1]
      /\ Head(wire) = wire[1]
  BY DEF IInv
<1> HIDE DEF n
<1>2. \A j \in DOMAIN wire : j > 1 => j - 1 \in DOMAIN wire' /\ wire'[j - 1] = wire[j]
  <2>1. ASSUME NEW j \in 1..n, j > 1 PROVE j - 1 \in 1..(n - 1) /\ (j - 1) + 1 = j
    BY <1>1, <2>1
  <2> QED BY <1>1, <2>1
<1>3. ASSUME NEW i \in DOMAIN wire', LastOfIts(i)'
      PROVE  LastOfIts(i + 1) /\ i + 1 \in DOMAIN wire /\ wire'[i] = wire[i + 1]
  <2>1. i \in 1..(n - 1) /\ i + 1 \in 1..n /\ wire'[i] = wire[i + 1]
    BY <1>1
  <2>2. ASSUME NEW j \in DOMAIN wire, j > i + 1 PROVE wire[j].source # wire[i + 1].source
    <3>1. j \in 1..n /\ j > 1 /\ j - 1 > i
      BY <1>1, <2>1, <2>2
    <3> QED BY <1>2, <1>3, <2>1, <3>1 DEF LastOfIts
  <2> QED BY <1>1, <2>1, <2>2 DEF LastOfIts
<1>4. WireInv'
  BY <1>3 DEF WireInv, Posts
<1>5. ASSUME NEW other, Awaited(other), other # s PROVE Awaited(other)'
  <2>1. PICK j \in DOMAIN wire : wire[j].source = other
    BY <1>5 DEF Awaited
  <2>2. j \in 1..n /\ j # 1
    BY <1>1, <1>5, <2>1
  <2>3. j > 1
    BY <1>1, <2>2
  <2> QED BY <1>2, <2>1, <2>3 DEF Awaited
<1>6. ASSUME Posts, ~Awaited(s)'
      PROVE  Head(wire).pressed <=> s \in held
  <2>1. LastOfIts(1)
    BY <1>1, <1>2, <1>6 DEF LastOfIts, Awaited
  <2>2. 1 \in DOMAIN wire
    BY <1>1
  <2> QED BY <1>1, <1>6, <2>1, <2>2 DEF WireInv
<1> QED BY <1>4, <1>5, <1>6

(* on_input_event, for an edge that polling finds: without the focus, or   *)
(* with no keyboard holding it, the key is up.                             *)
LEMMA PolledRelease ==
  ASSUME IInv, PlainTypes, OwnersInv, OnInputEvent(Polling, Physical)
  PROVE  /\ ~gate' => ~IsPressed(key')
         /\ ~Physical => ~IsPressed(key')
<1> DEFINE before == Synced(foreground)
           after  == IF foreground THEN Process(before, Polling, Physical) ELSE before
<1>1. key' = after /\ gate' = foreground
  BY DEF OnInputEvent
<1>2. Sound(before) /\ Polling \in Sources /\ Physical \in BOOLEAN
  BY SyncedSound DEF Sources, Physical
<1>3. ~foreground => ~IsPressed(before)
  <2>1. ~IsPressed(FreshKey)
    BY DEF FreshKey, IsPressed
  <2> QED BY <2>1 DEF Synced, OwnersInv, PlainTypes
<1>4. foreground /\ ~Physical => ~IsPressed(Process(before, Polling, Physical))
  BY <1>2, ProcessOwners
<1> QED BY <1>1, <1>3, <1>4

(* ... and whoever holds it stays known.                                   *)
LEMMA PolledHolders ==
  ASSUME IInv, PlainTypes, HoldersInv, OnInputEvent(Polling, Physical),
         UNCHANGED <<held, wire>>, Posts' => Posts
  PROVE  HoldersInv'
<1> DEFINE before == Synced(foreground)
           after  == IF foreground THEN Process(before, Polling, Physical) ELSE before
<1>1. key' = after /\ gate' = foreground /\ baselined' = (baselined \/ (foreground # gate /\ Physical))
  BY DEF OnInputEvent
<1>2. Sound(before) /\ Polling \in Sources /\ Physical \in BOOLEAN
  BY SyncedSound DEF Sources, Physical
<1> SUFFICES ASSUME Posts', gate', ~baselined', NEW kb \in held'
             PROVE  kb \in key'.down \cup key'.suppressed \/ Awaited(kb)'
  BY DEF HoldersInv
<1>3. Physical /\ kb \in held
  BY DEF Physical
<1>4. foreground /\ gate /\ ~baselined /\ before = key
  BY <1>1, <1>3 DEF Synced, PlainTypes
<1>5. kb \in key.down \cup key.suppressed \/ Awaited(kb)
  BY <1>3, <1>4 DEF HoldersInv
<1>6. Awaited(kb) => Awaited(kb)'
  BY DEF Awaited
<1>7. kb \in Keyboards /\ kb # Polling
  BY <1>3, KeyboardsAssumption DEF PlainTypes
<1>8. kb \in key.down \cup key.suppressed => kb \in key'.down \cup key'.suppressed
  BY <1>1, <1>2, <1>3, <1>4, <1>7, ProcessOwners
<1> QED BY <1>5, <1>6, <1>8

(* The keyboards and the operating system.                                 *)
LEMMA DeviceCatchesUp == ASSUME IInv, PlainTypes, CaughtUp, Device PROVE CaughtUp'
<1>1. ASSUME NEW kb \in Keyboards, PressKey(kb) \/ ReleaseKey(kb) \/ AutoRepeat(kb)
      PROVE  CaughtUp'
  <2> DEFINE pressed == kb \in held'
  <2>1. UNCHANGED <<registered, foreground, backend, step, gate, key, lastState, slipped>>
    BY <1>1 DEF PressKey, ReleaseKey, AutoRepeat, thread
  <2>2. /\ held' \in {held \cup {kb}, held \ {kb}}
        /\ pressed \in BOOLEAN
        /\ baselined => baselined' \/ held' = {}
        /\ \/ Posts /\ wire' = Append(wire, [source |-> kb, pressed |-> pressed])
           \/ ~Posts /\ wire' = wire
    <3>1. CASE PressKey(kb)
      <4>1. pressed = TRUE /\ held' = held \cup {kb} /\ Post(kb, TRUE) /\ baselined' = baselined
        BY <3>1 DEF PressKey
      <4> HIDE DEF pressed
      <4> QED BY <4>1 DEF Post
    <3>2. CASE ReleaseKey(kb)
      <4>1. held' = held \ {kb} /\ Post(kb, FALSE) /\ baselined' = (baselined /\ held # {kb})
        BY <3>2 DEF ReleaseKey
      <4>2. pressed = FALSE
        BY <4>1
      <4>3. baselined => baselined' \/ held' = {}
        BY <4>1 DEF PlainTypes
      <4> HIDE DEF pressed
      <4> QED BY <4>1, <4>2, <4>3 DEF Post
    <3>3. CASE AutoRepeat(kb)
      <4>1. /\ pressed = TRUE /\ held' = held \cup {kb} /\ baselined' = baselined
            /\ Posts /\ wire' = Append(wire, [source |-> kb, pressed |-> TRUE])
        BY <3>3 DEF AutoRepeat
      <4> HIDE DEF pressed
      <4> QED BY <4>1
    <3> QED BY <1>1, <3>1, <3>2, <3>3
  <2>4. CASE ~Posts
    <3>1. ~Posts'
      BY <2>1, <2>4 DEF Posts
    <3> QED BY <2>1, <2>4, <3>1 DEF CaughtUp, WireInv, OwnersInv, HoldersInv
  <2>5. CASE Posts
    <3>0. \A other \in Keyboards \ {kb} : other \in held' <=> other \in held
      BY <2>2
    <3>1. WireInv' /\ Awaited(kb)' /\ (\A other : Awaited(other) => Awaited(other)')
      <4> HIDE DEF pressed
      <4>1. pressed <=> kb \in held'
        BY DEF pressed
      <4>2. wire' = Append(wire, [source |-> kb, pressed |-> pressed])
        BY <2>2, <2>5
      <4> QED BY <2>2, <2>5, <3>0, <4>1, <4>2, PostWire DEF CaughtUp
    <3>2. OwnersInv'
      BY <2>1, <2>2, <3>1 DEF CaughtUp, OwnersInv, Posts
    <3>3. HoldersInv'
      <4> SUFFICES ASSUME Posts', gate', ~baselined', NEW other \in held'
                   PROVE  other \in key'.down \cup key'.suppressed \/ Awaited(other)'
        BY DEF HoldersInv
      <4>1. ~baselined
        BY <2>2
      <4>2. other = kb \/ other \in held
        BY <2>2
      <4> QED BY <2>1, <2>5, <3>1, <4>1, <4>2 DEF CaughtUp, HoldersInv
    <3> QED BY <3>1, <3>2, <3>3 DEF CaughtUp
  <2> QED BY <2>4, <2>5
<1>2. CASE ChangeFocus
  BY <1>2 DEF ChangeFocus, thread, CaughtUp, WireInv, OwnersInv, HoldersInv, Posts, LastOfIts, Awaited
<1>3. CASE LoseRegistration
  BY <1>3 DEF LoseRegistration, thread, CaughtUp, WireInv, OwnersInv, HoldersInv, Posts
<1>4. CASE Tick
  <2>1. key'.down = key.down /\ key'.suppressed = key.suppressed /\ key'.count = key.count
    BY <1>4 DEF Tick, Cool, IInv, Sound, KeyStates
  <2>2. UNCHANGED <<device, backend, step, gate, lastState, baselined, slipped>>
    BY <1>4 DEF Tick
  <2> QED BY <2>1, <2>2 DEF device, CaughtUp, WireInv, OwnersInv, HoldersInv, Posts, LastOfIts,
                            Awaited, IsPressed
<1> QED BY <1>1, <1>2, <1>3, <1>4 DEF Device

(* A message is pumped.                                                    *)
LEMMA PumpCatchesUp == ASSUME IInv, PlainTypes, CaughtUp, PumpMessage PROVE CaughtUp'
<1>0. Head(wire) \in Message
  BY DEF PumpMessage, IInv
<1>1. PICK s \in Keyboards : s = Head(wire).source
  BY <1>0 DEF Message
<1>2. PICK pressed \in BOOLEAN : pressed = Head(wire).pressed
  BY <1>0 DEF Message
<1> DEFINE before == Synced(foreground)
           after  == IF foreground THEN Process(before, s, pressed) ELSE before
<1>3. key' = after /\ gate' = foreground /\ baselined' = (baselined \/ (foreground # gate /\ Physical))
  <2>1. OnInputEvent(s, pressed)
    BY <1>1, <1>2 DEF PumpMessage
  <2> QED BY <2>1 DEF OnInputEvent
<1>4. UNCHANGED <<held, registered, foreground, backend, step, lastState>> /\ backend = "RawInput"
  BY DEF PumpMessage, CaughtUp, OwnersInv
<1>5. /\ WireInv'
      /\ \A other : Awaited(other) /\ other # s => Awaited(other)'
      /\ Posts /\ ~Awaited(s)' => (pressed <=> s \in held)
  BY <1>1, <1>2, <1>4, PumpWire DEF PumpMessage, CaughtUp
<1>6. Sound(before) /\ Sound(key) /\ s \in Sources /\ s # Polling
  BY SyncedSound, KeyboardsAssumption DEF Sources, IInv
<1>7. /\ foreground => /\ after.down \subseteq before.down \cup {s}
                       /\ ~pressed => s \notin after.down
                       /\ pressed => s \in after.down \cup after.suppressed
                       /\ \A kb \in Keyboards : kb # s /\ kb \in before.down \cup before.suppressed
                                                => kb \in after.down \cup after.suppressed
  BY <1>6, ProcessOwners
<1>8. before = key \/ (before = FreshKey /\ before.down = {} /\ ~IsPressed(before))
  BY DEF Synced, FreshKey, IsPressed
<1>9. ~foreground => ~IsPressed(after) /\ after.down = {}
  <2>1. foreground = gate => before = key
    BY DEF Synced
  <2>2. foreground # gate => before = FreshKey
    BY DEF Synced
  <2>3. ~foreground => ~IsPressed(before)
    BY <1>8, <2>1, <2>2 DEF CaughtUp, OwnersInv, PlainTypes, FreshKey, IsPressed
  <2> QED BY <1>6, <2>3, NobodyOwns
<1> HIDE DEF before, after
<1>10. OwnersInv'
  <2>1. ASSUME Posts', ~lastState', NEW t \in key'.down
        PROVE  t \in Keyboards /\ (t \in held' \/ Awaited(t)')
    <3>1. foreground /\ Posts /\ ~lastState
      BY <1>3, <1>4, <1>9, <2>1 DEF Posts
    <3>2. CASE t = s
      <4>1. pressed
        BY <1>3, <1>7, <2>1, <3>1, <3>2
      <4> QED BY <1>4, <1>5, <3>1, <3>2, <4>1
    <3>3. CASE t # s
      <4>1. t \in key.down
        BY <1>3, <1>7, <1>8, <2>1, <3>1, <3>3
      <4> QED BY <1>4, <1>5, <3>1, <3>3, <4>1 DEF CaughtUp, OwnersInv
    <3> QED BY <3>2, <3>3
  <2>2. ~gate' => ~IsPressed(key')
    BY <1>3, <1>9
  <2> QED BY <1>4, <2>1, <2>2 DEF OwnersInv
<1>11. HoldersInv'
  <2> SUFFICES ASSUME Posts', gate', ~baselined', NEW kb \in held'
               PROVE  kb \in key'.down \cup key'.suppressed \/ Awaited(kb)'
    BY DEF HoldersInv
  <2>1. kb \in held /\ Physical /\ Posts /\ foreground
    BY <1>3, <1>4 DEF Physical, Posts
  <2>2. gate /\ ~baselined /\ before = key
    BY <1>3, <2>1 DEF before, Synced, PlainTypes
  <2>3. kb \in key.down \cup key.suppressed \/ Awaited(kb)
    BY <2>1, <2>2 DEF CaughtUp, HoldersInv
  <2>4. kb \in Keyboards
    BY <2>1 DEF PlainTypes
  <2>5. CASE kb = s
    BY <1>3, <1>5, <1>7, <2>1, <2>5
  <2>6. CASE kb # s
    BY <1>3, <1>5, <1>7, <2>1, <2>2, <2>3, <2>4, <2>6
  <2> QED BY <2>5, <2>6
<1> QED BY <1>5, <1>10, <1>11 DEF CaughtUp

(* Every step keeps the thread's knowledge complete.                       *)
LEMMA StepCatchesUp == IInv /\ PlainTypes /\ CaughtUp /\ [Next]_vars => CaughtUp'
<1> SUFFICES ASSUME IInv, PlainTypes, CaughtUp, [Next]_vars PROVE CaughtUp'
  OBVIOUS
<1> USE DEF CaughtUp
<1>0. Physical \in BOOLEAN
  BY DEF Physical
<1>1. CASE UNCHANGED <<held, wire, registered, backend, gate, key, lastState, baselined, slipped>>
           /\ (step' = step \/ step' # "pump")
  BY <1>1 DEF WireInv, OwnersInv, HoldersInv, Posts, LastOfIts, Awaited
<1>2. CASE Device
  BY <1>2, DeviceCatchesUp
<1>3. CASE PumpMessage
  BY <1>3, PumpCatchesUp
<1>4. CASE PumpDone
  BY <1>1, <1>4 DEF PumpDone, device
<1>5. CASE CheckGate
  <2>1. UNCHANGED <<held, wire, registered, foreground, backend>> /\ gate' = foreground
        /\ key' = Synced(foreground) /\ step' = (IF foreground THEN "poll" ELSE NextPass)
    BY <1>5 DEF CheckGate, device
  <2>2. backend # "RawInput" => step' # "pump"
    BY <2>1 DEF NextPass
  <2>3. CASE foreground = gate
    <3>1. UNCHANGED <<gate, key, lastState, baselined, slipped>>
      BY <1>5, <2>1, <2>3 DEF CheckGate, Synced, PlainTypes
    <3> QED BY <2>1, <2>2, <3>1 DEF WireInv, OwnersInv, HoldersInv, Posts, LastOfIts, Awaited
  <2>4. CASE foreground # gate
    <3>1. key' = FreshKey /\ baselined' = (baselined \/ Physical)
      BY <1>5, <2>1, <2>4 DEF CheckGate, Synced
    <3>2. FreshKey.down = {} /\ ~IsPressed(FreshKey)
      BY DEF FreshKey, IsPressed
    <3>3. WireInv'
      BY <2>1 DEF WireInv, Posts, LastOfIts
    <3>4. OwnersInv'
      BY <2>1, <2>2, <3>1, <3>2 DEF OwnersInv
    <3>5. HoldersInv'
      BY <2>1, <3>1 DEF HoldersInv, Physical
    <3> QED BY <3>3, <3>4, <3>5
  <2> QED BY <2>3, <2>4
<1>6. CASE Poll \/ Reconcile
  <2>1. /\ UNCHANGED <<held, wire, registered, foreground, backend>>
        /\ PollKey /\ lastState' = Physical
    BY <1>6 DEF Poll, Reconcile, PollKey, device
  <2>2. backend # "RawInput" => step' # "pump"
    BY <1>6 DEF Poll, Reconcile, NextPass
  <2>3. WireInv'
    BY <2>1 DEF WireInv, Posts, LastOfIts
  <2>4. CASE OnInputEvent(Polling, Physical)
    <3>1. /\ ~gate' => ~IsPressed(key')
          /\ ~Physical => ~IsPressed(key')
      BY <2>4, PolledRelease
    <3>5. HoldersInv'
      BY <2>1, <2>4, PolledHolders DEF Posts
    <3>2. Sound(key')
      BY <1>0, <2>4, OnInputEventSound DEF Sources
    <3>3. ~Physical => key'.down = {}
      BY <3>1, <3>2, NobodyOwns
    <3>4. OwnersInv'
      BY <2>1, <2>2, <3>1, <3>3 DEF OwnersInv
    <3> QED BY <2>3, <3>4, <3>5
  <2>5. CASE ~OnInputEvent(Polling, Physical)
    <3>1. /\ UNCHANGED <<gate, key, lastState, baselined>> /\ Physical = lastState
          /\ slipped' = (slipped /\ (step = "reconcile" => ~Physical))
      BY <2>1, <2>5 DEF PollKey
    <3>2. lastState \/ slipped => lastState' \/ slipped'
      <4>1. CASE lastState
        BY <3>1, <4>1
      <4>2. CASE ~lastState
        BY <1>0, <3>1, <4>2 DEF PlainTypes
      <4> QED BY <4>1, <4>2
    <3> QED BY <2>1, <2>2, <2>3, <3>1, <3>2 DEF OwnersInv, HoldersInv, Posts, Awaited
  <2> QED BY <2>4, <2>5
<1>7. CASE PumpQuits \/ HealthCheckFails
  <2>1. FallBackToPolling
    BY <1>7 DEF PumpQuits, HealthCheckFails
  <2>2. /\ backend' = "Polling" /\ step' = "reconcile" /\ registered' = FALSE
        /\ lastState' = ~Physical /\ slipped' = Physical
        /\ UNCHANGED <<gate, key>>
    BY <2>1 DEF FallBackToPolling, Seed
  <2>3. ~Posts'
    BY <2>2 DEF Posts
  <2> QED BY <1>0, <2>2, <2>3 DEF WireInv, OwnersInv, HoldersInv
<1>8. CASE PopEdge \/ Rebaseline
  BY <1>1, <1>8 DEF PopEdge, Rebaseline, device, thread
<1>9. CASE UNCHANGED vars
  BY <1>1, <1>9 DEF vars
<1> QED BY <1>2, <1>3, <1>4, <1>5, <1>6, <1>7, <1>8, <1>9 DEF Next, Thread

(* Nothing is missed at the start.                                         *)
LEMMA InitCatchesUp == Init => CaughtUp
  BY DEF Init, CaughtUp, WireInv, OwnersInv, HoldersInv, FreshKey, IsPressed

(* The invariants hold together.                                           *)
LEMMA AlwaysCaughtUp == Spec => [](IInv /\ PlainTypes /\ CaughtUp)
  BY InitTypes, InitCatchesUp, StepSound, StepTypes, StepCatchesUp, PTL DEF Spec

(* "Fast taps and releases cannot leave a key stuck down": once the thread *)
(* has caught up, a pressed key is held, whichever of the two mirrors came *)
(* first and whatever messages went down with the registration; unless the *)
(* key was lifted between the two looks of the fallback                    *)
(* (InputThread::thread_main_polling), whose release nobody reports.       *)
THEOREM NeverStuckDown == Spec => []NotStuckDown
<1>1. ASSUME IInv, PlainTypes, CaughtUp PROVE NotStuckDown
  <2> SUFFICES ASSUME Settled, IsPressed(key), ~slipped PROVE Physical
    BY DEF NotStuckDown
  <2>1. CASE backend # "RawInput" \/ lastState
    BY <1>1, <2>1 DEF CaughtUp, OwnersInv, Settled
  <2>2. CASE backend = "RawInput" /\ ~lastState
    <3>1. Posts /\ wire = <<>>
      BY <2>2 DEF Settled, Posts
    <3>2. key.down # {}
      <4>1. key.down \in SUBSET Sources /\ key.count > 0 /\ key.count = Cardinality(key.down)
        BY <1>1 DEF IInv, Sound, KeyStates, Consistent, IsPressed
      <4> QED BY <4>1, SourcesFinite
    <3>3. \A s \in key.down : s \in held
      BY <1>1, <2>2, <3>1 DEF CaughtUp, OwnersInv, Awaited
    <3> QED BY <3>2, <3>3 DEF Physical
  <2> QED BY <2>1, <2>2
<1>2. IInv /\ PlainTypes /\ CaughtUp => NotStuckDown
  BY <1>1
<1> QED BY <1>2, AlwaysCaughtUp, PTL

(* With RawInput no press is forgotten: once the thread has caught up, a   *)
(* key that is held is pressed, or its press was rejected by the debounce, *)
(* or it was down before the game had the focus.                           *)
THEOREM NoPressLost == Spec => []NoPressForgotten
<1>1. ASSUME IInv, PlainTypes, CaughtUp PROVE NoPressForgotten
  <2> SUFFICES ASSUME Settled, backend = "RawInput", Physical, ~baselined, key.suppressed = {}
               PROVE  IsPressed(key)
    BY DEF NoPressForgotten
  <2>1. Posts /\ gate /\ wire = <<>>
    BY DEF Settled, Posts
  <2>2. PICK kb \in held : TRUE
    BY DEF Physical
  <2>3. kb \in key.down
    BY <1>1, <2>1, <2>2 DEF CaughtUp, HoldersInv, Awaited
  <2>4. key.down # {} => IsPressed(key)
    BY <1>1, NobodyOwns DEF IInv
  <2> QED BY <2>3, <2>4
<1>2. IInv /\ PlainTypes /\ CaughtUp => NoPressForgotten
  BY <1>1
<1> QED BY <1>2, AlwaysCaughtUp, PTL

================================================================================
