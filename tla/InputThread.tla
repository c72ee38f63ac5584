------------------------------ MODULE InputThread ------------------------------
(***************************************************************************)
(* One key on its way from the keyboards to the game.                      *)
(*                                                                         *)
(* The player's fingers change `held` at any moment.  RawInput posts each  *)
(* change as a message to the hidden window (`wire`); GetAsyncKeyState     *)
(* shows the aggregate of all keyboards at once.  The input thread         *)
(* (input/InputThread.cpp) pumps the messages, looks at the focus, polls   *)
(* the keys, and pushes the edges that KeyStateTracker lets through into   *)
(* the event queue.  The audio callback pops them and applies them to the  *)
(* binding of the key (input/LaneBindingState.h).                          *)
(*                                                                         *)
(* The keyboards, the focus, the registration and `wire` belong to the     *)
(* operating system.  Faults names what it may do besides moving keys:     *)
(*   "focus"  another window takes the foreground and gives it back;       *)
(*   "pump"   the RawInput registration is taken away, or the pump quits;  *)
(*   "pause"  the session pauses and resumes (its own doing).              *)
(***************************************************************************)
EXTENDS KeyStateTracker, Sequences

CONSTANTS
  QueueCapacity,   \* edges the event queue holds (kQueueCapacity - 1)
  MaxWire,         \* bound: RawInput messages not yet pumped
  Faults           \* see above

ASSUME QueueAssumption == QueueCapacity \in Nat \ {0} /\ MaxWire \in Nat
ASSUME FaultsAssumption == Faults \subseteq {"focus", "pump", "pause"}

VARIABLES
  held,         \* keyboards on which the key is physically down
  wire,         \* RawInput messages posted to the hidden window
  registered,   \* the hidden window is still the registration's target
  foreground,   \* the process owns the foreground window
  backend,      \* active_backend_
  step,         \* where the input thread is in its loop
  gate,         \* last_input_allowed_
  key,          \* key_state_tracker_
  lastState,    \* last_state of the poll
  queue,        \* event_queue_
  down,         \* PhysicalKey::down of the session's LaneBindingState
  quiet,        \* history: the last release let through, and its window
  baselined,    \* history: the key was down when the gate last moved, and still is
  slipped       \* history: the fallback's first look saw the key down; past its
                \*          second look, that one saw it up

vars == <<held, wire, registered, foreground, backend, step, gate, key, lastState,
          queue, down, quiet, baselined, slipped>>

device == <<held, wire, registered, foreground>>
thread == <<backend, step, gate, key, lastState, quiet, slipped>>

Message == [source : Keyboards, pressed : BOOLEAN]

NoRelease == [of |-> Polling, left |-> 0]

(* What GetAsyncKeyState answers.                                          *)
Physical == held # {}

Init ==
  /\ held = {} /\ wire = <<>> /\ registered = TRUE /\ foreground = TRUE
  /\ backend = "RawInput" /\ step = "pump" /\ gate = FALSE
  /\ key = FreshKey /\ lastState = FALSE
  /\ queue = <<>> /\ down = FALSE
  /\ quiet = NoRelease /\ baselined = FALSE /\ slipped = FALSE

--------------------------------------------------------------------------------
(* The keyboards and the operating system.                                 *)

Posts == backend = "RawInput" /\ registered

(* A keyboard makes or breaks the key; RawInput posts it while it can.     *)
Post(kb, pressed) ==
  \/ /\ Posts /\ Len(wire) < MaxWire
     /\ wire' = Append(wire, [source |-> kb, pressed |-> pressed])
  \/ ~Posts /\ wire' = wire

PressKey(kb) ==
  /\ kb \notin held
  /\ held' = held \cup {kb}
  /\ Post(kb, TRUE)
  /\ UNCHANGED <<registered, foreground, thread, queue, down, baselined>>

ReleaseKey(kb) ==
  /\ kb \in held
  /\ held' = held \ {kb}
  /\ Post(kb, FALSE)
  /\ baselined' = (baselined /\ held # {kb})
  /\ UNCHANGED <<registered, foreground, thread, queue, down>>

(* A held key repeats: another RI_KEY_MAKE with no break before it.        *)
AutoRepeat(kb) ==
  /\ kb \in held
  /\ Posts /\ Len(wire) < MaxWire
  /\ wire' = Append(wire, [source |-> kb, pressed |-> TRUE])
  /\ UNCHANGED <<held, registered, foreground, thread, queue, down, baselined>>

ChangeFocus ==
  /\ "focus" \in Faults
  /\ foreground' = ~foreground
  /\ UNCHANGED <<held, wire, registered, thread, queue, down, baselined>>

(* Another owner takes the process-wide registration: nothing is posted    *)
(* any more, and the thread does not know yet.                             *)
LoseRegistration ==
  /\ "pump" \in Faults
  /\ Posts
  /\ registered' = FALSE
  /\ UNCHANGED <<held, wire, foreground, thread, queue, down, baselined>>

Tick ==
  /\ key' = Cool(key)
  /\ quiet' = IF quiet.left > 1 THEN [quiet EXCEPT !.left = @ - 1] ELSE NoRelease
  /\ UNCHANGED <<device, backend, step, gate, lastState, queue, down, baselined, slipped>>

--------------------------------------------------------------------------------
(* The input thread.                                                       *)

(* sync_input_gate: crossing the focus boundary forgets every key.         *)
Synced(allowed) == IF allowed = gate THEN key ELSE FreshKey

(* on_input_event, for an edge of source s: gate, filter, push or drop.    *)
OnInputEvent(s, pressed) ==
  LET before  == Synced(foreground)
      after   == IF foreground THEN Process(before, s, pressed) ELSE before
      edge    == EdgeOf(before, after)
      crossed == foreground # gate
  IN  /\ gate' = foreground
      /\ key' = after
      /\ queue' = IF edge # "none" /\ Len(queue) < QueueCapacity
                  THEN Append(queue, edge) ELSE queue
      /\ quiet' = IF edge = "release" THEN [of |-> s, left |-> Window]
                  ELSE IF crossed THEN NoRelease ELSE quiet
      /\ baselined' = (baselined \/ (crossed /\ Physical))
      /\ slipped' = FALSE

(* PeekMessage returned WM_INPUT.                                          *)
PumpMessage ==
  /\ step = "pump" /\ wire # <<>>
  /\ OnInputEvent(Head(wire).source, Head(wire).pressed)
  /\ wire' = Tail(wire)
  /\ UNCHANGED <<held, registered, foreground, backend, step, lastState, down>>

(* No message left, and the registration is healthy or not due a check.    *)
PumpDone ==
  /\ step = "pump" /\ wire = <<>>
  /\ step' = "gate"
  /\ UNCHANGED <<device, backend, gate, key, lastState, quiet, queue, down, baselined, slipped>>

(* Where the loop goes once a pass is over.                                *)
NextPass == IF backend = "RawInput" THEN "pump" ELSE "gate"

(* The look at the focus in thread_main_rawinput and thread_main_polling:  *)
(* a change takes the physical state as the new baseline of the poll.      *)
CheckGate ==
  /\ step = "gate"
  /\ gate' = foreground
  /\ key' = Synced(foreground)
  /\ lastState' = IF foreground = gate THEN lastState ELSE Physical
  /\ quiet' = IF foreground = gate THEN quiet ELSE NoRelease
  /\ baselined' = (baselined \/ (foreground # gate /\ Physical))
  /\ slipped' = (slipped /\ foreground = gate)
  /\ step' = IF foreground THEN "poll" ELSE NextPass
  /\ UNCHANGED <<device, backend, queue, down>>

(* poll_input_keys: a key that differs from last_state is reported.        *)
PollKey ==
  /\ lastState' = Physical
  /\ \/ Physical # lastState /\ OnInputEvent(Polling, Physical)
     \/ /\ Physical = lastState
        /\ slipped' = (slipped /\ (step = "reconcile" => ~Physical))
        /\ UNCHANGED <<gate, key, queue, quiet, baselined>>

Poll ==
  /\ step = "poll"
  /\ step' = NextPass
  /\ PollKey
  /\ UNCHANGED <<device, backend, down>>

\* Mutant: the fallback takes the physical state as its baseline instead.
Seed_Baseline == Physical

(* What the fallback pretends the last state was, to make the key report.  *)
Seed == ~Physical

(* thread_main_polling(true) goes on in the pump's place: its first look   *)
(* at the key, ...                                                         *)
FallBackToPolling ==
  /\ step = "pump"
  /\ backend' = "Polling" /\ step' = "reconcile"
  /\ registered' = FALSE
  /\ wire' = <<>>
  /\ lastState' = Seed
  /\ slipped' = Physical
  /\ UNCHANGED <<held, foreground, gate, key, quiet, queue, down, baselined>>

(* ... and the second, in the poll that is to report every key: it reports *)
(* this one unless it has changed since the first, nobody having looked at *)
(* the gate before.                                                        *)
Reconcile ==
  /\ step = "reconcile"
  /\ step' = "gate"
  /\ PollKey
  /\ UNCHANGED <<device, backend, down>>

(* WM_QUIT, with messages behind it perhaps.                               *)
PumpQuits == "pump" \in Faults /\ backend = "RawInput" /\ FallBackToPolling

(* The periodic check finds the registration gone.                         *)
HealthCheckFails ==
  /\ backend = "RawInput" /\ wire = <<>> /\ ~registered
  /\ FallBackToPolling

--------------------------------------------------------------------------------
(* The session.                                                            *)

(* process_input_queue, one edge: apply drops an edge that repeats the     *)
(* state of the binding.                                                   *)
PopEdge ==
  /\ queue # <<>>
  /\ down' = (Head(queue) = "press")
  /\ queue' = Tail(queue)
  /\ UNCHANGED <<device, thread, baselined>>

(* rebaseline_gameplay_start_input_state, at the end of a pause.           *)
Rebaseline ==
  /\ "pause" \in Faults
  /\ queue' = <<>>
  /\ down' = Physical
  /\ UNCHANGED <<device, thread, baselined>>

--------------------------------------------------------------------------------

Device ==
  \/ \E kb \in Keyboards : PressKey(kb) \/ ReleaseKey(kb) \/ AutoRepeat(kb)
  \/ ChangeFocus \/ LoseRegistration \/ Tick

Thread == PumpMessage \/ PumpDone \/ CheckGate \/ Poll \/ Reconcile

Next == Device \/ Thread \/ PumpQuits \/ HealthCheckFails \/ PopEdge \/ Rebaseline

Spec == Init /\ [][Next]_vars

(* The thread keeps looping, and its health check comes round every 100 ms *)
(* (kRawInputRegistrationHealthIntervalNs).                                *)
FairSpec == Spec /\ WF_vars(Thread) /\ SF_vars(HealthCheckFails) /\ WF_vars(PopEdge)

--------------------------------------------------------------------------------

TypeOK ==
  /\ held \in SUBSET Keyboards
  /\ wire \in Seq(Message)
  /\ registered \in BOOLEAN /\ foreground \in BOOLEAN
  /\ backend \in {"RawInput", "Polling"} /\ step \in {"pump", "gate", "poll", "reconcile"}
  /\ gate \in BOOLEAN /\ lastState \in BOOLEAN /\ down \in BOOLEAN
  /\ key \in KeyStates
  /\ queue \in Seq({"press", "release"}) /\ Len(queue) =< QueueCapacity
  /\ quiet \in [of : Sources, left : 0..Window]
  /\ baselined \in BOOLEAN /\ slipped \in BOOLEAN

(* Raw and polled edges in any order, duplicated by auto-repeat, cut off   *)
(* by the focus or lost with the registration, keep the ownership of the   *)
(* key consistent (KeyStateTracker::process).                              *)
TrackerConsistent == Consistent(key)

(* The thread has nothing left to learn about the key.                     *)
Settled ==
  /\ backend = "RawInput" => registered
  /\ step # "reconcile"
  /\ wire = <<>> /\ lastState = Physical
  /\ foreground /\ gate

(* Once the thread has caught up, a key that nobody touches is up: neither *)
(* the two mirrors of one edge nor a release that went down with the       *)
(* registration leave it pressed ("so fast taps and releases cannot leave  *)
(* a key stuck down", docs/latency.en.md:17).  One release escapes: that   *)
(* of a key lifted between the two looks of the fallback, which leaves the *)
(* "stale logical press" that InputThread.cpp:740 means to rule out.       *)
NotStuckDown == Settled /\ IsPressed(key) => Physical \/ slipped

(* And with RawInput a key that is held is pressed, unless its press was   *)
(* rejected by the debounce, or it was down before the game had the focus. *)
(* (Polling alone misses a release and a press between two of its looks.)  *)
NoPressForgotten ==
  Settled /\ backend = "RawInput" /\ Physical => IsPressed(key) \/ key.suppressed # {} \/ baselined

(* "RawInput/Polling mirrors cannot bypass the filter": while the window   *)
(* of a release that was let through runs, no press is let through, except *)
(* one that RawInput attributes to another keyboard                        *)
(* (docs/latency.en.md:5).                                                 *)
PressLetThrough == ~IsPressed(key) /\ IsPressed(key')
MirrorsCannotBypass ==
  [][PressLetThrough /\ quiet.left > 0 /\ gate = foreground =>
       \E kb \in Keyboards \ {quiet.of} : key'.down = {kb}]_vars

(* If the player's hand leaves the key for good, the tracker lets it go    *)
(* for good, wherever the focus went and whatever was lost with the        *)
(* registration, except the release between the two looks of the fallback. *)
LetGoInTheEnd == <>[](held = {}) => <>[](~IsPressed(key) \/ slipped)

--------------------------------------------------------------------------------

(* "Losing focus resets key state" (docs/current-state.en.md:171): once    *)
(* the game has the focus again, has caught up and has drained the queue,  *)
(* a key that nobody holds is up in the session's binding as well.         *)
FocusResetsBinding == Settled /\ queue = <<>> /\ down => Physical

================================================================================
