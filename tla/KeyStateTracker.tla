---------------------------- MODULE KeyStateTracker ----------------------------
(***************************************************************************)
(* The filter between the keyboards and the game (input/KeyStateTracker).  *)
(*                                                                         *)
(* One logical key can be reported by several sources: every physical      *)
(* keyboard that has it (RawInput), and Polling, the aggregate state of    *)
(* all of them.  The tracker turns their edges into the edges of one       *)
(* logical key.  Keys do not interact, so the module follows one of them.  *)
(*                                                                         *)
(* A source's last_release_time_ns and has_release are kept as what is     *)
(* left of its debounce window, in cooling[s]: within_debounce is then     *)
(* cooling[s] > 0, and a clock that went backwards is out of the model.    *)
(***************************************************************************)
EXTENDS Naturals, FiniteSets

CONSTANTS
  Keyboards,   \* physical keyboards, as RawInput names them
  Polling,     \* kPollingAggregateDeviceId
  Window       \* debounce_window_ns, in ticks; 0 keeps every edge

ASSUME KeyboardsAssumption == IsFiniteSet(Keyboards) /\ Polling \notin Keyboards
ASSUME WindowAssumption == Window \in Nat

Sources == Keyboards \cup {Polling}

Edges == {"none", "press", "release"}

(* KeyState: the sources that hold the key, those whose press was rejected *)
(* and not yet released, the debounce left to each, pressed_source_count   *)
(* and polling_only_cycle.                                                 *)
KeyStates ==
  [ down        : SUBSET Sources,
    suppressed  : SUBSET Sources,
    cooling     : [Sources -> 0..Window],
    count       : Nat,
    pollingOnly : BOOLEAN ]

(* reset, and a key no source has reported yet.                            *)
FreshKey ==
  [ down |-> {}, suppressed |-> {}, cooling |-> [s \in Sources |-> 0],
    count |-> 0, pollingOnly |-> FALSE ]

(* is_key_pressed                                                          *)
IsPressed(k) == k.count > 0

\* Mutant: a counter is lowered without a look at zero.
Lower_Wraps(n) == n - 1

Lower(n) == IF n > 0 THEN n - 1 ELSE 0

(* One tick of the clock.                                                  *)
Cool(k) == [k EXCEPT !.cooling = [s \in Sources |-> Lower(k.cooling[s])]]

\* Mutant: only the mirror's own press is taken back.
PollingRelease_OwnOnly(k) ==
  [k EXCEPT !.down = @ \ {Polling}, !.suppressed = @ \ {Polling},
            !.count = IF Polling \in k.down THEN Lower(k.count) ELSE k.count]

(* Polling saw the key up: no keyboard can be holding it, whatever edges   *)
(* were lost.                                                              *)
PollingRelease(k) ==
  LET released == k.down \cup k.suppressed
      cooled   == IF released = {} THEN {} ELSE released \cup {Polling}
  IN  [k EXCEPT !.down = {}, !.suppressed = {}, !.count = 0,
                !.cooling = [s \in Sources |-> IF s \in cooled THEN Window ELSE k.cooling[s]]]

\* Mutant: the first keyboard that lets go takes the key from all of them.
CountWithout_First(k, s) == 0

(* pressed_source_count without source s.                                  *)
CountWithout(k, s) == IF s \in k.down THEN Lower(k.count) ELSE k.count

\* Mutant: a release counts for its keyboard only.
CooledBy_Own(k, s) == {s}

(* The release of the last owner counts for Polling as well, so that its   *)
(* late press meets the same window.                                       *)
CooledBy(k, s) == IF CountWithout(k, s) = 0 THEN {s, Polling} ELSE {s}

(* A keyboard let the key go.                                              *)
RawRelease(k, s) ==
  LET attributed == k.pollingOnly /\ Polling \in k.suppressed
      counted    == s \in k.down \cup k.suppressed \/ attributed
      count      == CountWithout(k, s)
      others     == k.suppressed \ {s}
  IN  IF ~counted THEN k
      ELSE [ down        |-> k.down \ {s},
             suppressed  |-> IF count > 0 THEN others
                             ELSE IF others \cap Keyboards = {} THEN {}
                             ELSE others \cup {Polling},
             cooling     |-> [t \in Sources |-> IF t \in CooledBy(k, s) THEN Window ELSE k.cooling[t]],
             count       |-> count,
             pollingOnly |-> k.pollingOnly /\ ~attributed ]

\* Mutant: a raw press that polling reported first is counted again.
Transferred_Never(k, s) == FALSE

(* A press by a keyboard that Polling had already reported takes over      *)
(* Polling's ownership.                                                    *)
Transferred(k, s) == s # Polling /\ Polling \in k.down

(* The press falls into the debounce window of its source, or repeats one  *)
(* that only Polling has reported and that is still in its own.            *)
Rejected(k, s) ==
  \/ k.cooling[s] > 0
  \/ k.pollingOnly /\ (Polling \in k.suppressed \/ k.cooling[Polling] > 0)

Press(k, s) ==
  LET moved == Transferred(k, s)
      down  == IF moved THEN k.down \ {Polling} ELSE k.down
      count == IF moved THEN Lower(k.count) ELSE k.count
      known == s \in k.down \cup k.suppressed \/ (s = Polling /\ IsPressed(k))
  IN  IF ~moved /\ known THEN k
      ELSE IF ~moved /\ Rejected(k, s)
           THEN LET mirrored == s # Polling /\ ~IsPressed(k)
                IN  [k EXCEPT !.suppressed  = @ \cup {s} \cup (IF mirrored THEN {Polling} ELSE {}),
                              !.pollingOnly = IF s = Polling THEN TRUE ELSE @ /\ ~mirrored]
      ELSE [k EXCEPT !.down        = down \cup {s},
                     !.suppressed  = IF moved THEN @ \ {s} ELSE @,
                     !.count       = count + 1,
                     !.pollingOnly = s = Polling]

(* process: the key after an edge of source s.                             *)
Process(k, s, pressed) ==
  IF pressed THEN Press(k, s)
  ELSE IF s = Polling THEN PollingRelease(k)
  ELSE RawRelease(k, s)

(* What process returns: the edge of the logical key, if it changed.       *)
EdgeOf(k, after) ==
  IF IsPressed(k) = IsPressed(after) THEN "none"
  ELSE IF IsPressed(after) THEN "press" ELSE "release"

--------------------------------------------------------------------------------

(* The count is the number of sources that own the key, Polling owns it    *)
(* only alone and only in a cycle it opened itself, and nobody both owns   *)
(* it and waits for the release of a rejected press.  Raw and polled edges *)
(* in any order, duplicated or lost, keep it: a count that drifted would   *)
(* leave the key down for good or swallow its next press.                  *)
Consistent(k) ==
  /\ k.count = Cardinality(k.down)
  /\ Polling \in k.down => k.down = {Polling} /\ k.pollingOnly
  /\ k.down \cap k.suppressed = {}

================================================================================
