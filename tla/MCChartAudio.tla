------------------------------ MODULE MCChartAudio ------------------------------
(* A small chart for TLC.  Assets 1 and 2 are two files of one sound, started  *)
(* at the same time by a note and by a cue; 3 is an intro the play must wait   *)
(* for; 4 is a file that cannot be decoded and whose length is unknown.        *)
EXTENDS ChartAudio

CONSTANTS piano, drum

MCSound == <<piano, piano, drum, Broken>>
MCBytes == <<2, 2, 1, 0>>
MCDuration == [p \in Pcm |-> 3]
Cue(time, asset) == [at |-> time, asset |-> asset, gain |-> 1]
Silent(time, asset) == [Cue(time, asset) EXCEPT !.gain = 0]
MCBgm == <<Cue(1, 3), Silent(3, 1), Cue(3, 2), Cue(4, 4)>>
MCNotes == <<Cue(3, 1)>>

================================================================================
