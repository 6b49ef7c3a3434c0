--------------------------- MODULE EventTranscript ---------------------------
(***************************************************************************)
(* What the reader of authentication events is promised: within one        *)
(* generation it is handed the frames of one association in the order they *)
(* were heard and none is left out; when one is lost, nothing more of that *)
(* generation is handed out, and a new stream has a new generation.        *)
(***************************************************************************)
EXTENDS Naturals

VARIABLES
    generation,   \* the generation the reader sees
    heard,        \* frames heard in it
    seen,         \* frames handed out in it
    last,         \* the number of the frame handed out last, 0 if none
    lost          \* whether the stream lost a frame

transcriptVars == <<generation, heard, seen, last, lost>>

Init ==
    /\ generation \in Nat
    /\ heard = 0 /\ seen = 0 /\ last = 0 /\ lost = FALSE

Hear ==
    /\ ~lost
    /\ heard' = heard + 1
    /\ UNCHANGED <<generation, seen, last, lost>>

Deliver ==
    /\ ~lost /\ seen < heard
    /\ seen' = seen + 1
    /\ last' = seen + 1
    /\ UNCHANGED <<generation, heard, lost>>

Lose ==
    /\ ~lost
    /\ lost' = TRUE
    /\ heard' = heard + 1
    /\ UNCHANGED <<generation, seen, last>>

Restart ==
    /\ generation' # generation
    /\ heard' = 0 /\ seen' = 0 /\ last' = 0 /\ lost' = FALSE

Next == Hear \/ Deliver \/ Lose \/ Restart

Spec == Init /\ [][Next]_transcriptVars
=============================================================================
