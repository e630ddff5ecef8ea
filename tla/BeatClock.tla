------------------------------ MODULE BeatClock ------------------------------
(***************************************************************************)
(* What the metronome promises to the rest of the engine, without threads: *)
(* a clock that counts beats in the bar (1..4) and in the phrase (1..64),  *)
(* that is silent while it is off, and that may deliver one beat that was  *)
(* already under way when it was told to stop, and no more.                *)
(***************************************************************************)
EXTENDS Integers

VARIABLES mode,      \* "off", "on", or "draining" (stopped, one beat in flight)
          bar,       \* position in the bar, what Engine::getCurrentBeat shows
          phrase     \* position in the 64 beat phrase

vars == <<mode, bar, phrase>>

\* The two counters the metronome thread advances on every beat.
NextBar(b) == IF b < 4 THEN b + 1 ELSE 1
NextPhrase(p) == IF p < 64 THEN p + 1 ELSE 1

Init ==
    /\ mode = "off"
    /\ bar = 1
    /\ phrase = 1

Start ==
    /\ mode = "off"
    /\ mode' = "on"
    /\ UNCHANGED <<bar, phrase>>

Stop ==
    /\ mode = "on"
    /\ mode' \in {"off", "draining"}
    /\ UNCHANGED <<bar, phrase>>

Tick ==
    /\ mode # "off"
    /\ mode' = IF mode = "draining" THEN "off" ELSE "on"
    /\ bar' = NextBar(bar)
    /\ phrase' = NextPhrase(phrase)

Next == Start \/ Stop \/ Tick

Spec == Init /\ [][Next]_vars
=============================================================================
