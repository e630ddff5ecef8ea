----------------------------- MODULE ClipControls -----------------------------
(***************************************************************************)
(* A clip's playback controls: the part of a video that is played (start,  *)
(* end), and the direction and loop mode that are turned into a speed on   *)
(* every frame (VisualInstancesProperties.mm and VisualInstance's          *)
(* handleAction, updateVideo and setLoopMode).                             *)
(*                                                                         *)
(* The controls arrive as floats from a user interface, MIDI, OSC or a     *)
(* saved set, in any order and between any two frames; the model counts in *)
(* fractions of 1.0 (Unit of them).  Direction and loop mode arrive as     *)
(* floats too and are cast to their enumerations without a check.  The     *)
(* player's speed is only ever negated, so that its sign is all there is.  *)
(* The player is external and not passive: in the loop state that          *)
(* setLoopMode gives it for ping-pong it turns round at the ends of the    *)
(* video by itself, at any time between two frames.                        *)
(***************************************************************************)
EXTENDS Integers

CONSTANTS
    Unit,       \* the value that stands for 1.0
    Inputs,     \* the values that controls are set to
    Codes       \* the numbers that directions and loop modes are set to

ASSUME ControlsAssumption ==
    /\ Unit \in Nat \ {0}
    /\ Inputs \subseteq Int
    /\ Codes \subseteq Int

Left == 1
Right == 2
Normal == 1
PingPong == 2
Inverse == 3

VARIABLES
    start,       \* startPercentage
    end,         \* endPercentage
    direction,   \* direction, a number that need not be in the enumeration
    loopMode,    \* loopMode, likewise
    speed,       \* the sign of the player's speed
    palindrome,  \* the player's loop state is OF_LOOP_PALINDROME
    isLoaded,    \* video.isLoaded()
    playing,     \* video.isPlaying()
    framed,      \* history: the speed that the last frame left
    quiet        \* history: frames since the last call, in one of the two
                 \* directions, up to 2

rangeVars == <<start, end>>
controlVars == <<direction, loopMode>>
playerVars == <<speed, palindrome, isLoaded, playing>>
historyVars == <<framed, quiet>>
vars == <<rangeVars, controlVars, playerVars, historyVars>>

\* VisualInstancesProperties::reset, and a player that has not been told a speed.
Init ==
    /\ start = 0
    /\ end = Unit
    /\ direction = Left
    /\ loopMode = Normal
    /\ speed = 1
    /\ palindrome = FALSE
    /\ isLoaded = FALSE
    /\ playing = FALSE
    /\ framed = 1
    /\ quiet = 0

-----------------------------------------------------------------------------
ofClamp(v, lo, hi) == IF v < lo THEN lo ELSE IF v > hi THEN hi ELSE v

(* The range that is there decides whether the new start is taken, not the *)
(* range that would result.                                                *)

\* Mutant: the new start is taken in any case.
newStartAlways(v) == ofClamp(v, 0, Unit)

newStart(v) == IF start <= end THEN ofClamp(v, 0, Unit) ELSE end

SetStart(v) ==
    /\ start' = newStart(v)
    /\ UNCHANGED <<end, controlVars, playerVars, historyVars>>

SetEnd(v) ==
    /\ end' = IF ofClamp(v, 0, Unit) < start THEN start ELSE ofClamp(v, 0, Unit)
    /\ UNCHANGED <<start, controlVars, playerVars, historyVars>>

SetDirection(d) ==
    /\ direction' = d
    /\ quiet' = 0
    /\ UNCHANGED <<rangeVars, loopMode, playerVars, framed>>

SetLoopMode(m) ==
    /\ loopMode' = m
    /\ quiet' = 0
    /\ UNCHANGED <<rangeVars, direction, playerVars, framed>>

(* play loads the file if it is not loaded, and starts the player or, for  *)
(* a snapped clip, leaves it to the next beat (module Playback).  Whether  *)
(* loading resets the speed and the loop state is the player's affair.     *)
Play ==
    /\ isLoaded' = TRUE
    /\ playing' \in {playing, TRUE}
    /\ IF isLoaded
       THEN UNCHANGED <<speed, palindrome>>
       ELSE speed' \in {1, speed} /\ palindrome' \in {FALSE, palindrome}
    /\ quiet' = 0
    /\ UNCHANGED <<rangeVars, controlVars, framed>>

Stop ==
    /\ isLoaded
    /\ playing' = FALSE
    /\ quiet' = 0
    /\ UNCHANGED <<rangeVars, controlVars, speed, palindrome, isLoaded, framed>>

Unload ==
    /\ isLoaded
    /\ isLoaded' = FALSE
    /\ playing' = FALSE
    /\ quiet' = 0
    /\ UNCHANGED <<rangeVars, controlVars, speed, palindrome, framed>>

\* The player comes to an end of the video and turns round.
Turn ==
    /\ playing
    /\ palindrome
    /\ speed' = -speed
    /\ UNCHANGED <<rangeVars, controlVars, palindrome, isLoaded, playing, historyVars>>

(* updateVideo: first handleDirectionChange, which negates the speed       *)
(* unless it is positive for Left or negative for Right, ...               *)

\* Mutant: the early return for Right is missing.
directedSpeedFlips == IF direction = Left /\ speed > 0 THEN speed ELSE -speed

directedSpeed ==
    IF (direction = Left /\ speed > 0) \/ (direction = Right /\ speed < 0)
    THEN speed
    ELSE -speed

(* ... then handleLoopModeChange, whose previous mode is a local variable  *)
(* and always Normal: setLoopMode runs on every frame of the other modes   *)
(* and on none of Normal, in which a player stays in palindrome.  A number *)
(* outside the enumeration leaves everything alone.                        *)

loopSpeed(s) == IF loopMode = Inverse THEN -1 ELSE s

loopState ==
    CASE loopMode = PingPong -> TRUE
      [] loopMode = Inverse  -> FALSE
      [] OTHER               -> palindrome

loopDirection(s) ==
    IF (loopMode = PingPong /\ s <= 0) \/ loopMode = Inverse THEN Left ELSE direction

Frame ==
    /\ playing
    /\ speed' = loopSpeed(directedSpeed)
    /\ palindrome' = loopState
    /\ direction' = loopDirection(directedSpeed)
    /\ framed' = speed'
    /\ quiet' = IF direction \notin {Left, Right} THEN 0
                ELSE IF quiet < 2 THEN quiet + 1 ELSE 2
    /\ UNCHANGED <<rangeVars, loopMode, isLoaded, playing>>

Next ==
    \/ \E v \in Inputs : SetStart(v) \/ SetEnd(v)
    \/ \E k \in Codes : SetDirection(k) \/ SetLoopMode(k)
    \/ Play
    \/ Stop
    \/ Unload
    \/ Turn
    \/ Frame

Spec == Init /\ [][Next]_vars

-----------------------------------------------------------------------------
RangesOK ==
    /\ start \in 0 .. Unit
    /\ end \in 0 .. Unit
    /\ direction \in Int
    /\ loopMode \in Int
    /\ speed \in {-1, 1}
    /\ framed \in {-1, 1}
    /\ quiet \in 0 .. 2

FlagsTyped == palindrome \in BOOLEAN /\ isLoaded \in BOOLEAN /\ playing \in BOOLEAN

\* Types: start and end stay within the video whatever is set.
TypeOK == RangesOK /\ FlagsTyped

(* A range that was turned inside out lasts until the next change: any     *)
(* later change of its start or its end makes it a range again             *)
(* (setStartPercentage, setEndPercentage).                                 *)
RangeRepaired ==
    [][start > end /\ <<start, end>>' # <<start, end>> => start' <= end']_vars

(* With controls left alone and one of the two directions chosen, the      *)
(* frames settle: from the third one on every frame leaves the direction   *)
(* it finds and the speed that the frame before left, although each is     *)
(* computed from the other, and although a player in palindrome may have   *)
(* turned round in between.  So handleDirectionChange undoes every turn of *)
(* the player at the next frame, in ping-pong mode too (setLoopMode).      *)
PlaybackSettles ==
    [][Frame /\ quiet = 2 => direction' = direction /\ speed' = framed]_vars

(* A frame of a clip in inverse mode never leaves it going forward,        *)
(* whatever was set between the frames, and the player does not turn by    *)
(* itself after it.                                                        *)
InverseRunsBackwards ==
    quiet >= 1 /\ loopMode = Inverse => speed < 0 /\ framed < 0 /\ ~palindrome

(* In ping-pong mode, from the second frame on, every frame makes the clip *)
(* go forward, with the direction Left: that the player went backwards     *)
(* after an end, as the mode asks for, lasts until the next frame.         *)
PingPongForward ==
    quiet = 2 /\ loopMode = PingPong => framed > 0 /\ direction = Left

(* VisualInstancesProperties.mm:221 keeps, in a comment, the test that a   *)
(* start past the end is moved to the end.                                 *)
StartWithinEnd == start <= end
=============================================================================
