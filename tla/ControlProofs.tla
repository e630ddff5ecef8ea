---------------------------- MODULE ControlProofs ----------------------------
(***************************************************************************)
(* What a user controls: the selection of Layers for every limit and every *)
(* argument, and the controls of ClipControls for every unit and all sets  *)
(* of inputs and codes.                                                    *)
(*                                                                         *)
(* SelectionNeverPastEnd is not inductive: it says nothing of an empty     *)
(* list, to which a layer may be added with some position still selected.  *)
(* The invariant adds that an empty list selects 0 or nothing.  The flags  *)
(* are treated apart from the numbers.                                     *)
(***************************************************************************)
EXTENDS Layers, ClipControls, TLAPS

-----------------------------------------------------------------------------
(* Layers.                                                                 *)

(* The inductive invariant: the numbers are in range, the selection does   *)
(* not pass the end, and that of an empty list is 0 or -1.                 *)
SelectionInv == LayersRangesOK /\ SelectionNeverPastEnd /\ (count = 0 => selected <= 0)

(* setActive clamps: on n layers it selects one of them, keeps a selection *)
(* that was in range, or, when there are none, yields -1.                  *)
LEMMA SetActiveClamps ==
    ASSUME NEW k \in Nat, NEW n \in 0 .. MaxLayers, NEW s \in -1 .. MaxLayers - 1
    PROVE  /\ setActive(k, n, s) \in -1 .. MaxLayers - 1
           /\ n > 0 /\ s < n => setActive(k, n, s) < n
           /\ n = 0 /\ s <= 0 => setActive(k, n, s) <= 0
           /\ n > 0 /\ s >= 0 => setActive(k, n, s) >= 0
BY LimitAssumption DEF setActive

(* setActive(1) selects the first of n layers, or nothing if n = 0.        *)
LEMMA FirstSelected ==
    ASSUME NEW n \in 0 .. MaxLayers, NEW s
    PROVE  /\ setActive(1, n, s) \in -1 .. MaxLayers - 1
           /\ setActive(1, n, s) <= n - 1
           /\ n > 0 => setActive(1, n, s) >= 0
BY LimitAssumption DEF setActive

(* After a removal that leaves n layers the selection is in range.         *)
LEMMA AfterRemoveClamps ==
    ASSUME NEW n \in 0 .. MaxLayers, NEW s \in -1 .. MaxLayers - 1
    PROVE  /\ afterRemove(n, s) \in -1 .. MaxLayers - 1
           /\ n > 0 => afterRemove(n, s) \in 0 .. n - 1
           /\ n = 0 /\ s <= 0 => afterRemove(n, s) <= 0
BY LimitAssumption DEF afterRemove, setActive

(* add never passes the limit and never removes a layer.                   *)
LEMMA AddedBounded ==
    ASSUME LayersRangesOK, NEW n \in Nat
    PROVE  added(n) \in count .. MaxLayers
BY LimitAssumption DEF LayersRangesOK, added

(* An even shrink leaves at least the number of layers asked for.          *)
LEMMA ShrinkBounded ==
    ASSUME LayersRangesOK, NEW v \in Nat, v < count, v = 0 \/ (count - v) % 2 = 0
    PROVE  leftBySetCount(v) \in v .. count /\ (v > 0 => leftBySetCount(v) \in 1 .. count)
<1>1. count \in Nat /\ count <= MaxLayers
  BY LimitAssumption DEF LayersRangesOK
<1>2. CASE v = 0
  BY <1>1, <1>2 DEF leftBySetCount
<1>3. CASE v # 0
  <2>1. PICK h \in Nat : count - v = h
    BY <1>1
  <2>2. h % 2 = 0 /\ h > 0
    BY <1>1, <1>3, <2>1
  <2>3. h \div 2 + 1 \in 1 .. h
    BY <2>2
  <2> QED
    BY <1>1, <1>3, <2>1, <2>3 DEF leftBySetCount
<1> QED
  BY <1>2, <1>3

(* The flags stay Booleans.                                                *)
LEMMA FlagStep == FlagsOK /\ [LayersNext]_layersVars => FlagsOK'
<1> SUFFICES ASSUME FlagsOK, [LayersNext]_layersVars PROVE FlagsOK'
  OBVIOUS
<1> USE DEF FlagsOK
<1>1. CASE UNCHANGED layersVars
  BY <1>1 DEF layersVars
<1>2. CASE \/ Add \/ Empty \/ ActivateFirst \/ ActivatePrevious \/ ActivateNext
           \/ ActivateLast \/ CloseSet \/ OpenSetFails
  BY <1>2 DEF layersVars, Add, Empty, ActivateFirst, ActivatePrevious, ActivateNext,
              ActivateLast, Select, CloseSet, OpenSetFails
<1>3. ASSUME NEW k \in Arg,
             \/ Remove(k) \/ Select(k) \/ SetCount(k) \/ SetState(k)
             \/ NewSet(k) \/ OpenSet(k) \/ AddVisualToScene(k)
      PROVE  FlagsOK'
  BY <1>3 DEF layersVars, Remove, Select, SetCount, SetState, NewSet, OpenSet,
              AddVisualToScene
<1> QED
  BY <1>1, <1>2, <1>3 DEF LayersNext

(* The selected layer after a call of setActive on an unchanged list.      *)
LEMMA SelectStep ==
    ASSUME SelectionInv, NEW k \in Nat, Select(k)
    PROVE  SelectionInv' /\ (selected >= 0 /\ count' > 0 => selected' >= 0)
BY SetActiveClamps DEF SelectionInv, LayersRangesOK, SelectionNeverPastEnd, Select

(* Every operation keeps the invariant, and keeps a selection while there  *)
(* are layers.                                                             *)
LEMMA SelectionStep ==
    ASSUME SelectionInv, [LayersNext]_layersVars
    PROVE  SelectionInv' /\ (selected >= 0 /\ count' > 0 => selected' >= 0)
<1> DEFINE Goal == SelectionInv' /\ (selected >= 0 /\ count' > 0 => selected' >= 0)
<1> USE DEF SelectionInv, LayersRangesOK, SelectionNeverPastEnd
<1>1. CASE UNCHANGED layersVars
  BY <1>1 DEF layersVars
<1>2. CASE Add
  BY <1>2, AddedBounded DEF Add
<1>3. CASE Empty \/ CloseSet \/ OpenSetFails
  BY <1>3, LimitAssumption DEF Empty, CloseSet, OpenSetFails, layersVars
<1>4. CASE ActivateFirst \/ ActivatePrevious \/ ActivateNext \/ ActivateLast
  <2>1. \E k \in Nat : Select(k)
    BY <1>4, LimitAssumption
       DEF ActivateFirst, ActivatePrevious, ActivateNext, ActivateLast
  <2> QED
    BY <2>1, SelectStep
<1>5. ASSUME NEW k \in Arg, Remove(k) PROVE Goal
  <2>1. CASE k >= count
    BY <1>5, <2>1 DEF Remove, layersVars, Arg
  <2>2. CASE k < count
    <3>1. /\ count' = count - 1 /\ nLayers' = nLayers
          /\ selected' = afterRemove(count - 1, selected)
      BY <1>5, <2>2 DEF Remove, Arg
    <3>2. count - 1 \in 0 .. MaxLayers
      BY <2>2, LimitAssumption DEF Arg
    <3> QED
      BY <3>1, <3>2, AfterRemoveClamps
  <2> QED
    BY <2>1, <2>2, LimitAssumption DEF Arg
<1>6. ASSUME NEW k \in Arg, Select(k) PROVE Goal
  BY <1>6, SelectStep DEF Arg
<1>7. ASSUME NEW k \in Arg, SetCount(k) PROVE Goal
  <2>1. k \in Nat
    BY DEF Arg
  <2>2. CASE k >= count
    BY <1>7, <2>1, <2>2, AddedBounded DEF SetCount
  <2>3. CASE k < count /\ k > 0 /\ (count - k) % 2 = 1
    BY <1>7, <2>1, <2>3 DEF SetCount
  <2>4. CASE k < count /\ (k = 0 \/ (count - k) % 2 = 0)
    <3>1. /\ count' = leftBySetCount(k) /\ nLayers' = nLayers
          /\ selected' = IF k = 0 THEN selected ELSE afterRemove(count', selected)
      BY <1>7, <2>1, <2>4 DEF SetCount
    <3>2. count' \in k .. count /\ (k > 0 => count' > 0) /\ (k = 0 => count' = count)
      BY <2>1, <2>4, <3>1, ShrinkBounded DEF leftBySetCount
    <3>3. count' \in 0 .. MaxLayers
      BY <2>1, <3>2, LimitAssumption
    <3> QED
      BY <2>1, <3>1, <3>2, <3>3, AfterRemoveClamps
  <2> QED
    BY <2>1, <2>2, <2>3, <2>4
<1>8. ASSUME NEW k \in Arg, SetState(k) PROVE Goal
  BY <1>8, LimitAssumption DEF SetState, Arg
<1>9. ASSUME NEW k \in Arg, NewSet(k) PROVE Goal
  <2>1. k \in Nat /\ count' \in 0 .. MaxLayers
    BY <1>9, LimitAssumption, AddedBounded DEF NewSet, Arg
  <2>2. selected' = setActive(1, count', selected) /\ nLayers' = k
    BY <1>9 DEF NewSet
  <2>3. /\ selected' \in -1 .. MaxLayers - 1
        /\ selected' <= count' - 1
        /\ count' > 0 => selected' >= 0
    BY <2>1, <2>2, FirstSelected
  <2> QED
    BY <2>1, <2>2, <2>3
<1>10. ASSUME NEW k \in Arg, OpenSet(k) PROVE Goal
  <2>1. CASE k > MaxLayers
    BY <1>10, <2>1 DEF OpenSet
  <2>2. CASE ~(k > MaxLayers)
    <3>1. count' = k /\ selected' = setActive(1, k, 0) /\ nLayers' = nLayers
      BY <1>10, <2>2 DEF OpenSet
    <3>2. k \in 0 .. MaxLayers /\ 0 \in -1 .. MaxLayers - 1
      BY <2>2, LimitAssumption DEF Arg
    <3>3. /\ selected' \in -1 .. MaxLayers - 1
          /\ selected' <= count' - 1
          /\ count' > 0 => selected' >= 0
      BY <3>1, <3>2, FirstSelected
    <3> QED
      BY <3>1, <3>2, <3>3
  <2> QED
    BY <2>1, <2>2
<1>11. ASSUME NEW k \in Arg, AddVisualToScene(k) PROVE Goal
  BY <1>11, AddedBounded DEF AddVisualToScene, Arg
<1> QED
  BY <1>1, <1>2, <1>3, <1>4, <1>5, <1>6, <1>7, <1>8, <1>9, <1>10, <1>11 DEF LayersNext

(* Whatever the host calls, the list respects the limit of Layers::add and *)
(* the selection stays below it.                                           *)
THEOREM LayersTypeCorrect == LayersSpec => []LayersTypeOK
<1>0. LayersInit => FlagsOK
  BY DEF LayersInit, FlagsOK
<1>1. LayersInit => SelectionInv
  BY LimitAssumption DEF LayersInit, SelectionInv, LayersRangesOK, SelectionNeverPastEnd
<1>2. SelectionInv /\ [LayersNext]_layersVars => SelectionInv'
  BY SelectionStep
<1>3. FlagsOK /\ SelectionInv => LayersTypeOK
  BY DEF LayersTypeOK, SelectionInv
<1> QED
  BY <1>0, <1>1, <1>2, <1>3, FlagStep, PTL DEF LayersSpec

(* Layers::remove and Layers::setActive never leave the selection past the *)
(* last layer, for any limit and any sequence of calls.                    *)
THEOREM SelectionSafe == LayersSpec => []SelectionNeverPastEnd
<1>1. LayersInit => SelectionInv
  BY LimitAssumption DEF LayersInit, SelectionInv, LayersRangesOK, SelectionNeverPastEnd
<1>2. SelectionInv /\ [LayersNext]_layersVars => SelectionInv'
  BY SelectionStep
<1>3. SelectionInv => SelectionNeverPastEnd
  BY DEF SelectionInv
<1> QED
  BY <1>1, <1>2, <1>3, PTL DEF LayersSpec

(* No operation that leaves layers in the list turns a selection into -1.  *)
THEOREM SelectionIsKept == LayersSpec => SelectionKept
<1>1. LayersInit => SelectionInv
  BY LimitAssumption DEF LayersInit, SelectionInv, LayersRangesOK, SelectionNeverPastEnd
<1>2. SelectionInv /\ [LayersNext]_layersVars => SelectionInv'
  BY SelectionStep
<1>3. SelectionInv /\ [LayersNext]_layersVars
        => [selected >= 0 /\ count' > 0 => selected' >= 0]_layersVars
  BY SelectionStep
<1> QED
  BY <1>1, <1>2, <1>3, PTL DEF LayersSpec, SelectionKept

(* setCount, for any number of layers asked of any number there are, does  *)
(* not remove a layer too many.                                            *)
THEOREM ShrinkIsSafe == LayersSpec => ShrinkNeverOvershoots
<1>1. LayersInit => SelectionInv
  BY LimitAssumption DEF LayersInit, SelectionInv, LayersRangesOK, SelectionNeverPastEnd
<1>2. SelectionInv /\ [LayersNext]_layersVars => SelectionInv'
  BY SelectionStep
<1>3. ASSUME SelectionInv, NEW v \in Arg, SetCount(v), ~crashed', v <= count
      PROVE  count' >= v
  <2>1. LayersRangesOK /\ v \in Nat /\ count \in Nat
    BY <1>3, LimitAssumption DEF SelectionInv, LayersRangesOK, Arg
  <2>2. CASE v = count
    <3>1. count' = added(0) \/ count' = count
      BY <1>3, <2>1, <2>2 DEF SetCount
    <3> QED
      BY <2>1, <2>2, <3>1, AddedBounded
  <2>3. CASE v < count
    <3>1. v = 0 \/ (count - v) % 2 = 0
      BY <1>3, <2>1, <2>3 DEF SetCount
    <3>2. count' = leftBySetCount(v)
      BY <1>3, <2>1, <2>3 DEF SetCount
    <3> QED
      BY <2>1, <2>3, <3>1, <3>2, ShrinkBounded
  <2> QED
    BY <1>3, <2>1, <2>2, <2>3
<1>4. SelectionInv /\ [LayersNext]_layersVars
        => [\A v \in Arg : SetCount(v) /\ ~crashed' /\ v <= count => count' >= v]_layersVars
  BY <1>3
<1> QED
  BY <1>1, <1>2, <1>4, PTL DEF LayersSpec, ShrinkNeverOvershoots

-----------------------------------------------------------------------------
(* ClipControls: the frames settle, and a range that is inside out is      *)
(* repaired.                                                               *)

(* What the frames since the last call have established, by their number.  *)
(* It is about framed, the speed a frame left: the player may turn after   *)
(* it, and the next frame finds either sign.                               *)
InverseSettled ==
    quiet >= 1 /\ loopMode = Inverse =>
        speed = -1 /\ framed = -1 /\ direction = Left /\ ~palindrome

OtherSettled ==
    quiet >= 1 /\ loopMode # PingPong /\ loopMode # Inverse =>
        /\ direction = Left => framed = 1
        /\ direction = Right => framed = -1

PingPongSettling ==
    loopMode = PingPong =>
        /\ quiet >= 1 => direction = Left
        /\ quiet >= 2 => framed = 1

Settling ==
    /\ quiet >= 1 => direction \in {Left, Right}
    /\ InverseSettled
    /\ OtherSettled
    /\ PingPongSettling

IInv == RangesOK /\ Settling

LEMMA Initially == Init => IInv
  BY ControlsAssumption DEF Init, IInv, RangesOK, Settling, InverseSettled, OtherSettled,
                            PingPongSettling, Left, Right, Normal, PingPong, Inverse

\* ofClamp puts any integer into the interval.
LEMMA Clamped ==
  ASSUME NEW v \in Int
  PROVE  ofClamp(v, 0, Unit) \in 0 .. Unit
  BY ControlsAssumption DEF ofClamp

(* handleDirectionChange gives one of the two directions its speed,        *)
(* whichever way the player goes.                                          *)
LEMMA DirectedSpeeds ==
  ASSUME speed \in {-1, 1}
  PROVE  /\ directedSpeed \in {-1, 1}
         /\ direction = Left => directedSpeed = 1
         /\ direction = Right => directedSpeed = -1
  BY DEF directedSpeed, Left, Right

\* A frame's speed and direction, from those before it.
LEMMA FrameEffect ==
  ASSUME IInv, Frame
  PROVE  /\ speed' = loopSpeed(directedSpeed)
         /\ framed' = loopSpeed(directedSpeed)
         /\ direction' = loopDirection(directedSpeed)
         /\ quiet' = IF direction \notin {Left, Right} THEN 0
                     ELSE IF quiet < 2 THEN quiet + 1 ELSE 2
         /\ loopMode = Inverse => ~palindrome'
         /\ loopMode' = loopMode
         /\ start' = start /\ end' = end
  BY DEF Frame, rangeVars, loopState, PingPong, Inverse

LEMMA FramePreserves ==
  ASSUME IInv, Frame
  PROVE  IInv'
<1>1. /\ speed' = loopSpeed(directedSpeed)
      /\ framed' = loopSpeed(directedSpeed)
      /\ direction' = loopDirection(directedSpeed)
      /\ quiet' = IF direction \notin {Left, Right} THEN 0
                  ELSE IF quiet < 2 THEN quiet + 1 ELSE 2
      /\ loopMode' = loopMode
      /\ start' = start /\ end' = end
  BY FrameEffect
<1>2. speed \in {-1, 1} /\ direction \in Int /\ quiet \in 0 .. 2 /\ loopMode \in Int
  BY DEF IInv, RangesOK
<1>3. /\ directedSpeed \in {-1, 1}
      /\ direction = Left => directedSpeed = 1
      /\ direction = Right => directedSpeed = -1
  BY <1>2, DirectedSpeeds
<1>4. RangesOK'
  BY <1>1, <1>2, <1>3 DEF IInv, RangesOK, loopSpeed, loopDirection, Left
<1>5. InverseSettled'
  <2>1. loopMode = Inverse => ~palindrome'
    BY FrameEffect
  <2>2. loopMode = Inverse => speed' = -1 /\ framed' = -1 /\ direction' = Left
    BY <1>1, <1>2 DEF loopSpeed, loopDirection
  <2> QED
    BY <1>1, <2>1, <2>2 DEF InverseSettled
<1>6. OtherSettled'
  BY <1>1, <1>2, <1>3 DEF OtherSettled, loopSpeed, loopDirection,
                          Left, Right, PingPong, Inverse
<1>7. PingPongSettling'
  BY <1>1, <1>2, <1>3 DEF IInv, Settling, PingPongSettling, loopSpeed, loopDirection,
                          Left, Right, PingPong, Inverse
<1>8. quiet' >= 1 => direction' \in {Left, Right}
  BY <1>1, <1>2 DEF loopDirection
<1> QED
  BY <1>4, <1>5, <1>6, <1>7, <1>8 DEF IInv, Settling

\* What a step other than a frame or a turn may do: leave all alone, or start anew.
LEMMA OthersPreserve ==
  ASSUME IInv, RangesOK',
         \/ UNCHANGED <<direction, loopMode, speed, palindrome, framed, quiet>>
         \/ quiet' = 0
  PROVE  IInv'
  BY DEF IInv, RangesOK, Settling, InverseSettled, OtherSettled, PingPongSettling

\* A turn of the player disturbs nothing: it is not in inverse mode.
LEMMA TurnPreserves ==
  ASSUME IInv, Turn
  PROVE  IInv'
<1>1. palindrome /\ speed' = -speed
  BY DEF Turn
<1>2. UNCHANGED <<start, end, direction, loopMode, framed, quiet>>
  BY DEF Turn, rangeVars, controlVars, historyVars
<1>3. RangesOK'
  BY <1>1, <1>2 DEF IInv, RangesOK
<1>4. ~(quiet >= 1 /\ loopMode = Inverse)
  BY <1>1 DEF IInv, Settling, InverseSettled
<1> QED
  BY <1>2, <1>3, <1>4 DEF IInv, Settling, InverseSettled, OtherSettled, PingPongSettling

LEMMA Inductive == IInv /\ [Next]_vars => IInv'
<1> SUFFICES ASSUME IInv, [Next]_vars PROVE IInv'
  OBVIOUS
<1> USE DEF rangeVars, controlVars, playerVars, historyVars
<1>0. RangesOK
  BY DEF IInv
<1>1. ASSUME NEW v \in Inputs, SetStart(v) PROVE IInv'
  <2>1. v \in Int
    BY <1>1, ControlsAssumption
  <2>2. start' \in 0 .. Unit
    BY <1>1, <1>0, <2>1, Clamped DEF SetStart, newStart, RangesOK
  <2>3. UNCHANGED <<end, direction, loopMode, speed, palindrome, framed, quiet>>
    BY <1>1 DEF SetStart
  <2> QED
    BY <1>0, <2>2, <2>3, OthersPreserve DEF RangesOK
<1>2. ASSUME NEW v \in Inputs, SetEnd(v) PROVE IInv'
  <2>1. v \in Int
    BY <1>2, ControlsAssumption
  <2>2. end' \in 0 .. Unit
    BY <1>2, <1>0, <2>1, Clamped DEF SetEnd, RangesOK
  <2>3. UNCHANGED <<start, direction, loopMode, speed, palindrome, framed, quiet>>
    BY <1>2 DEF SetEnd
  <2> QED
    BY <1>0, <2>2, <2>3, OthersPreserve DEF RangesOK
<1>3. ASSUME NEW k \in Codes, SetDirection(k) PROVE IInv'
  <2>1. direction' \in Int /\ quiet' = 0 /\ UNCHANGED <<start, end, loopMode, speed, framed>>
    BY <1>3, ControlsAssumption DEF SetDirection
  <2> QED
    BY <1>0, <2>1, OthersPreserve DEF RangesOK
<1>4. ASSUME NEW k \in Codes, SetLoopMode(k) PROVE IInv'
  <2>1. loopMode' \in Int /\ quiet' = 0 /\ UNCHANGED <<start, end, direction, speed, framed>>
    BY <1>4, ControlsAssumption DEF SetLoopMode
  <2> QED
    BY <1>0, <2>1, OthersPreserve DEF RangesOK
<1>5. CASE Play
  <2>1. speed' \in {1, speed} /\ quiet' = 0
        /\ UNCHANGED <<start, end, direction, loopMode, framed>>
    BY <1>5 DEF Play
  <2> QED
    BY <1>0, <2>1, OthersPreserve DEF RangesOK
<1>6. CASE Stop \/ Unload
  <2>1. quiet' = 0 /\ UNCHANGED <<start, end, direction, loopMode, speed, framed>>
    BY <1>6 DEF Stop, Unload
  <2> QED
    BY <1>0, <2>1, OthersPreserve DEF RangesOK
<1>7. CASE Turn
  BY <1>7, TurnPreserves
<1>8. CASE Frame
  BY <1>8, FramePreserves
<1>9. CASE UNCHANGED vars
  <2>1. UNCHANGED <<start, end, direction, loopMode, speed, palindrome, framed, quiet>>
    BY <1>9 DEF vars
  <2> QED
    BY <1>0, <2>1, OthersPreserve DEF RangesOK
<1> QED
  BY <1>1, <1>2, <1>3, <1>4, <1>5, <1>6, <1>7, <1>8, <1>9 DEF Next

LEMMA Invariance == Spec => []IInv
  BY Initially, Inductive, PTL DEF Spec

\* The player's flags stay Booleans.
LEMMA FlagsStayTyped == FlagsTyped /\ [Next]_vars => FlagsTyped'
<1> SUFFICES ASSUME FlagsTyped, [Next]_vars PROVE FlagsTyped'
  OBVIOUS
<1> USE DEF FlagsTyped, rangeVars, controlVars, playerVars, historyVars
<1>1. CASE UNCHANGED vars
  BY <1>1 DEF vars
<1>2. CASE \/ \E v \in Inputs : SetStart(v) \/ SetEnd(v)
           \/ \E k \in Codes : SetDirection(k) \/ SetLoopMode(k)
  BY <1>2 DEF SetStart, SetEnd, SetDirection, SetLoopMode
<1>3. CASE Play
  BY <1>3 DEF Play
<1>4. CASE Stop \/ Unload \/ Turn
  BY <1>4 DEF Stop, Unload, Turn
<1>5. CASE Frame
  BY <1>5 DEF Frame, loopState
<1> QED
  BY <1>1, <1>2, <1>3, <1>4, <1>5 DEF Next

(* TypeOK: start and end stay between 0 and 1.0 for every sequence of      *)
(* controls and frames.                                                    *)
THEOREM ControlsTypeCorrect == Spec => []TypeOK
<1>1. Init => FlagsTyped
  BY DEF Init, FlagsTyped
<1>2. Spec => []FlagsTyped
  BY <1>1, FlagsStayTyped, PTL DEF Spec
<1>3. IInv /\ FlagsTyped => TypeOK
  BY DEF IInv, TypeOK
<1> QED
  BY <1>2, <1>3, Invariance, PTL

(* A clip in inverse mode has run backwards since the first frame after    *)
(* the mode was set, and its player will not turn (setLoopMode on every    *)
(* frame).                                                                 *)
THEOREM InverseAlwaysBackwards == Spec => []InverseRunsBackwards
<1>1. IInv => InverseRunsBackwards
  BY DEF IInv, RangesOK, Settling, InverseSettled, InverseRunsBackwards
<1> QED
  BY <1>1, Invariance, PTL

(* In ping-pong mode every frame from the second on makes the clip go      *)
(* forward, however often its player turned (setLoopMode,                  *)
(* handleDirectionChange).                                                 *)
THEOREM PingPongAlwaysForward == Spec => []PingPongForward
<1>1. IInv => PingPongForward
  BY DEF IInv, RangesOK, Settling, PingPongSettling, PingPongForward
<1> QED
  BY <1>1, Invariance, PTL

(* From the third frame without a call on, a frame leaves a clip with a    *)
(* proper direction as the frame before did, whatever its player did in    *)
(* between (handleDirectionChange, setLoopMode).                           *)
THEOREM SettlesAlways == Spec => PlaybackSettles
<1> DEFINE Settled == Frame /\ quiet = 2 => direction' = direction /\ speed' = framed
<1>1. IInv /\ [Next]_vars => Settled
  <2> SUFFICES ASSUME IInv, Frame, quiet = 2
               PROVE  direction' = direction /\ speed' = framed
    OBVIOUS
  <2>1. speed' = loopSpeed(directedSpeed) /\ direction' = loopDirection(directedSpeed)
    BY FrameEffect
  <2>2. direction \in {Left, Right} /\ loopMode \in Int
    BY DEF IInv, RangesOK, Settling
  <2>3. /\ directedSpeed \in {-1, 1}
        /\ direction = Left => directedSpeed = 1
        /\ direction = Right => directedSpeed = -1
    BY DirectedSpeeds DEF IInv, RangesOK
  <2> QED
    BY <2>1, <2>2, <2>3 DEF IInv, Settling, InverseSettled, OtherSettled, PingPongSettling,
                            loopSpeed, loopDirection, Left, Right, PingPong, Inverse
<1> QED
  BY <1>1, Invariance, PTL DEF Spec, PlaybackSettles

(* A start past the end lasts until the next change of either.             *)
THEOREM RangeAlwaysRepaired == Spec => RangeRepaired
<1> DEFINE Repaired == start > end /\ <<start, end>>' # <<start, end>> => start' <= end'
<1>1. IInv /\ [Next]_vars => Repaired
  <2> SUFFICES ASSUME IInv, [Next]_vars, start > end, <<start, end>>' # <<start, end>>
               PROVE  start' <= end'
    OBVIOUS
  <2>0. start \in Int /\ end \in Int
    BY DEF IInv, RangesOK
  <2>1. CASE \E v \in Inputs : SetStart(v)
    <3>1. start' = end /\ end' = end
      BY <2>0, <2>1 DEF SetStart, newStart
    <3> QED
      BY <2>0, <3>1
  <2>2. CASE \E v \in Inputs : SetEnd(v)
    <3>1. PICK v \in Inputs : SetEnd(v)
      BY <2>2
    <3>2. v \in Int
      BY ControlsAssumption
    <3>3. start' = start /\ end' = (IF ofClamp(v, 0, Unit) < start THEN start ELSE ofClamp(v, 0, Unit))
      BY <3>1 DEF SetEnd
    <3> QED
      BY <2>0, <3>2, <3>3, Clamped, ControlsAssumption
  <2>3. ASSUME UNCHANGED <<start, end>> PROVE FALSE
    BY <2>3
  <2>4. Next => \/ \E v \in Inputs : SetStart(v)
                \/ \E v \in Inputs : SetEnd(v)
                \/ UNCHANGED <<start, end>>
    BY DEF Next, SetDirection, SetLoopMode, Play, Stop, Unload, Turn, Frame, rangeVars
  <2> QED
    BY <2>1, <2>2, <2>3, <2>4 DEF vars, rangeVars
<1> QED
  BY <1>1, Invariance, PTL DEF Spec, RangeRepaired
=============================================================================
