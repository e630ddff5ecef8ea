-------------------------------- MODULE Layers --------------------------------
(***************************************************************************)
(* The mixer's list of layers and the selected layer: class Layers         *)
(* (Main/Layer.mm), with the operations of Engine and Set that fill and    *)
(* empty the list (newSet, openSet, closeSet, setState, addVisualToScene). *)
(*                                                                         *)
(* The list and the selection are kept in two singletons that know nothing *)
(* of each other: Layers owns the list, EngineProperties::selectedLayer is *)
(* a plain int.  Positions are 0-based, the arguments of setActive 1-based *)
(* and unsigned, so that 0 - 1 becomes -1 when it is stored in the int.    *)
(* All of it runs on the main thread.  A layer's contents do not matter    *)
(* here: the list is its length.                                           *)
(***************************************************************************)
EXTENDS Integers

CONSTANTS
    MaxLayers,   \* MAXIMUM_NUMBER_OF_LAYERS
    MaxArg       \* bound on the numbers the host passes

ASSUME LimitAssumption == MaxLayers \in Nat \ {0} /\ MaxArg \in Nat

VARIABLES
    count,       \* length of Layers::layersList
    selected,    \* EngineProperties::selectedLayer
    loaded,      \* Set::loaded
    nLayers,     \* Set::nLayers
    crashed      \* the process was killed

layersVars == <<count, selected, loaded, nLayers, crashed>>

Arg == 0 .. MaxArg

\* The singletons are zero-initialised statics; Set's constructor runs.
LayersInit ==
    /\ count = 0
    /\ selected = 0
    /\ loaded = FALSE
    /\ nLayers = 0
    /\ crashed = FALSE

-----------------------------------------------------------------------------
(* The selected position when setActive(k) is called on n layers with      *)
(* position s selected.                                                    *)

\* Mutant: the early return for 0 is missing.
setActiveWraps(k, n, s) == IF k > n THEN n - 1 ELSE k - 1

setActive(k, n, s) ==
    IF k = 0 THEN s
    ELSE IF k > n THEN n - 1
    ELSE k - 1

(* The length of the list after n calls of add: a call at the limit        *)
(* returns NULL and adds nothing.                                          *)

added(n) == IF count + n > MaxLayers THEN MaxLayers ELSE count + n

(* The selected position after remove has left n layers.  The comparison   *)
(* is unsigned, so that a lost selection (-1) counts as past the end.      *)

\* Mutant: the last position is not seen to be gone.
afterRemoveLate(n, s) == IF s > n \/ s < 0 THEN setActive(n, n, s) ELSE s

afterRemove(n, s) == IF s >= n \/ s < 0 THEN setActive(n, n, s) ELSE s

-----------------------------------------------------------------------------
(* Layers' own operations.                                                 *)

Add ==
    /\ count' = added(1)
    /\ UNCHANGED <<selected, loaded, nLayers, crashed>>

Empty ==
    /\ count' = 0
    /\ selected' = 0
    /\ UNCHANGED <<loaded, nLayers, crashed>>

(* remove refuses positions past the end, but not the end itself, where it *)
(* erases the list's sentinel and frees memory that was not allocated.     *)
Remove(k) ==
    \/ /\ k > count
       /\ UNCHANGED layersVars
    \/ /\ k = count
       /\ crashed' = TRUE
       /\ UNCHANGED <<count, selected, loaded, nLayers>>
    \/ /\ k < count
       /\ count' = count - 1
       /\ selected' = afterRemove(count - 1, selected)
       /\ UNCHANGED <<loaded, nLayers, crashed>>

Select(k) ==
    /\ selected' = setActive(k, count, selected)
    /\ UNCHANGED <<count, loaded, nLayers, crashed>>

ActivateFirst == Select(1)

\* getCurrentId turns -1 into 2^32 - 1, which setActive clamps.
ActivatePrevious ==
    IF selected = -1 THEN Select(count + 1) ELSE Select(selected)

\* ... and 2^32 - 1 + 2 into 1.
ActivateNext == Select(selected + 2)

ActivateLast == Select(count)

(* setCount removes position v - 1, then v, v + 1, ... from a list that    *)
(* shrinks at the same time.  The two meet half way: on the end of the     *)
(* list, which crashes, if an odd number of layers is to go, and past it,  *)
(* where remove does nothing, otherwise.  For v = 0 the first position is  *)
(* 2^32 - 1 and the loop does not run.                                     *)

\* Mutant: position v - 1 is removed in every round.
leftBySetCountFixed(v) == IF v = 0 THEN count ELSE v - 1

leftBySetCount(v) == IF v = 0 THEN count ELSE count - ((count - v) \div 2 + 1)

SetCount(v) ==
    \/ /\ v >= count
       /\ count' = added(v - count)
       /\ UNCHANGED <<selected, loaded, nLayers, crashed>>
    \/ /\ v < count
       /\ v > 0 /\ (count - v) % 2 = 1
       /\ crashed' = TRUE
       /\ UNCHANGED <<count, selected, loaded, nLayers>>
    \/ /\ v < count
       /\ v = 0 \/ (count - v) % 2 = 0
       /\ count' = leftBySetCount(v)
       /\ selected' = IF v = 0 THEN selected ELSE afterRemove(count', selected)
       /\ UNCHANGED <<loaded, nLayers, crashed>>

-----------------------------------------------------------------------------
(* Engine's and Set's operations on the list.                              *)

(* Layers::setState, from Engine::setState: a list longer than the limit   *)
(* makes add return NULL, which setState then dereferences.                *)
SetState(n) ==
    IF n > MaxLayers
    THEN /\ crashed' = TRUE
         /\ UNCHANGED <<count, selected, loaded, nLayers>>
    ELSE /\ count' = n
         /\ selected' = 0
         /\ UNCHANGED <<loaded, nLayers, crashed>>

\* Only newSet sets loaded, and closeSet does nothing unless it is set.
CloseSet ==
    IF loaded
    THEN /\ count' = 0
         /\ selected' = 0
         /\ loaded' = FALSE
         /\ UNCHANGED <<nLayers, crashed>>
    ELSE UNCHANGED layersVars

\* closeSet(); n times add(); setActive(1).
NewSet(n) ==
    /\ count' = IF loaded THEN (IF n > MaxLayers THEN MaxLayers ELSE n) ELSE added(n)
    /\ selected' = setActive(1, count', selected)
    /\ loaded' = TRUE
    /\ nLayers' = n
    /\ UNCHANGED crashed

(* openSet: the old set is gone before the file is read, and a file that   *)
(* is missing or does not parse leaves by an exception.                    *)
OpenSet(n) ==
    /\ loaded' = FALSE
    /\ UNCHANGED nLayers
    /\ IF n > MaxLayers
       THEN crashed' = TRUE /\ UNCHANGED <<count, selected>>
       ELSE /\ count' = n
            /\ selected' = setActive(1, n, 0)
            /\ UNCHANGED crashed

OpenSetFails ==
    /\ loaded' = FALSE
    /\ count' = 0
    /\ selected' = 0
    /\ UNCHANGED <<nLayers, crashed>>

\* addVisualToScene for a visual that exists: add the layers up to layer l.
AddVisualToScene(l) ==
    /\ count' = IF l > nLayers /\ l >= count THEN added(l + 1 - count) ELSE count
    /\ UNCHANGED <<selected, loaded, nLayers, crashed>>

LayersNext ==
    /\ ~crashed
    /\ \/ Add
       \/ Empty
       \/ ActivateFirst
       \/ ActivatePrevious
       \/ ActivateNext
       \/ ActivateLast
       \/ CloseSet
       \/ OpenSetFails
       \/ \E k \in Arg : \/ Remove(k)
                         \/ Select(k)
                         \/ SetCount(k)
                         \/ SetState(k)
                         \/ NewSet(k)
                         \/ OpenSet(k)
                         \/ AddVisualToScene(k)

LayersSpec == LayersInit /\ [][LayersNext]_layersVars

-----------------------------------------------------------------------------
FlagsOK ==
    /\ loaded \in BOOLEAN
    /\ crashed \in BOOLEAN

LayersRangesOK ==
    /\ count \in 0 .. MaxLayers
    /\ selected \in -1 .. MaxLayers - 1
    /\ nLayers \in Nat

(* The list never exceeds the limit of Layers::add, and the selection is a *)
(* position below the limit, or -1 when it is lost.                        *)
LayersTypeOK == FlagsOK /\ LayersRangesOK

(* The selection never points past the last layer, whatever was added,     *)
(* removed, reloaded or selected before: a non-empty list has either its   *)
(* selected layer or no selection (Layers::remove moves the selection,     *)
(* setActive clamps it).                                                   *)
SelectionNeverPastEnd == count > 0 => selected < count

(* Only an empty list loses its selection: as long as layers remain, no    *)
(* operation turns a valid selected layer into -1 (the clamp of setActive  *)
(* is an unsigned subtraction that wraps when there is nothing to select). *)
SelectionKept == [][selected >= 0 /\ count' > 0 => selected' >= 0]_layersVars

(* Layers::setCount does not remove more layers than it was asked to,      *)
(* although its loop removes from the list it counts on.                   *)
ShrinkNeverOvershoots ==
    [][\A v \in Arg : SetCount(v) /\ ~crashed' /\ v <= count => count' >= v]_layersVars

(* Engine.h:92 says of newSet that it "Starts a new set with the given     *)
(* dimentions and number of layers".                                       *)
NewSetHasItsLayers ==
    [][\A n \in 1 .. MaxLayers : NewSet(n) => count' = n]_layersVars
=============================================================================
