----------------------------- MODULE SetLifecycle -----------------------------
(***************************************************************************)
(* Who owns what in a set: the list of visuals (Visuals.mm), the scenes    *)
(* (Scene.mm) with their clips (class VisualInstances), the current scene  *)
(* (Set.mm), the clip each layer shows, and the file a set is saved to and *)
(* opened from (Engine::getState, setState).                               *)
(*                                                                         *)
(* All of it is raw pointers.  An object is a number; freed holds those    *)
(* that were deleted, and an access to one of them, or to NULL, makes the  *)
(* rest of the run undefined.  A number is used again once nothing refers  *)
(* to it.  The state is one record and every function of the source an     *)
(* operator on it, so that a call composes them in the source's order.     *)
(* Layers are cells' first halves here; their list is in module Layers,    *)
(* and what a clip does when it plays is in module Playback.               *)
(***************************************************************************)
EXTENDS Integers, Sequences, SequencesExt, FiniteSetsExt

CONSTANTS
    Files,       \* video files
    Camera,      \* the source of a visual that is not a video
    VisualIds,   \* bound: visuals that are referred to at a time
    SceneIds,    \* bound: scenes
    ClipIds,     \* bound: clips
    Layer,       \* numbers of layers
    Column,      \* numbers of columns
    Hosts,       \* bound: the calls a host makes, beside building, opening and
                 \* closing sets, and the files it has
    FirstFile    \* the file there is at the start

NULL == 0

ASSUME IdsAssumption ==
    /\ VisualIds \cup SceneIds \cup ClipIds \subseteq Nat \ {NULL}
    /\ VisualIds \cap SceneIds = {}
    /\ VisualIds \cap ClipIds = {}
    /\ SceneIds \cap ClipIds = {}
    /\ Camera \notin Files
    /\ Hosts \subseteq [calls : SUBSET {"scenes", "empty", "parts", "show", "save"},
                        files : SUBSET Files]
    /\ Layer \subseteq Nat /\ Column \subseteq Nat

Cell == Layer \X Column
Source == Files \cup {Camera}

\* What a set file holds.
File ==
    [visuals : Seq(Source),
     scenes : Seq(Seq([index : Nat, cell : Nat \X Nat, visual : Source]))]

\* The clips of a scene as savedClips writes them.
AsSaved(clips) ==
    \A j, k \in 1 .. Len(clips) : /\ clips[k].index = k - 1
                                  /\ clips[j].cell = clips[k].cell => j = k

ASSUME FileAssumption ==
    FirstFile \in File /\ \A n \in 1 .. Len(FirstFile.scenes) : AsSaved(FirstFile.scenes[n])

VARIABLES
    st,      \* the state of the engine, below
    disk,    \* the set file
    broken,  \* history: ways in which pointers were left behind
    host     \* the program that uses the engine
vars == <<st, disk, broken, host>>

Start ==
    [visuals |-> <<>>,                       \* Visuals::visualsList
     source |-> [v \in VisualIds |-> Camera],
     scenes |-> <<>>,                        \* Scenes::scenesList
     clipsOf |-> [s \in SceneIds |-> <<>>],  \* Scene::visualInstances
     clip |-> [k \in ClipIds |-> [visual |-> NULL, cell |-> <<0, 0>>]],
     current |-> NULL,                       \* Set::currentScene
     number |-> 0,                           \* Set::currentSceneNumber
     loaded |-> FALSE,                       \* Set::loaded
     active |-> [l \in Layer |-> NULL],      \* Layer::activeInstance
     freed |-> {},
     undefined |-> FALSE,
     full |-> FALSE,                         \* a bound was hit
     opened |-> FALSE]                       \* history: as a file with both lists left it

State ==
    [visuals : Seq(VisualIds), source : [VisualIds -> Source],
     scenes : Seq(SceneIds), clipsOf : [SceneIds -> Seq(ClipIds)],
     clip : [ClipIds -> [visual : VisualIds \cup {NULL}, cell : Nat \X Nat]],
     current : SceneIds \cup {NULL}, number : Nat, loaded : BOOLEAN,
     active : [Layer -> ClipIds \cup {NULL}],
     freed : SUBSET (VisualIds \cup SceneIds \cup ClipIds),
     undefined : BOOLEAN, full : BOOLEAN, opened : BOOLEAN]

Undefined == [Start EXCEPT !.undefined = TRUE]

Init ==
    /\ st = Start
    /\ disk = FirstFile
    /\ broken = {}
    /\ host \in Hosts

-----------------------------------------------------------------------------
(* The heap.                                                               *)

clipsIn(s) == UNION {ToSet(s.clipsOf[x]) : x \in SceneIds}
clipsHeld(s) == clipsIn(s) \cup {s.active[l] : l \in Layer}

inUse(s) ==
    ToSet(s.visuals) \cup ToSet(s.scenes) \cup {s.current} \cup clipsHeld(s)
       \cup {s.clip[k].visual : k \in (clipsHeld(s) \ s.freed) \cap ClipIds}

touch(s, objects) ==
    [s EXCEPT !.undefined = @ \/ objects \cap (s.freed \cup {NULL}) # {}]

\* Clips, and the visuals they show, are accessed.
touchClips(s, clips) ==
    IF clips \cap (s.freed \cup {NULL}) # {} THEN [s EXCEPT !.undefined = TRUE]
    ELSE touch(s, {s.clip[k].visual : k \in clips})

free(s, objects) == [s EXCEPT !.freed = @ \cup objects]

hitsBound(s) == [s EXCEPT !.full = TRUE]

\* A loop over a list: op for every element, from the first to the last.
loop(op(_, _), s, list) ==
    LET run[n \in 0 .. Len(list)] == IF n = 0 THEN s ELSE op(run[n - 1], list[n])
    IN  run[Len(list)]

-----------------------------------------------------------------------------
(* Visuals.                                                                *)

addVisual(s, file) ==
    LET ids == VisualIds \ inUse(s)
        v == Min(ids)
    IN  IF ids = {} THEN hitsBound(s)
        ELSE [s EXCEPT !.visuals = Append(@, v), !.source[v] = file, !.freed = @ \ {v},
                       !.opened = FALSE]

isFileInList(s, file) == \E n \in 1 .. Len(s.visuals) : s.source[s.visuals[n]] = file

emptyVisuals(s) == [free(s, ToSet(s.visuals)) EXCEPT !.visuals = <<>>]

-----------------------------------------------------------------------------
(* Scenes and their clips.                                                 *)

newScene(s) ==
    LET ids == SceneIds \ inUse(s)
        x == Min(ids)
    IN  IF ids = {} THEN hitsBound(s)
        ELSE [s EXCEPT !.scenes = Append(@, x), !.clipsOf[x] = <<>>, !.freed = @ \ {x},
                       !.opened = FALSE]

\* VisualInstances::empty deletes the clips; its last line clears nothing.
emptyClips(s, x) == free(touch(s, ToSet(s.clipsOf[x])), ToSet(s.clipsOf[x]))

deleteScene(s, x) == [free(emptyClips(s, x), {x}) EXCEPT !.clipsOf[x] = <<>>]

emptyScenes(s) == [loop(deleteScene, s, s.scenes) EXCEPT !.scenes = <<>>]

\* VisualInstances::remove erases the first clip it finds in the cell.
withoutCell(s, x, cell) ==
    LET found == {n \in 1 .. Len(s.clipsOf[x]) : s.clip[s.clipsOf[x][n]].cell = cell}
    IN  IF found = {} THEN s.clipsOf[x] ELSE RemoveAt(s.clipsOf[x], Min(found))

addClip(s, x, v, cell) ==
    LET t == touch(s, ToSet(s.clipsOf[x]))
        left == withoutCell(s, x, cell)
        ids == ClipIds \ inUse([s EXCEPT !.clipsOf[x] = left])
        k == Min(ids)
    IN  IF t.undefined THEN t
        ELSE IF ids = {} THEN hitsBound(s)
        ELSE [s EXCEPT !.clipsOf[x] = Append(left, k),
                       !.clip[k] = [visual |-> v, cell |-> cell],
                       !.freed = @ \ {k}, !.opened = FALSE]

(* A scene is made the current one and all of its clips are loaded.  For   *)
(* an empty list of scenes the unsigned size() - 1 is large, and what the  *)
(* end of the list holds is taken.                                         *)

\* Mutant: the number of the scene is not kept.
setCurrentSceneUnnumbered(s, n) ==
    IF s.scenes = <<>> \/ n > Len(s.scenes) - 1 THEN s
    ELSE [s EXCEPT !.current = s.scenes[n + 1]]

setCurrentScene(s, n) ==
    IF s.scenes = <<>> THEN [s EXCEPT !.undefined = TRUE]
    ELSE IF n > Len(s.scenes) - 1 THEN s
    ELSE touchClips([s EXCEPT !.current = s.scenes[n + 1], !.number = n],
                    ToSet(s.clipsOf[s.scenes[n + 1]]))

-----------------------------------------------------------------------------
(* Saving and loading.                                                     *)

\* The index of a clip in a saved set is its place among the clips.
savedClips(s, x) ==
    [k \in 1 .. Len(s.clipsOf[x]) |->
        [index |-> k - 1, cell |-> s.clip[s.clipsOf[x][k]].cell,
         visual |-> s.source[s.clip[s.clipsOf[x][k]].visual]]]

getState(s) ==
    [visuals |-> [n \in 1 .. Len(s.visuals) |-> s.source[s.visuals[n]]],
     scenes |-> [n \in 1 .. Len(s.scenes) |-> savedClips(s, s.scenes[n])]]

touchAll(s) == touchClips(s, UNION {ToSet(s.clipsOf[x]) : x \in ToSet(s.scenes)})

\* Only videos are made again.
loadVisual(s, file) == IF file = Camera THEN s ELSE addVisual(s, file)

\* Mutant: the visuals are made again from the last to the first.
setVisualsReversed(s, list) == loop(loadVisual, emptyVisuals(s), Reverse(list))

setVisuals(s, list) == loop(loadVisual, emptyVisuals(s), list)

(* The saved index of a clip is taken for the place of its visual in the   *)
(* list of visuals; a clip without one is left out.                        *)

loadClip(s, x, saved) ==
    IF saved.index >= Len(s.visuals) THEN s
    ELSE addClip(s, x, s.visuals[saved.index + 1], saved.cell)

loadScene(s, list) ==
    LET t == newScene(s)
    IN  IF t.full THEN t
        ELSE loop(LAMBDA u, saved : loadClip(u, Last(t.scenes), saved), t, list)

setScenes(s, list) == loop(loadScene, emptyScenes(s), list)

\* Mutant: the layers keep what they show.
emptyLayersKept(s) == s

emptyLayers(s) == [s EXCEPT !.active = [l \in Layer |-> NULL]]

(* Engine::setState: each part of the state by itself, and an empty list   *)
(* was saved as null and is no part at all.                                *)
setState(s, file, parts) ==
    LET a == IF "visuals" \in parts /\ file.visuals # <<>>
             THEN setVisuals(s, file.visuals) ELSE s
        b == IF "layers" \in parts THEN emptyLayers(a) ELSE a
    IN  IF "scenes" \in parts /\ file.scenes # <<>> THEN setScenes(b, file.scenes) ELSE b

closeSet(s) ==
    IF ~s.loaded THEN s
    ELSE [emptyScenes(emptyVisuals(emptyLayers(s)))
             EXCEPT !.loaded = FALSE, !.opened = FALSE]

-----------------------------------------------------------------------------
(* The calls of a host.  Visuals::empty increments an iterator it erased:  *)
(* a call that empties a list with visuals may go wrong there.             *)

(* What nothing refers to any more is forgotten. *)
tidy(s) ==
    [s EXCEPT !.freed = @ \cap inUse(s),
              !.source = [v \in VisualIds |-> IF v \in inUse(s) \ s.freed THEN @[v] ELSE Camera],
              !.clip = [k \in ClipIds |-> IF k \in clipsHeld(s) \ s.freed THEN @[k]
                                          ELSE [visual |-> NULL, cell |-> <<0, 0>>]]]

step(t) ==
    /\ ~t.full
    /\ st' = IF t.undefined THEN Undefined ELSE tidy(t)

call(t) == step(t) /\ UNCHANGED <<disk, broken>>

iteratorLost ==
    /\ st.visuals # <<>>
    /\ st' = Undefined
    /\ UNCHANGED <<disk, broken>>

AddVideo(file) == call(addVisual(st, file))

AddVisualVideoToListFromFile(file) ==
    ~isFileInList(st, file) /\ call(addVisual(st, file))

AddVisualCameraToList == call(addVisual(st, Camera))

AddScene == call(newScene(st))

AddVisualToScene(n, cell) ==
    /\ n <= Len(st.visuals)
    /\ LET t == touch(st, {st.current})
       IN  call(IF t.undefined THEN t ELSE addClip(t, st.current, st.visuals[n], cell))

\* The layer is stopped if the cell is the selected one.
RemoveVisualFromScene(cell, selected) ==
    LET t == IF selected /\ st.active[cell[1]] # NULL
             THEN [touchClips(st, {st.active[cell[1]]}) EXCEPT !.active[cell[1]] = NULL]
             ELSE st
        u == touch(t, {st.current})
    IN  call(IF u.undefined THEN u
             ELSE LET w == touch(u, ToSet(u.clipsOf[st.current]))
                  IN  IF w.undefined THEN w
                      ELSE [w EXCEPT !.clipsOf[st.current] = withoutCell(u, st.current, cell),
                                     !.opened = FALSE])

SetCurrentScene(n) == call(setCurrentScene(st, n))

GotoPreviousScene == st.number > 0 /\ call(setCurrentScene(st, st.number - 1))

\* size() - 1 of an empty list is large here, too.
GotoNextScene ==
    /\ st.scenes = <<>> \/ st.number < Len(st.scenes) - 1
    /\ call(setCurrentScene(st, st.number + 1))

(* removeCurrentScene deletes the clips, takes the scene from a copy of    *)
(* the list, and makes the one before it current.                          *)
RemoveCurrentScene ==
    LET t == touch(st, {st.current})
    IN  /\ step(IF t.undefined THEN t
                ELSE setCurrentScene([emptyClips(t, st.current) EXCEPT !.opened = FALSE],
                                     Max({0, st.number - 1})))
        /\ broken' = broken \cup {"emptied"}
        /\ UNCHANGED disk

EmptyVisualInstanceOnAllScenes ==
    /\ step([loop(emptyClips, st, st.scenes) EXCEPT !.opened = FALSE])
    /\ broken' = broken \cup {"emptied"}
    /\ UNCHANGED disk

(* Engine::play: the clip of the cell is the layer's; an empty cell stops  *)
(* the layer (stopCurrentVisualIfTriggeredInvalid is true, ever).          *)
Play(cell) ==
    LET t == touch(st, {st.current} \ {NULL})
        clips == ToSet(st.clipsOf[st.current])
        u == touch(t, clips)
        found == {k \in clips : st.clip[k].cell = cell}
    IN  /\ st.current # NULL
        /\ IF t.undefined \/ u.undefined THEN call([u EXCEPT !.undefined = TRUE])
           ELSE \E k \in IF found = {} THEN {NULL} ELSE found :
                   call([touchClips(u, {k, st.active[cell[1]]} \ {NULL})
                            EXCEPT !.active[cell[1]] = k])

\* Engine::render draws what the layers show.
Render == call(touchClips(st, {st.active[l] : l \in Layer} \ {NULL}))

\* FileManager's thread walks through the current scene.
Cleanup ==
    /\ st.current # NULL
    /\ LET t == touch(st, {st.current})
       IN  call(IF t.undefined THEN t ELSE touchClips(t, ToSet(st.clipsOf[st.current])))

(* A set that is not loaded is not closed, and its first scene is shown:   *)
(* if the file of one of its clips is missing, loadVideo throws.           *)
NewSet ==
    LET t == setCurrentScene(newScene(closeSet(st)), 0)
    IN  \/ call([t EXCEPT !.loaded = TRUE])
        \/ /\ ~t.undefined
           /\ \E k \in ToSet(t.clipsOf[t.current]) : t.source[t.clip[k].visual] # Camera
           /\ call(t)
        \/ st.loaded /\ iteratorLost

CloseSet ==
    \/ call(closeSet(st))
    \/ st.loaded /\ iteratorLost

\* A load that leaves clips whose visuals, or layers whose clips, are gone.
mixes(s, file, parts) ==
    LET some(part) == part \in parts /\ (IF part = "visuals" THEN file.visuals # <<>>
                                                             ELSE file.scenes # <<>>)
    IN  (IF some("visuals") /\ ~some("scenes") THEN {"visuals"} ELSE {})
           \cup (IF some("scenes") /\ "layers" \notin parts THEN {"layers"} ELSE {})

OpenSet ==
    LET s == emptyLayers(closeSet(st))
    IN  \/ /\ step([setState(s, disk, {"visuals", "layers", "scenes"})
                       EXCEPT !.opened = disk.visuals # <<>> /\ disk.scenes # <<>>])
           /\ broken' = broken \cup (IF s.scenes = <<>> THEN {}
                                     ELSE mixes(s, disk, {"visuals", "layers", "scenes"}))
           /\ UNCHANGED disk
        \/ iteratorLost

\* The file cannot be read, after the old set was closed.
OpenSetFails == call(emptyLayers(closeSet(st)))

\* A client of the server sends back parts of the set.
SetState(parts) ==
    \/ /\ step([setState(st, disk, parts) EXCEPT !.opened = FALSE])
       /\ broken' = broken \cup mixes(st, disk, parts)
       /\ UNCHANGED disk
    \/ "visuals" \in parts /\ iteratorLost

SaveSetAs ==
    /\ step(touchAll(st))
    /\ disk' = IF touchAll(st).undefined THEN disk ELSE getState(st)
    /\ UNCHANGED broken

\* The engine is deleted and a new one made; the singletons live on.
DeleteEngine ==
    \/ call([emptyLayers(emptyVisuals(emptyScenes(st))) EXCEPT !.opened = FALSE])
    \/ iteratorLost

Build ==
    \/ \E file \in host.files : AddVideo(file) \/ AddVisualVideoToListFromFile(file)
    \/ AddVisualCameraToList
    \/ \E cell \in Cell : \/ \E n \in 1 .. Len(st.visuals) : AddVisualToScene(n, cell)
                          \/ \E selected \in BOOLEAN : RemoveVisualFromScene(cell, selected)

Navigate ==
    \/ AddScene
    \/ \E n \in 0 .. Len(st.scenes) : SetCurrentScene(n)
    \/ GotoPreviousScene
    \/ GotoNextScene

Next ==
    /\ ~st.undefined
    /\ UNCHANGED host
    /\ \/ Build
       \/ NewSet
       \/ CloseSet
       \/ OpenSet
       \/ OpenSetFails
       \/ DeleteEngine
       \/ "scenes" \in host.calls /\ Navigate
       \/ "empty" \in host.calls /\ (RemoveCurrentScene \/ EmptyVisualInstanceOnAllScenes)
       \/ "parts" \in host.calls /\ \E parts \in SUBSET {"visuals", "layers", "scenes"} : SetState(parts)
       \/ "show" \in host.calls /\ (Render \/ Cleanup \/ \E cell \in Cell : Play(cell))
       \/ "save" \in host.calls /\ SaveSetAs

Spec == Init /\ [][Next]_vars

-----------------------------------------------------------------------------
(* The types of the engine and the file.                                   *)
TypeOK ==
    /\ st \in State
    /\ disk \in File
    /\ broken \subseteq {"emptied", "visuals", "layers"}
    /\ host \in Hosts

(* Whatever is created, loaded, closed or deleted in whatever order, the   *)
(* lists of visuals and of scenes hold live objects only, each once.       *)
ListsLive ==
    ~st.undefined => /\ (ToSet(st.visuals) \cup ToSet(st.scenes)) \cap st.freed = {}
                     /\ IsInjective(st.visuals) /\ IsInjective(st.scenes)

(* A scene's clips, and what they show, are live, unless a list was        *)
(* emptied in place or visuals were loaded without scenes: closing,        *)
(* opening and loading delete in an order that leaves nothing behind.      *)
ClipsLive ==
    ~st.undefined =>
        /\ "emptied" \notin broken => clipsIn(st) \cap st.freed = {}
        /\ broken \cap {"emptied", "visuals"} = {} =>
              \A k \in clipsIn(st) : st.clip[k].visual \in ToSet(st.visuals)

(* A layer never shows a deleted clip, unless scenes were loaded without   *)
(* layers or a list was emptied in place.                                  *)
LayersLive ==
    ~st.undefined /\ broken \cap {"emptied", "layers"} = {} =>
        \A l \in Layer : st.active[l] \notin st.freed

(* One clip per cell and scene, whichever way the clips came there, as     *)
(* getVisualInstanceInCorrentSet and removeVisualFromScene suppose.        *)
OneClipPerCell ==
    ~st.undefined => \A x \in ToSet(st.scenes) : \A j, k \in ToSet(st.clipsOf[x]) :
        {j, k} \cap st.freed = {} /\ st.clip[j].cell = st.clip[k].cell => j = k

(* The current scene's pointer and its number agree, as long as it lives:  *)
(* gotoPreviousScene and gotoNextScene step from the scene that is shown.  *)
CurrentSceneNumbered ==
    ~st.undefined /\ st.current \notin st.freed \cup {NULL} =>
        /\ st.number < Len(st.scenes)
        /\ st.scenes[st.number + 1] = st.current

(* Nothing the engine can reach has been deleted, with the exceptions the  *)
(* three parts name (class VisualInstances, Engine::setState).             *)
PointersLive == ListsLive /\ ClipsLive /\ LayersLive

(* What the scenes' functions suppose of each other.                       *)
ScenesConsistent == OneClipPerCell /\ CurrentSceneNumbered

(* Opening loses cameras and mixes up visuals, but only once: however often*)
(* a set that was opened is saved and opened again without a change, it    *)
(* stays as the first opening left it.                                     *)
ReloadSettles ==
    [][st.opened /\ st'.opened /\ disk' = disk /\ ~st'.undefined /\ ~touchAll(st').undefined
          => getState(st') = getState(st)]_vars

(* The test in CatchCpp/Engine.cpp "saves and open the saved file.         *)
(* compares the state of the engine and the one loaded from the file": a   *)
(* set of videos that was just saved is the same after it was opened.      *)
ReloadKeepsSet ==
    [][OpenSet /\ broken' = {} /\ ~st'.undefined
          /\ disk = getState(st) /\ Camera \notin ToSet(disk.visuals)
          => getState(st') = disk]_vars

(* VisualInstance.h:307 says of VisualInstances::empty that it "Removes    *)
(* all visual instances": no deleted clip is left in a scene.              *)
EmptyRemovesAll == ~st.undefined => clipsIn(st) \cap st.freed = {}

(* Visuals.h:75 says of addVideo "Only add if the file isn't yet on the    *)
(* list".                                                                  *)
OneVisualPerFile ==
    \A m, n \in 1 .. Len(st.visuals) :
        st.source[st.visuals[m]] = st.source[st.visuals[n]] /\ st.source[st.visuals[m]] # Camera
           => m = n
=============================================================================
