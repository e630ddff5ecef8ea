-------------------------- MODULE SetLifecycleProofs --------------------------
(***************************************************************************)
(* Sets of any size: any number of visuals, scenes, clips, layers and      *)
(* columns, any files and any hosts.                                       *)
(*                                                                         *)
(* Good(s, b) is what every function of the source keeps, where b says in  *)
(* which ways pointers may have been left behind.  It is stated for every  *)
(* b because a call passes through states that are worse than the ones it  *)
(* begins and ends with: closeSet deletes the visuals before the scenes    *)
(* whose clips show them.  For each function there is a lemma on its       *)
(* effect and one that it keeps Good, for each loop a count of its passes, *)
(* and for each call of a host one that it keeps the invariant.            *)
(***************************************************************************)
EXTENDS SetLifecycle, WellFoundedInduction, TLAPS

-----------------------------------------------------------------------------
(* What is kept, and what a counting argument needs.                       *)

\* The lists hold live objects, each once.
Lists(s) ==
    /\ IsInjective(s.visuals) /\ IsInjective(s.scenes)
    /\ (ToSet(s.visuals) \cup ToSet(s.scenes)) \cap s.freed = {}

\* A scene lists a clip once; a scene that is in no list has none.
Owned(s) ==
    \A x \in SceneIds : /\ IsInjective(s.clipsOf[x])
                        /\ x \notin ToSet(s.scenes) => s.clipsOf[x] = <<>>

\* What clips refer to, unless b names the way they were left behind.
Clips(s, b) ==
    /\ "emptied" \notin b => clipsIn(s) \cap s.freed = {}
    /\ b \cap {"emptied", "visuals"} = {} =>
          \A k \in clipsIn(s) : s.clip[k].visual \in ToSet(s.visuals)

\* What layers refer to, unless b names the way they were left behind.
Shown(s, b) ==
    b \cap {"emptied", "layers"} = {} => \A l \in Layer : s.active[l] \notin s.freed

\* Live clips of a scene are in cells of their own.
Cells(s) ==
    \A x \in SceneIds : \A j, k \in ToSet(s.clipsOf[x]) :
        {j, k} \cap s.freed = {} /\ s.clip[j].cell = s.clip[k].cell => j = k

\* A live current scene is the one that has the number.
Numbered(s) ==
    s.current \notin s.freed \cup {NULL} =>
        s.number < Len(s.scenes) /\ s.scenes[s.number + 1] = s.current

\* What every function keeps: b is the set of ways pointers were left behind.
Good(s, b) ==
    /\ s \in State
    /\ Lists(s) /\ Owned(s) /\ Cells(s) /\ Numbered(s)
    /\ Clips(s, b) /\ Shown(s, b)

\* A set of naturals has a least one.
LEMMA Least ==
    ASSUME NEW S \in SUBSET Nat, S # {}
    PROVE  \E n \in S : \A m \in S : n <= m
  <1>1. PICK x \in S : \A y \in S : ~(<<y, x>> \in OpToRel(<, Nat))
    BY NatLessThanWellFounded, WFMin
  <1>2. \A y \in S : ~(y < x)
    BY <1>1 DEF OpToRel
  <1>. QED BY <1>2

\* Min, by which a fresh object is taken, is in its set.
LEMMA MinIn ==
    ASSUME NEW S \in SUBSET Nat, S # {}
    PROVE  Min(S) \in S /\ \A m \in S : Min(S) <= m
  BY Least DEF Min

\* Induction over the runs of a loop, for a set of naturals.
LEMMA Counting ==
    ASSUME NEW P \in SUBSET Nat, 0 \in P, \A n \in P : n + 1 \in P
    PROVE  P = Nat
  <1>. SUFFICES ASSUME Nat \ P # {} PROVE FALSE
    OBVIOUS
  <1>1. PICK n \in Nat \ P : \A m \in Nat \ P : n <= m
    <2>. DEFINE Q == Nat \ P
    <2>1. Q \in SUBSET Nat /\ Q # {}
      OBVIOUS
    <2>. HIDE DEF Q
    <2>2. \E n \in Q : \A m \in Q : n <= m
      BY <2>1, Least
    <2>. QED BY <2>2 DEF Q
  <1>2. n - 1 \in Nat /\ n - 1 \notin Nat \ P
    BY <1>1
  <1>. QED BY <1>1, <1>2

\* Visuals, scenes and clips are different objects, and none is NULL.
LEMMA Kinds ==
    /\ NULL \notin VisualIds \cup SceneIds \cup ClipIds
    /\ VisualIds \cap SceneIds = {}
    /\ VisualIds \cap ClipIds = {}
    /\ SceneIds \cap ClipIds = {}
    /\ VisualIds \subseteq Nat /\ SceneIds \subseteq Nat /\ ClipIds \subseteq Nat
  BY IdsAssumption DEF NULL

\* The engine at the start has its types.
LEMMA StartTyped == Start \in State
  BY IdsAssumption DEF Start, State, Source

\* Nothing is left behind at the start.
LEMMA StartGood == ASSUME NEW b PROVE Good(Start, b)
  BY StartTyped, IdsAssumption DEF Start, Good, Lists, Owned, Cells, Numbered, Clips, Shown, clipsIn, ToSet, IsInjective

\* What stands for an undefined run is good whatever was left behind.
LEMMA UndefinedGood == ASSUME NEW b PROVE Good(Undefined, b)
  <1>1. Undefined \in State
    BY StartTyped DEF Undefined, State
  <1>. QED
    BY <1>1, StartTyped, StartGood DEF Undefined, Start, Good, Lists, Owned, Cells, Numbered, Clips, Shown, clipsIn, ToSet, IsInjective

\* The types of the engine, field by field.
LEMMA Fields ==
    ASSUME NEW s \in State
    PROVE  /\ s.visuals \in Seq(VisualIds) /\ s.source \in [VisualIds -> Source]
           /\ s.scenes \in Seq(SceneIds) /\ s.clipsOf \in [SceneIds -> Seq(ClipIds)]
           /\ s.clip \in [ClipIds -> [visual : VisualIds \cup {NULL}, cell : Nat \X Nat]]
           /\ s.current \in SceneIds \cup {NULL} /\ s.number \in Nat
           /\ s.active \in [Layer -> ClipIds \cup {NULL}]
           /\ s.freed \in SUBSET (VisualIds \cup SceneIds \cup ClipIds)
           /\ s.loaded \in BOOLEAN
           /\ s.undefined \in BOOLEAN /\ s.full \in BOOLEAN /\ s.opened \in BOOLEAN
  BY DEF State

\* Visuals::add: t is s with visual v, which shows file, at the end of the list.
VisualAdded(s, t, v, file) ==
    /\ t \in State
    /\ t.visuals = Append(s.visuals, v)
    /\ t.source = [s.source EXCEPT ![v] = file]
    /\ t.freed = s.freed \ {v}
    /\ t.scenes = s.scenes /\ t.clipsOf = s.clipsOf /\ t.clip = s.clip
    /\ t.current = s.current /\ t.number = s.number /\ t.active = s.active
    /\ t.full = s.full /\ t.undefined = s.undefined /\ ~t.opened

\* addVisual adds a fresh visual, unless the bound is hit.
LEMMA AddVisualEffect ==
    ASSUME NEW s \in State, NEW file \in Source
    PROVE  \/ addVisual(s, file) = hitsBound(s)
           \/ \E v \in VisualIds \ inUse(s) : VisualAdded(s, addVisual(s, file), v, file)
  <1>. DEFINE ids == VisualIds \ inUse(s)
              v == Min(ids)
  <1>1. CASE ids # {}
    <2>1. v \in ids
      <3>1. ids \in SUBSET Nat
        BY Kinds
      <3>. HIDE DEF ids
      <3>. QED BY <1>1, <3>1, MinIn
    <2>2. addVisual(s, file) = [s EXCEPT !.visuals = Append(s.visuals, v),
                                         !.source = [s.source EXCEPT ![v] = file],
                                         !.freed = s.freed \ {v}, !.opened = FALSE]
      BY <1>1 DEF addVisual
    <2>. HIDE DEF v
    <2>3. v \in VisualIds \ inUse(s)
      BY <2>1
    <2>. HIDE DEF ids
    <2>4. /\ Append(s.visuals, v) \in Seq(VisualIds)
          /\ [s.source EXCEPT ![v] = file] \in [VisualIds -> Source]
          /\ s.freed \ {v} \in SUBSET (VisualIds \cup SceneIds \cup ClipIds)
      BY <2>3, Fields
    <2>5. VisualAdded(s, addVisual(s, file), v, file)
      BY <2>2, <2>4, ZenonT(60) DEF State, VisualAdded
    <2>. QED BY <2>3, <2>5
  <1>. QED BY <1>1 DEF addVisual

-----------------------------------------------------------------------------
(* Accesses, and a visual more.                                            *)

\* s and t differ in their flags only.
Same(s, t) ==
    /\ t \in State
    /\ t.visuals = s.visuals /\ t.source = s.source
    /\ t.scenes = s.scenes /\ t.clipsOf = s.clipsOf /\ t.clip = s.clip
    /\ t.current = s.current /\ t.number = s.number
    /\ t.active = s.active /\ t.freed = s.freed

\* The flags are no part of what is good.
LEMMA SameGood ==
    ASSUME NEW s, NEW t, NEW b, Good(s, b), Same(s, t)
    PROVE  Good(t, b)
  BY DEF Good, Same, Lists, Owned, Cells, Numbered, Clips, Shown, clipsIn

\* Two changes of flags are one.
LEMMA SameTrans ==
    ASSUME NEW s, NEW t, NEW u, Same(s, t), Same(t, u)
    PROVE  Same(s, u)
  BY DEF Same

\* A bound that is hit changes nothing else.
LEMMA BoundSame ==
    ASSUME NEW s \in State
    PROVE  /\ Same(s, hitsBound(s))
           /\ hitsBound(s).full
           /\ hitsBound(s).undefined = s.undefined
  BY DEF Same, State, hitsBound

\* An access changes nothing, and if it is defined then what is accessed lives.
LEMMA TouchSame ==
    ASSUME NEW s \in State, NEW objects
    PROVE  /\ Same(s, touch(s, objects))
           /\ touch(s, objects).full = s.full
           /\ touch(s, objects).opened = s.opened
           /\ touch(s, objects).loaded = s.loaded
           /\ ~touch(s, objects).undefined => ~s.undefined /\ objects \cap (s.freed \cup {NULL}) = {}
  <1>. DEFINE v == s.undefined \/ objects \cap (s.freed \cup {NULL}) # {}
  <1>1. touch(s, objects) = [s EXCEPT !.undefined = v]
    BY DEF touch
  <1>2. v \in BOOLEAN
    BY Fields
  <1>. HIDE DEF v
  <1>3. touch(s, objects).undefined = v
    BY <1>1, <1>2 DEF State
  <1>5. Same(s, touch(s, objects))
    BY <1>1, <1>2 DEF Same, State
  <1>4. /\ touch(s, objects).full = s.full
        /\ touch(s, objects).opened = s.opened
        /\ touch(s, objects).loaded = s.loaded
    BY <1>1, <1>2 DEF State
  <1>. QED BY <1>3, <1>4, <1>5 DEF v

\* An access to clips and their visuals likewise.
LEMMA TouchClipsSame ==
    ASSUME NEW s \in State, NEW clips
    PROVE  /\ Same(s, touchClips(s, clips))
           /\ touchClips(s, clips).full = s.full
           /\ touchClips(s, clips).opened = s.opened
           /\ touchClips(s, clips).loaded = s.loaded
           /\ ~touchClips(s, clips).undefined =>
                 /\ ~s.undefined
                 /\ clips \cap (s.freed \cup {NULL}) = {}
                 /\ \A k \in clips : s.clip[k].visual \notin s.freed \cup {NULL}
  <1>1. CASE clips \cap (s.freed \cup {NULL}) # {}
    <2>1. touchClips(s, clips) = [s EXCEPT !.undefined = TRUE]
      BY <1>1 DEF touchClips
    <2>2. /\ touchClips(s, clips).full = s.full
          /\ touchClips(s, clips).opened = s.opened
          /\ touchClips(s, clips).loaded = s.loaded
          /\ touchClips(s, clips).undefined
      BY <2>1 DEF State
    <2>3. Same(s, touchClips(s, clips))
      BY <2>1 DEF Same, State
    <2>. QED BY <2>2, <2>3
  <1>2. CASE clips \cap (s.freed \cup {NULL}) = {}
    <2>1. touchClips(s, clips) = touch(s, {s.clip[k].visual : k \in clips})
      BY <1>2 DEF touchClips
    <2>. QED BY <1>2, <2>1, TouchSame
  <1>. QED BY <1>1, <1>2

\* What an append adds.
LEMMA AppendFresh ==
    ASSUME NEW S, NEW q \in Seq(S), NEW e \in S
    PROVE  /\ ToSet(Append(q, e)) = ToSet(q) \cup {e}
           /\ IsInjective(q) /\ e \notin ToSet(q) => IsInjective(Append(q, e))
           /\ Append(q, e) \in Seq(S)
           /\ Len(Append(q, e)) = Len(q) + 1
           /\ \A n \in 1 .. Len(q) : Append(q, e)[n] = q[n]
           /\ Append(q, e)[Len(q) + 1] = e
  BY DEF ToSet, IsInjective

\* The elements of a list.
LEMMA ToSetIn ==
    ASSUME NEW S, NEW q \in Seq(S)
    PROVE  ToSet(q) \subseteq S /\ \A n \in 1 .. Len(q) : q[n] \in ToSet(q)
  BY DEF ToSet

\* The clips of all scenes are clips.
LEMMA ClipsTyped ==
    ASSUME NEW s \in State
    PROVE  clipsIn(s) \subseteq ClipIds
  BY Fields, ToSetIn DEF clipsIn

\* A fresh visual is nowhere referred to, and disturbs nothing.
LEMMA VisualAddedGood ==
    ASSUME NEW s, NEW t, NEW b, Good(s, b), NEW v \in VisualIds \ inUse(s), NEW file,
           VisualAdded(s, t, v, file)
    PROVE  Good(t, b)
  <1>0. s \in State /\ t \in State
    BY DEF Good, VisualAdded
  <1>1. v \notin ToSet(s.visuals)
    BY DEF inUse
  <1>2. /\ ToSet(t.visuals) = ToSet(s.visuals) \cup {v}
        /\ IsInjective(s.visuals) => IsInjective(t.visuals)
    BY <1>0, <1>1, AppendFresh, Fields DEF VisualAdded
  <1>3. v \notin SceneIds \cup ClipIds \cup {NULL} /\ ToSet(s.scenes) \subseteq SceneIds
    BY <1>0, Kinds, Fields, ToSetIn
  <1>4. clipsIn(t) = clipsIn(s) /\ clipsIn(s) \subseteq ClipIds
    BY <1>0, ClipsTyped DEF clipsIn, VisualAdded
  <1>5. Lists(t)
    BY <1>2, <1>3 DEF Good, Lists, VisualAdded
  <1>6. Owned(t)
    BY DEF Good, Owned, VisualAdded
  <1>7. Cells(t)
    <2>1. \A x \in SceneIds : ToSet(s.clipsOf[x]) \subseteq ClipIds
      BY <1>0, Fields, ToSetIn
    <2>. QED BY <2>1, <1>3 DEF Good, Cells, VisualAdded
  <1>8. Numbered(t)
    BY <1>0, <1>3, Fields DEF Good, Numbered, VisualAdded
  <1>9. Clips(t, b)
    BY <1>2, <1>4 DEF Good, Clips, VisualAdded
  <1>10. Shown(t, b)
    BY DEF Good, Shown, VisualAdded
  <1>. QED BY <1>0, <1>5, <1>6, <1>7, <1>8, <1>9, <1>10 DEF Good

\* Visuals::add keeps what is good.
LEMMA AddVisualGood ==
    ASSUME NEW s, NEW b, Good(s, b), NEW file \in Source
    PROVE  Good(addVisual(s, file), b)
  <1>0. s \in State
    BY DEF Good
  <1>. QED BY <1>0, BoundSame, SameGood, AddVisualEffect, VisualAddedGood

-----------------------------------------------------------------------------
(* A scene more, and lists that are emptied.                               *)

\* Scenes::newScene: t is s with scene x, which is empty, at the end of the list.
SceneAdded(s, t, x) ==
    /\ t \in State
    /\ t.scenes = Append(s.scenes, x)
    /\ t.clipsOf = [s.clipsOf EXCEPT ![x] = <<>>]
    /\ t.freed = s.freed \ {x}
    /\ t.visuals = s.visuals /\ t.source = s.source /\ t.clip = s.clip
    /\ t.current = s.current /\ t.number = s.number /\ t.active = s.active
    /\ t.full = s.full /\ t.undefined = s.undefined /\ ~t.opened

\* newScene adds a fresh scene, unless the bound is hit.
LEMMA NewSceneEffect ==
    ASSUME NEW s \in State
    PROVE  \/ newScene(s) = hitsBound(s)
           \/ \E x \in SceneIds \ inUse(s) : SceneAdded(s, newScene(s), x)
  <1>. DEFINE ids == SceneIds \ inUse(s)
  <1>. DEFINE x == Min(ids)
  <1>1. CASE ids # {}
    <2>1. x \in ids
      <3>1. ids \in SUBSET Nat
        BY Kinds
      <3>. HIDE DEF ids
      <3>. QED BY <1>1, <3>1, MinIn
    <2>2. newScene(s) = [s EXCEPT !.scenes = Append(s.scenes, x), !.clipsOf = [s.clipsOf EXCEPT ![x] = <<>>], !.freed = s.freed \ {x}, !.opened = FALSE]
      BY <1>1 DEF newScene
    <2>. HIDE DEF x
    <2>3. x \in SceneIds \ inUse(s)
      BY <2>1
    <2>. HIDE DEF ids
    <2>4. Append(s.scenes, x) \in Seq(SceneIds)
      BY Fields, <2>3
    <2>5. [s.clipsOf EXCEPT ![x] = <<>>] \in [SceneIds -> Seq(ClipIds)]
      <3>1. <<>> \in Seq(ClipIds) /\ s.clipsOf \in [SceneIds -> Seq(ClipIds)]
        BY Fields
      <3>. QED BY <3>1
    <2>6. s.freed \ {x} \in SUBSET (VisualIds \cup SceneIds \cup ClipIds)
      BY Fields
    <2>7. SceneAdded(s, newScene(s), x)
      BY <2>2, <2>4, <2>5, <2>6, ZenonT(60) DEF State, SceneAdded
    <2>. QED BY <2>3, <2>7
  <1>. QED BY <1>1 DEF newScene

\* A fresh scene is not the current one, and the numbers of the others stay.
LEMMA SceneAddedGood ==
    ASSUME NEW s, NEW t, NEW b, Good(s, b), NEW x \in SceneIds \ inUse(s), SceneAdded(s, t, x)
    PROVE  Good(t, b) /\ x \in ToSet(t.scenes)
  <1>0. s \in State /\ t \in State
    BY DEF Good, SceneAdded
  <1>1. x \notin ToSet(s.scenes) /\ x # s.current
    BY DEF inUse
  <1>2. /\ ToSet(t.scenes) = ToSet(s.scenes) \cup {x}
        /\ IsInjective(s.scenes) => IsInjective(t.scenes)
        /\ Len(t.scenes) = Len(s.scenes) + 1
        /\ \A n \in 1 .. Len(s.scenes) : t.scenes[n] = s.scenes[n]
    <2>1. s.scenes \in Seq(SceneIds) /\ t.scenes = Append(s.scenes, x)
      BY <1>0, Fields DEF SceneAdded
    <2>. QED BY <1>1, <2>1, AppendFresh
  <1>3. x \notin VisualIds \cup ClipIds \cup {NULL} /\ ToSet(s.visuals) \subseteq VisualIds
    BY <1>0, Kinds, Fields, ToSetIn
  <1>4. t.clipsOf = s.clipsOf
    <2>1. s.clipsOf \in [SceneIds -> Seq(ClipIds)] /\ s.clipsOf[x] = <<>>
      BY <1>0, <1>1, Fields DEF Good, Owned
    <2>. QED BY <2>1 DEF SceneAdded
  <1>5. clipsIn(t) = clipsIn(s) /\ clipsIn(s) \subseteq ClipIds
    BY <1>0, <1>4, ClipsTyped DEF clipsIn
  <1>6. Lists(t)
    BY <1>2, <1>3 DEF Good, Lists, SceneAdded
  <1>7. Owned(t)
    BY <1>2, <1>4 DEF Good, Owned
  <1>8. Cells(t)
    <2>1. \A y \in SceneIds : ToSet(s.clipsOf[y]) \subseteq ClipIds
      BY <1>0, Fields, ToSetIn
    <2>. QED BY <2>1, <1>3, <1>4 DEF Good, Cells, SceneAdded
  <1>9. Numbered(t)
    <2>1. Len(s.scenes) \in Nat /\ s.number \in Nat
      BY <1>0, Fields
    <2>. QED BY <2>1, <1>0, <1>1, <1>2 DEF Good, Numbered, SceneAdded
  <1>10. Clips(t, b)
    BY <1>5 DEF Good, Clips, SceneAdded
  <1>11. Shown(t, b)
    BY DEF Good, Shown, SceneAdded
  <1>. QED BY <1>0, <1>2, <1>6, <1>7, <1>8, <1>9, <1>10, <1>11 DEF Good

\* Scenes::newScene keeps what is good.
LEMMA NewSceneGood ==
    ASSUME NEW s, NEW b, Good(s, b)
    PROVE  Good(newScene(s), b)
  <1>0. s \in State
    BY DEF Good
  <1>. QED BY <1>0, BoundSame, SameGood, NewSceneEffect, SceneAddedGood

\* Visuals::empty.
VisualsEmptied(s, t) ==
    /\ t \in State
    /\ t.visuals = <<>> /\ t.freed = s.freed \cup ToSet(s.visuals)
    /\ t.source = s.source /\ t.scenes = s.scenes /\ t.clipsOf = s.clipsOf /\ t.clip = s.clip
    /\ t.current = s.current /\ t.number = s.number /\ t.active = s.active
    /\ t.loaded = s.loaded /\ t.full = s.full /\ t.undefined = s.undefined

\* emptyVisuals deletes the visuals and clears their list.
LEMMA EmptyVisualsEffect ==
    ASSUME NEW s \in State
    PROVE  VisualsEmptied(s, emptyVisuals(s))
  <1>1. s.freed \cup ToSet(s.visuals) \in SUBSET (VisualIds \cup SceneIds \cup ClipIds)
    BY Fields, ToSetIn
  <1>2. emptyVisuals(s) = [s EXCEPT !.freed = s.freed \cup ToSet(s.visuals), !.visuals = <<>>]
    BY DEF emptyVisuals, free, State
  <1>3. <<>> \in Seq(VisualIds)
    OBVIOUS
  <1>. QED BY <1>1, <1>2, <1>3 DEF VisualsEmptied, State

\* Visuals::empty keeps what is good if there are no clips, or if its harm is named.
LEMMA EmptyVisualsGood ==
    ASSUME NEW s, NEW b, Good(s, b), "visuals" \in b \/ clipsIn(s) = {}
    PROVE  Good(emptyVisuals(s), b)
  <1>. DEFINE t == emptyVisuals(s)
  <1>0. s \in State /\ VisualsEmptied(s, t) /\ t \in State
    BY EmptyVisualsEffect DEF Good, VisualsEmptied
  <1>. HIDE DEF t
  <1>1. /\ ToSet(s.visuals) \cap (SceneIds \cup ClipIds \cup {NULL}) = {}
        /\ ToSet(s.scenes) \subseteq SceneIds
        /\ clipsIn(s) \subseteq ClipIds
        /\ \A y \in SceneIds : ToSet(s.clipsOf[y]) \subseteq ClipIds
    <2>1. ToSet(s.visuals) \subseteq VisualIds /\ ToSet(s.scenes) \subseteq SceneIds
      BY <1>0, Fields, ToSetIn
    <2>2. \A y \in SceneIds : ToSet(s.clipsOf[y]) \subseteq ClipIds
      BY <1>0, Fields, ToSetIn
    <2>. QED BY <2>1, <2>2, <1>0, Kinds, ClipsTyped
  <1>2. Lists(t)
    BY <1>0, <1>1 DEF Good, Lists, VisualsEmptied, ToSet, IsInjective
  <1>3. Owned(t)
    BY <1>0 DEF Good, Owned, VisualsEmptied
  <1>4. Cells(t)
    BY <1>0, <1>1 DEF Good, Cells, VisualsEmptied
  <1>5. Numbered(t)
    BY <1>0, <1>1, Fields DEF Good, Numbered, VisualsEmptied
  <1>6. Clips(t, b)
    <2>1. clipsIn(t) = clipsIn(s)
      BY <1>0 DEF clipsIn, VisualsEmptied
    <2>. QED BY <2>1, <1>0, <1>1 DEF Good, Clips, VisualsEmptied
  <1>7. Shown(t, b)
    BY <1>0, <1>1, Fields, Kinds DEF Good, Shown, VisualsEmptied
  <1>. QED BY <1>0, <1>2, <1>3, <1>4, <1>5, <1>6, <1>7 DEF Good, t

\* What is good is so when more ways of harm are allowed.
LEMMA Weaken ==
    ASSUME NEW s, NEW b, NEW c, Good(s, b), b \subseteq c
    PROVE  Good(s, c)
  BY DEF Good, Clips, Shown

\* Layers::empty.
LayersEmptied(s, t) ==
    /\ t \in State
    /\ t.active = [l \in Layer |-> NULL]
    /\ t.visuals = s.visuals /\ t.source = s.source
    /\ t.scenes = s.scenes /\ t.clipsOf = s.clipsOf /\ t.clip = s.clip
    /\ t.current = s.current /\ t.number = s.number /\ t.freed = s.freed
    /\ t.loaded = s.loaded /\ t.full = s.full /\ t.undefined = s.undefined
    /\ t.opened = s.opened

\* emptyLayers changes what the layers show and nothing else.
LEMMA EmptyLayersEffect ==
    ASSUME NEW s \in State
    PROVE  LayersEmptied(s, emptyLayers(s))
  BY DEF emptyLayers, State, LayersEmptied

\* After Layers::empty no layer shows a deleted clip, whatever it showed before.
LEMMA EmptyLayersGood ==
    ASSUME NEW s, NEW b, NEW c, Good(s, c), c \subseteq b \cup {"layers"}
    PROVE  Good(emptyLayers(s), b)
  <1>. DEFINE t == emptyLayers(s)
  <1>0. s \in State /\ LayersEmptied(s, t) /\ t \in State
    BY EmptyLayersEffect DEF Good, LayersEmptied
  <1>. HIDE DEF t
  <1>1. NULL \notin s.freed
    BY <1>0, Fields, Kinds
  <1>2. Shown(t, b)
    BY <1>0, <1>1 DEF Shown, LayersEmptied
  <1>3. Clips(t, b)
    <2>1. clipsIn(t) = clipsIn(s)
      BY <1>0 DEF clipsIn, LayersEmptied
    <2>2. "emptied" \notin b => "emptied" \notin c
      OBVIOUS
    <2>3. b \cap {"emptied", "visuals"} = {} => c \cap {"emptied", "visuals"} = {}
      OBVIOUS
    <2>. QED BY <2>1, <2>2, <2>3, <1>0 DEF Good, Clips, LayersEmptied
  <1>4. Lists(t) /\ Owned(t) /\ Cells(t) /\ Numbered(t)
    BY <1>0 DEF Good, Lists, Owned, Cells, Numbered, LayersEmptied
  <1>. QED BY <1>0, <1>2, <1>3, <1>4 DEF Good, t

-----------------------------------------------------------------------------
(* The loops of the source.  A loop is the recursive function of loop; each*)
(* of its uses gets a name of its own, a predicate for the states it goes  *)
(* through, and the lemma that there are such states.  The lemmas have one *)
(* proof: the provers cannot take the body of the loop as a parameter.     *)

deleteScenes(s, list) == loop(deleteScene, s, list)
emptyClipsOf(s, list) == loop(emptyClips, s, list)
loadVisuals(s, list) == loop(loadVisual, s, list)
loadClips(s, x, list) == loop(LAMBDA u, saved : loadClip(u, x, saved), s, list)
loadScenes(s, list) == loop(loadScene, s, list)

\* f holds the states Scenes::empty goes through.
DeleteScenesRun(f, s, list, N) ==
    f[0] = s /\ \A n \in 1 .. N : f[n] = deleteScene(f[n - 1], list[n])

\* The loop of deleteScenes runs.
LEMMA DeleteScenesRuns ==
    ASSUME NEW s, NEW list, NEW N \in Nat, Len(list) = N
    PROVE  \E f : /\ deleteScenes(s, list) = f[N]
                  /\ DeleteScenesRun(f, s, list, N)
  <1>. DEFINE body(g) == [n \in 0 .. N |-> IF n = 0 THEN s ELSE deleteScene(g[n - 1], list[n])]
              run == CHOOSE g : g = body(g)
              P == {k \in Nat : \E g : DeleteScenesRun(g, s, list, k)}
  <1>1. deleteScenes(s, list) = run[N]
    BY DEF loop, deleteScenes
  <1>2. 0 \in P
    <2>1. DeleteScenesRun([n \in {0} |-> s], s, list, 0)
      BY DEF DeleteScenesRun
    <2>. QED BY <2>1
  <1>3. ASSUME NEW k \in P PROVE k + 1 \in P
    <2>1. PICK g : DeleteScenesRun(g, s, list, k)
      OBVIOUS
    <2>. DEFINE h == [n \in 0 .. k + 1 |-> IF n = k + 1 THEN deleteScene(g[k], list[k + 1]) ELSE g[n]]
    <2>2. k \in Nat /\ k + 1 \in Nat /\ (\A n \in 1 .. k + 1 : n = k + 1 \/ n \in 1 .. k)
      OBVIOUS
    <2>3. h[k + 1] = deleteScene(g[k], list[k + 1]) /\ \A n \in 0 .. k : h[n] = g[n]
      BY <2>2
    <2>4. g[0] = s /\ \A n \in 1 .. k : g[n] = deleteScene(g[n - 1], list[n])
      BY <2>1 DEF DeleteScenesRun
    <2>. HIDE DEF h
    <2>5. h[0] = s
      BY <2>2, <2>3, <2>4
    <2>6. \A n \in 1 .. k : h[n] = deleteScene(h[n - 1], list[n])
      BY <2>2, <2>3, <2>4
    <2>7. h[k + 1] = deleteScene(h[k], list[k + 1])
      BY <2>2, <2>3
    <2>8. DeleteScenesRun(h, s, list, k + 1)
      BY <2>2, <2>5, <2>6, <2>7 DEF DeleteScenesRun
    <2>. QED BY <2>2, <2>8
  <1>4. N \in P
    <2>. HIDE DEF P
    <2>1. P \in SUBSET Nat
      BY DEF P
    <2>. QED BY <1>2, <1>3, <2>1, Counting
  <1>5. run = body(run)
    <2>1. PICK g : DeleteScenesRun(g, s, list, N)
      BY <1>4
    <2>2. [n \in 0 .. N |-> g[n]] = body([n \in 0 .. N |-> g[n]])
      BY <2>1 DEF DeleteScenesRun
    <2>. QED BY <2>2
  <1>. HIDE DEF run
  <1>6. DeleteScenesRun(run, s, list, N)
    BY <1>5 DEF DeleteScenesRun
  <1>. QED BY <1>1, <1>6

\* f holds the states Set::emptyVisualInstanceOnAllScenes goes through.
EmptyClipsRun(f, s, list, N) ==
    f[0] = s /\ \A n \in 1 .. N : f[n] = emptyClips(f[n - 1], list[n])

\* The loop of emptyClipsOf runs.
LEMMA EmptyClipsRuns ==
    ASSUME NEW s, NEW list, NEW N \in Nat, Len(list) = N
    PROVE  \E f : /\ emptyClipsOf(s, list) = f[N]
                  /\ EmptyClipsRun(f, s, list, N)
  <1>. DEFINE body(g) == [n \in 0 .. N |-> IF n = 0 THEN s ELSE emptyClips(g[n - 1], list[n])]
              run == CHOOSE g : g = body(g)
              P == {k \in Nat : \E g : EmptyClipsRun(g, s, list, k)}
  <1>1. emptyClipsOf(s, list) = run[N]
    BY DEF loop, emptyClipsOf
  <1>2. 0 \in P
    <2>1. EmptyClipsRun([n \in {0} |-> s], s, list, 0)
      BY DEF EmptyClipsRun
    <2>. QED BY <2>1
  <1>3. ASSUME NEW k \in P PROVE k + 1 \in P
    <2>1. PICK g : EmptyClipsRun(g, s, list, k)
      OBVIOUS
    <2>. DEFINE h == [n \in 0 .. k + 1 |-> IF n = k + 1 THEN emptyClips(g[k], list[k + 1]) ELSE g[n]]
    <2>2. k \in Nat /\ k + 1 \in Nat /\ (\A n \in 1 .. k + 1 : n = k + 1 \/ n \in 1 .. k)
      OBVIOUS
    <2>3. h[k + 1] = emptyClips(g[k], list[k + 1]) /\ \A n \in 0 .. k : h[n] = g[n]
      BY <2>2
    <2>4. g[0] = s /\ \A n \in 1 .. k : g[n] = emptyClips(g[n - 1], list[n])
      BY <2>1 DEF EmptyClipsRun
    <2>. HIDE DEF h
    <2>5. h[0] = s
      BY <2>2, <2>3, <2>4
    <2>6. \A n \in 1 .. k : h[n] = emptyClips(h[n - 1], list[n])
      BY <2>2, <2>3, <2>4
    <2>7. h[k + 1] = emptyClips(h[k], list[k + 1])
      BY <2>2, <2>3
    <2>8. EmptyClipsRun(h, s, list, k + 1)
      BY <2>2, <2>5, <2>6, <2>7 DEF EmptyClipsRun
    <2>. QED BY <2>2, <2>8
  <1>4. N \in P
    <2>. HIDE DEF P
    <2>1. P \in SUBSET Nat
      BY DEF P
    <2>. QED BY <1>2, <1>3, <2>1, Counting
  <1>5. run = body(run)
    <2>1. PICK g : EmptyClipsRun(g, s, list, N)
      BY <1>4
    <2>2. [n \in 0 .. N |-> g[n]] = body([n \in 0 .. N |-> g[n]])
      BY <2>1 DEF EmptyClipsRun
    <2>. QED BY <2>2
  <1>. HIDE DEF run
  <1>6. EmptyClipsRun(run, s, list, N)
    BY <1>5 DEF EmptyClipsRun
  <1>. QED BY <1>1, <1>6

\* f holds the states Visuals::setState goes through.
LoadVisualsRun(f, s, list, N) ==
    f[0] = s /\ \A n \in 1 .. N : f[n] = loadVisual(f[n - 1], list[n])

\* The loop of loadVisuals runs.
LEMMA LoadVisualsRuns ==
    ASSUME NEW s, NEW list, NEW N \in Nat, Len(list) = N
    PROVE  \E f : /\ loadVisuals(s, list) = f[N]
                  /\ LoadVisualsRun(f, s, list, N)
  <1>. DEFINE body(g) == [n \in 0 .. N |-> IF n = 0 THEN s ELSE loadVisual(g[n - 1], list[n])]
              run == CHOOSE g : g = body(g)
              P == {k \in Nat : \E g : LoadVisualsRun(g, s, list, k)}
  <1>1. loadVisuals(s, list) = run[N]
    BY DEF loop, loadVisuals
  <1>2. 0 \in P
    <2>1. LoadVisualsRun([n \in {0} |-> s], s, list, 0)
      BY DEF LoadVisualsRun
    <2>. QED BY <2>1
  <1>3. ASSUME NEW k \in P PROVE k + 1 \in P
    <2>1. PICK g : LoadVisualsRun(g, s, list, k)
      OBVIOUS
    <2>. DEFINE h == [n \in 0 .. k + 1 |-> IF n = k + 1 THEN loadVisual(g[k], list[k + 1]) ELSE g[n]]
    <2>2. k \in Nat /\ k + 1 \in Nat /\ (\A n \in 1 .. k + 1 : n = k + 1 \/ n \in 1 .. k)
      OBVIOUS
    <2>3. h[k + 1] = loadVisual(g[k], list[k + 1]) /\ \A n \in 0 .. k : h[n] = g[n]
      BY <2>2
    <2>4. g[0] = s /\ \A n \in 1 .. k : g[n] = loadVisual(g[n - 1], list[n])
      BY <2>1 DEF LoadVisualsRun
    <2>. HIDE DEF h
    <2>5. h[0] = s
      BY <2>2, <2>3, <2>4
    <2>6. \A n \in 1 .. k : h[n] = loadVisual(h[n - 1], list[n])
      BY <2>2, <2>3, <2>4
    <2>7. h[k + 1] = loadVisual(h[k], list[k + 1])
      BY <2>2, <2>3
    <2>8. LoadVisualsRun(h, s, list, k + 1)
      BY <2>2, <2>5, <2>6, <2>7 DEF LoadVisualsRun
    <2>. QED BY <2>2, <2>8
  <1>4. N \in P
    <2>. HIDE DEF P
    <2>1. P \in SUBSET Nat
      BY DEF P
    <2>. QED BY <1>2, <1>3, <2>1, Counting
  <1>5. run = body(run)
    <2>1. PICK g : LoadVisualsRun(g, s, list, N)
      BY <1>4
    <2>2. [n \in 0 .. N |-> g[n]] = body([n \in 0 .. N |-> g[n]])
      BY <2>1 DEF LoadVisualsRun
    <2>. QED BY <2>2
  <1>. HIDE DEF run
  <1>6. LoadVisualsRun(run, s, list, N)
    BY <1>5 DEF LoadVisualsRun
  <1>. QED BY <1>1, <1>6

\* f holds the states Scene::setState goes through.
LoadClipsRun(f, s, x, list, N) ==
    f[0] = s /\ \A n \in 1 .. N : f[n] = loadClip(f[n - 1], x, list[n])

\* The loop of loadClips runs.
LEMMA LoadClipsRuns ==
    ASSUME NEW s, NEW x, NEW list, NEW N \in Nat, Len(list) = N
    PROVE  \E f : /\ loadClips(s, x, list) = f[N]
                  /\ LoadClipsRun(f, s, x, list, N)
  <1>. DEFINE body(g) == [n \in 0 .. N |-> IF n = 0 THEN s ELSE loadClip(g[n - 1], x, list[n])]
              run == CHOOSE g : g = body(g)
              P == {k \in Nat : \E g : LoadClipsRun(g, s, x, list, k)}
  <1>1. loadClips(s, x, list) = run[N]
    BY DEF loop, loadClips
  <1>2. 0 \in P
    <2>1. LoadClipsRun([n \in {0} |-> s], s, x, list, 0)
      BY DEF LoadClipsRun
    <2>. QED BY <2>1
  <1>3. ASSUME NEW k \in P PROVE k + 1 \in P
    <2>1. PICK g : LoadClipsRun(g, s, x, list, k)
      OBVIOUS
    <2>. DEFINE h == [n \in 0 .. k + 1 |-> IF n = k + 1 THEN loadClip(g[k], x, list[k + 1]) ELSE g[n]]
    <2>2. k \in Nat /\ k + 1 \in Nat /\ (\A n \in 1 .. k + 1 : n = k + 1 \/ n \in 1 .. k)
      OBVIOUS
    <2>3. h[k + 1] = loadClip(g[k], x, list[k + 1]) /\ \A n \in 0 .. k : h[n] = g[n]
      BY <2>2
    <2>4. g[0] = s /\ \A n \in 1 .. k : g[n] = loadClip(g[n - 1], x, list[n])
      BY <2>1 DEF LoadClipsRun
    <2>. HIDE DEF h
    <2>5. h[0] = s
      BY <2>2, <2>3, <2>4
    <2>6. \A n \in 1 .. k : h[n] = loadClip(h[n - 1], x, list[n])
      BY <2>2, <2>3, <2>4
    <2>7. h[k + 1] = loadClip(h[k], x, list[k + 1])
      BY <2>2, <2>3
    <2>8. LoadClipsRun(h, s, x, list, k + 1)
      BY <2>2, <2>5, <2>6, <2>7 DEF LoadClipsRun
    <2>. QED BY <2>2, <2>8
  <1>4. N \in P
    <2>. HIDE DEF P
    <2>1. P \in SUBSET Nat
      BY DEF P
    <2>. QED BY <1>2, <1>3, <2>1, Counting
  <1>5. run = body(run)
    <2>1. PICK g : LoadClipsRun(g, s, x, list, N)
      BY <1>4
    <2>2. [n \in 0 .. N |-> g[n]] = body([n \in 0 .. N |-> g[n]])
      BY <2>1 DEF LoadClipsRun
    <2>. QED BY <2>2
  <1>. HIDE DEF run
  <1>6. LoadClipsRun(run, s, x, list, N)
    BY <1>5 DEF LoadClipsRun
  <1>. QED BY <1>1, <1>6

\* f holds the states Scenes::setState goes through.
LoadScenesRun(f, s, list, N) ==
    f[0] = s /\ \A n \in 1 .. N : f[n] = loadScene(f[n - 1], list[n])

\* The loop of loadScenes runs.
LEMMA LoadScenesRuns ==
    ASSUME NEW s, NEW list, NEW N \in Nat, Len(list) = N
    PROVE  \E f : /\ loadScenes(s, list) = f[N]
                  /\ LoadScenesRun(f, s, list, N)
  <1>. DEFINE body(g) == [n \in 0 .. N |-> IF n = 0 THEN s ELSE loadScene(g[n - 1], list[n])]
              run == CHOOSE g : g = body(g)
              P == {k \in Nat : \E g : LoadScenesRun(g, s, list, k)}
  <1>1. loadScenes(s, list) = run[N]
    BY DEF loop, loadScenes
  <1>2. 0 \in P
    <2>1. LoadScenesRun([n \in {0} |-> s], s, list, 0)
      BY DEF LoadScenesRun
    <2>. QED BY <2>1
  <1>3. ASSUME NEW k \in P PROVE k + 1 \in P
    <2>1. PICK g : LoadScenesRun(g, s, list, k)
      OBVIOUS
    <2>. DEFINE h == [n \in 0 .. k + 1 |-> IF n = k + 1 THEN loadScene(g[k], list[k + 1]) ELSE g[n]]
    <2>2. k \in Nat /\ k + 1 \in Nat /\ (\A n \in 1 .. k + 1 : n = k + 1 \/ n \in 1 .. k)
      OBVIOUS
    <2>3. h[k + 1] = loadScene(g[k], list[k + 1]) /\ \A n \in 0 .. k : h[n] = g[n]
      BY <2>2
    <2>4. g[0] = s /\ \A n \in 1 .. k : g[n] = loadScene(g[n - 1], list[n])
      BY <2>1 DEF LoadScenesRun
    <2>. HIDE DEF h
    <2>5. h[0] = s
      BY <2>2, <2>3, <2>4
    <2>6. \A n \in 1 .. k : h[n] = loadScene(h[n - 1], list[n])
      BY <2>2, <2>3, <2>4
    <2>7. h[k + 1] = loadScene(h[k], list[k + 1])
      BY <2>2, <2>3
    <2>8. LoadScenesRun(h, s, list, k + 1)
      BY <2>2, <2>5, <2>6, <2>7 DEF LoadScenesRun
    <2>. QED BY <2>2, <2>8
  <1>4. N \in P
    <2>. HIDE DEF P
    <2>1. P \in SUBSET Nat
      BY DEF P
    <2>. QED BY <1>2, <1>3, <2>1, Counting
  <1>5. run = body(run)
    <2>1. PICK g : LoadScenesRun(g, s, list, N)
      BY <1>4
    <2>2. [n \in 0 .. N |-> g[n]] = body([n \in 0 .. N |-> g[n]])
      BY <2>1 DEF LoadScenesRun
    <2>. QED BY <2>2
  <1>. HIDE DEF run
  <1>6. LoadScenesRun(run, s, list, N)
    BY <1>5 DEF LoadScenesRun
  <1>. QED BY <1>1, <1>6

\* VisualInstances::empty.
ClipsDeleted(s, t, x) ==
    /\ t \in State
    /\ t.freed = s.freed \cup ToSet(s.clipsOf[x])
    /\ t.visuals = s.visuals /\ t.source = s.source
    /\ t.scenes = s.scenes /\ t.clipsOf = s.clipsOf /\ t.clip = s.clip
    /\ t.current = s.current /\ t.number = s.number /\ t.active = s.active
    /\ t.loaded = s.loaded /\ t.full = s.full

\* emptyClips deletes the clips and leaves their pointers in the list.
LEMMA EmptyClipsEffect ==
    ASSUME NEW s \in State, NEW x \in SceneIds
    PROVE  ClipsDeleted(s, emptyClips(s, x), x)
  <1>. DEFINE t == touch(s, ToSet(s.clipsOf[x]))
  <1>1. Same(s, t) /\ t.loaded = s.loaded /\ t.full = s.full
    BY TouchSame
  <1>2. s.freed \cup ToSet(s.clipsOf[x]) \in SUBSET (VisualIds \cup SceneIds \cup ClipIds)
    BY Fields, ToSetIn
  <1>3. emptyClips(s, x) = [t EXCEPT !.freed = t.freed \cup ToSet(s.clipsOf[x])]
    BY DEF emptyClips, free
  <1>. HIDE DEF t
  <1>. QED BY <1>1, <1>2, <1>3, ZenonT(60) DEF ClipsDeleted, State, Same

\* VisualInstances::empty keeps what is good once "emptied" is named.
LEMMA EmptyClipsGood ==
    ASSUME NEW s, NEW b, Good(s, b), "emptied" \in b, NEW x \in SceneIds
    PROVE  Good(emptyClips(s, x), b)
  <1>. DEFINE t == emptyClips(s, x)
  <1>0. s \in State /\ ClipsDeleted(s, t, x) /\ t \in State
    BY EmptyClipsEffect DEF Good, ClipsDeleted
  <1>. HIDE DEF t
  <1>1. /\ ToSet(s.visuals) \subseteq VisualIds
        /\ ToSet(s.scenes) \subseteq SceneIds
        /\ ToSet(s.clipsOf[x]) \subseteq ClipIds
    BY <1>0, Fields, ToSetIn
  <1>2. Lists(t)
    BY <1>0, <1>1, Kinds DEF Good, Lists, ClipsDeleted
  <1>3. Owned(t)
    BY <1>0 DEF Good, Owned, ClipsDeleted
  <1>4. Cells(t)
    BY <1>0 DEF Good, Cells, ClipsDeleted
  <1>5. Numbered(t)
    BY <1>0, <1>1, Fields, Kinds DEF Good, Numbered, ClipsDeleted
  <1>6. Clips(t, b) /\ Shown(t, b)
    BY DEF Clips, Shown
  <1>. QED BY <1>0, <1>2, <1>3, <1>4, <1>5, <1>6 DEF Good, t

\* So does Set::emptyVisualInstanceOnAllScenes.
LEMMA AllClipsEmptiedGood ==
    ASSUME NEW s, NEW b, Good(s, b), "emptied" \in b
    PROVE  Good(emptyClipsOf(s, s.scenes), b)
  <1>. DEFINE N == Len(s.scenes)
  <1>0. s \in State /\ N \in Nat /\ s.scenes \in Seq(SceneIds) /\ Len(s.scenes) = N
    BY Fields DEF Good
  <1>. HIDE DEF N
  <1>1. PICK f : emptyClipsOf(s, s.scenes) = f[N] /\ EmptyClipsRun(f, s, s.scenes, N)
    BY <1>0, EmptyClipsRuns
  <1>. DEFINE P == {n \in Nat : n <= N => Good(f[n], b)}
  <1>2. 0 \in P
    BY <1>1 DEF EmptyClipsRun
  <1>3. ASSUME NEW n \in P PROVE n + 1 \in P
    <2>. SUFFICES ASSUME n + 1 <= N PROVE Good(f[n + 1], b)
      OBVIOUS
    <2>1. Good(f[n], b) /\ n \in Nat
      BY <1>0
    <2>2. s.scenes[n + 1] \in SceneIds
      BY <1>0, <2>1 DEF N
    <2>3. n + 1 \in 1 .. N
      BY <1>0, <2>1
    <2>4. f[n + 1] = emptyClips(f[n], s.scenes[n + 1])
      BY <1>1, <2>1, <2>3 DEF EmptyClipsRun
    <2>. QED BY <2>1, <2>2, <2>4, EmptyClipsGood
  <1>4. P = Nat
    <2>1. P \in SUBSET Nat
      OBVIOUS
    <2>. HIDE DEF P
    <2>. QED BY <1>2, <1>3, <2>1, Counting
  <1>. QED BY <1>0, <1>1, <1>4

-----------------------------------------------------------------------------
(* Scenes are deleted.                                                     *)

\* Scene::~Scene.
SceneDeleted(s, t, x) ==
    /\ t \in State
    /\ t.freed = s.freed \cup ToSet(s.clipsOf[x]) \cup {x}
    /\ t.clipsOf = [s.clipsOf EXCEPT ![x] = <<>>]
    /\ t.visuals = s.visuals /\ t.source = s.source
    /\ t.scenes = s.scenes /\ t.clip = s.clip
    /\ t.current = s.current /\ t.number = s.number /\ t.active = s.active
    /\ t.loaded = s.loaded /\ t.full = s.full

\* deleteScene deletes the clips and the scene.
LEMMA DeleteSceneEffect ==
    ASSUME NEW s \in State, NEW x \in SceneIds
    PROVE  SceneDeleted(s, deleteScene(s, x), x)
  <1>. DEFINE t == emptyClips(s, x)
  <1>1. ClipsDeleted(s, t, x)
    BY EmptyClipsEffect
  <1>2. deleteScene(s, x) = [t EXCEPT !.freed = t.freed \cup {x}, !.clipsOf = [t.clipsOf EXCEPT ![x] = <<>>]]
    BY <1>1 DEF deleteScene, free, ClipsDeleted, State
  <1>. HIDE DEF t
  <1>3. t.freed \cup {x} \in SUBSET (VisualIds \cup SceneIds \cup ClipIds)
    BY <1>1, Fields DEF ClipsDeleted
  <1>4. [t.clipsOf EXCEPT ![x] = <<>>] \in [SceneIds -> Seq(ClipIds)]
    <2>1. <<>> \in Seq(ClipIds) /\ t.clipsOf \in [SceneIds -> Seq(ClipIds)]
      BY <1>1, Fields DEF ClipsDeleted
    <2>. QED BY <2>1
  <1>. QED BY <1>1, <1>2, <1>3, <1>4, ZenonT(60) DEF SceneDeleted, State, ClipsDeleted

\* Scenes::empty, on its way: the first n scenes are deleted.
Deleting(s, t, n) ==
    /\ t \in State
    /\ s.freed \subseteq t.freed /\ t.freed \subseteq s.freed \cup SceneIds \cup ClipIds
    /\ \A m \in 1 .. n : s.scenes[m] \in t.freed /\ t.clipsOf[s.scenes[m]] = <<>>
    /\ \A y \in SceneIds : t.clipsOf[y] \in {s.clipsOf[y], <<>>}
    /\ t.visuals = s.visuals /\ t.source = s.source
    /\ t.scenes = s.scenes /\ t.clip = s.clip
    /\ t.current = s.current /\ t.number = s.number /\ t.active = s.active
    /\ t.loaded = s.loaded /\ t.full = s.full

\* One more scene is deleted.
LEMMA DeletingStep ==
    ASSUME NEW s \in State, NEW t, NEW n \in Nat, n + 1 <= Len(s.scenes), Deleting(s, t, n)
    PROVE  Deleting(s, deleteScene(t, s.scenes[n + 1]), n + 1)
  <1>. DEFINE x == s.scenes[n + 1]
              u == deleteScene(t, x)
  <1>0. x \in SceneIds
    BY Fields
  <1>1. SceneDeleted(t, u, x)
    BY <1>0, DeleteSceneEffect DEF Deleting
  <1>2. ToSet(t.clipsOf[x]) \subseteq ClipIds /\ t.clipsOf \in [SceneIds -> Seq(ClipIds)]
    BY <1>0, Fields, ToSetIn DEF Deleting
  <1>3. \A m \in 1 .. n + 1 : m \in 1 .. n \/ s.scenes[m] = x
    OBVIOUS
  <1>4. \A m \in 1 .. n : s.scenes[m] \in SceneIds
    BY Fields
  <1>. HIDE DEF u, x
  <1>5. \A y \in SceneIds : u.clipsOf[y] = IF y = x THEN <<>> ELSE t.clipsOf[y]
    BY <1>0, <1>1, <1>2 DEF SceneDeleted
  <1>6. \A m \in 1 .. n + 1 : s.scenes[m] \in u.freed /\ u.clipsOf[s.scenes[m]] = <<>>
    BY <1>0, <1>1, <1>3, <1>4, <1>5 DEF SceneDeleted, Deleting
  <1>7. \A y \in SceneIds : u.clipsOf[y] \in {s.clipsOf[y], <<>>}
    BY <1>5 DEF Deleting
  <1>8. s.freed \subseteq u.freed /\ u.freed \subseteq s.freed \cup SceneIds \cup ClipIds
    BY <1>0, <1>1, <1>2 DEF SceneDeleted, Deleting
  <1>9. Deleting(s, u, n + 1)
    BY <1>1, <1>6, <1>7, <1>8 DEF SceneDeleted, Deleting
  <1>. QED BY <1>9 DEF u, x

\* Scenes::empty: t is s without scenes, and all of them are deleted.
ScenesEmptied(s, t) ==
    /\ t \in State
    /\ s.freed \subseteq t.freed /\ t.freed \subseteq s.freed \cup SceneIds \cup ClipIds
    /\ ToSet(s.scenes) \subseteq t.freed
    /\ t.scenes = <<>>
    /\ \A y \in SceneIds : t.clipsOf[y] = <<>>
    /\ t.visuals = s.visuals /\ t.source = s.source /\ t.clip = s.clip
    /\ t.current = s.current /\ t.number = s.number /\ t.active = s.active
    /\ t.loaded = s.loaded /\ t.full = s.full

\* emptyScenes deletes every scene, once.
LEMMA EmptyScenesEffect ==
    ASSUME NEW s \in State, Owned(s)
    PROVE  ScenesEmptied(s, emptyScenes(s))
  <1>. DEFINE N == Len(s.scenes)
              u == deleteScenes(s, s.scenes)
  <1>0. N \in Nat /\ s.scenes \in Seq(SceneIds) /\ Len(s.scenes) = N
    BY Fields
  <1>1. emptyScenes(s) = [u EXCEPT !.scenes = <<>>]
    BY DEF emptyScenes, deleteScenes, loop
  <1>. HIDE DEF N
  <1>2. PICK f : u = f[N] /\ DeleteScenesRun(f, s, s.scenes, N)
    BY <1>0, DeleteScenesRuns
  <1>. HIDE DEF u
  <1>. DEFINE P == {n \in Nat : n <= N => Deleting(s, f[n], n)}
  <1>3. 0 \in P
    BY <1>2 DEF Deleting, DeleteScenesRun
  <1>4. ASSUME NEW n \in P PROVE n + 1 \in P
    <2>. SUFFICES ASSUME n + 1 <= N PROVE Deleting(s, f[n + 1], n + 1)
      OBVIOUS
    <2>1. Deleting(s, f[n], n) /\ n \in Nat /\ n + 1 \in 1 .. N
      BY <1>0
    <2>2. f[n + 1] = deleteScene(f[n], s.scenes[n + 1])
      BY <1>2, <2>1 DEF DeleteScenesRun
    <2>. QED BY <1>0, <2>1, <2>2, DeletingStep
  <1>5. Deleting(s, u, N)
    <2>1. P \in SUBSET Nat
      OBVIOUS
    <2>. HIDE DEF P
    <2>2. P = Nat
      BY <1>3, <1>4, <2>1, Counting
    <2>. QED BY <1>0, <1>2, <2>2 DEF P
  <1>6. ToSet(s.scenes) \subseteq u.freed
    BY <1>0, <1>5 DEF Deleting, ToSet
  <1>7. \A y \in SceneIds : u.clipsOf[y] = <<>>
    <2>. SUFFICES ASSUME NEW y \in SceneIds PROVE u.clipsOf[y] = <<>>
      OBVIOUS
    <2>1. CASE y \in ToSet(s.scenes)
      BY <1>0, <1>5, <2>1 DEF Deleting, ToSet
    <2>2. CASE y \notin ToSet(s.scenes)
      BY <1>5, <2>2 DEF Deleting, Owned
    <2>. QED BY <2>1, <2>2
  <1>8. <<>> \in Seq(SceneIds)
    OBVIOUS
  <1>. QED BY <1>1, <1>5, <1>6, <1>7, <1>8, ZenonT(60) DEF ScenesEmptied, Deleting, State

\* After Scenes::empty only layers can still show a deleted clip.
LEMMA EmptyScenesGood ==
    ASSUME NEW s, NEW b, NEW c, Good(s, c),
           "layers" \in b \/ \A l \in Layer : s.active[l] = NULL
    PROVE  /\ Good(emptyScenes(s), b)
           /\ ScenesEmptied(s, emptyScenes(s))
           /\ clipsIn(emptyScenes(s)) = {}
  <1>. DEFINE t == emptyScenes(s)
  <1>0. s \in State /\ ScenesEmptied(s, t) /\ t \in State
    BY EmptyScenesEffect DEF Good, ScenesEmptied
  <1>. HIDE DEF t
  <1>1. clipsIn(t) = {}
    BY <1>0 DEF ScenesEmptied, clipsIn, ToSet
  <1>2. Lists(t)
    <2>1. ToSet(s.visuals) \subseteq VisualIds
      BY <1>0, Fields, ToSetIn
    <2>2. ToSet(<<>>) = {} /\ IsInjective(<<>>)
      BY DEF ToSet, IsInjective
    <2>. QED BY <2>1, <2>2, <1>0, Kinds DEF Good, Lists, ScenesEmptied
  <1>3. Owned(t) /\ Cells(t)
    BY <1>0 DEF Owned, Cells, ScenesEmptied, IsInjective, ToSet
  <1>4. Numbered(t)
    <2>1. s.current \notin s.freed \cup {NULL} => s.current \in ToSet(s.scenes)
      BY <1>0, Fields DEF Good, Numbered, ToSet
    <2>. QED BY <2>1, <1>0 DEF Numbered, ScenesEmptied
  <1>5. Clips(t, b)
    BY <1>1 DEF Clips
  <1>6. Shown(t, b)
    BY <1>0, Kinds, Fields DEF Shown, ScenesEmptied
  <1>. QED BY <1>0, <1>1, <1>2, <1>3, <1>4, <1>5, <1>6 DEF Good, t

-----------------------------------------------------------------------------
(* A clip is erased from a list.                                           *)

\* What is in a list once its i-th element was erased.
LEMMA Removed ==
    ASSUME NEW S, NEW q \in Seq(S), NEW i \in 1 .. Len(q)
    PROVE  /\ RemoveAt(q, i) \in Seq(S)
           /\ Len(RemoveAt(q, i)) = Len(q) - 1
           /\ \A n \in 1 .. Len(q) - 1 : RemoveAt(q, i)[n] = IF n < i THEN q[n] ELSE q[n + 1]
  <1>. DEFINE a == SubSeq(q, 1, i - 1)
              z == SubSeq(q, i + 1, Len(q))
  <1>0. Len(q) \in Nat /\ i \in Nat
    OBVIOUS
  <1>1. a \in Seq(S) /\ Len(a) = i - 1 /\ \A n \in 1 .. i - 1 : a[n] = q[n]
    BY <1>0
  <1>2. z \in Seq(S) /\ Len(z) = Len(q) - i /\ \A n \in 1 .. Len(q) - i : z[n] = q[i + n]
    BY <1>0
  <1>3. RemoveAt(q, i) = a \o z
    BY DEF RemoveAt
  <1>. HIDE DEF a, z
  <1>4. a \o z \in Seq(S) /\ Len(a \o z) = Len(q) - 1
    BY <1>0, <1>1, <1>2
  <1>5. ASSUME NEW n \in 1 .. Len(q) - 1
        PROVE  (a \o z)[n] = IF n < i THEN q[n] ELSE q[n + 1]
    <2>1. CASE n < i
      BY <1>0, <1>1, <1>2, <2>1
    <2>2. CASE n >= i
      <3>1. (a \o z)[n] = z[n - (i - 1)]
        BY <1>0, <1>1, <1>2, <2>2
      <3>2. n - (i - 1) \in 1 .. Len(q) - i /\ i + (n - (i - 1)) = n + 1
        BY <1>0, <2>2
      <3>3. z[n - (i - 1)] = q[i + (n - (i - 1))]
        BY <1>2, <3>2
      <3>. QED BY <1>0, <2>2, <3>1, <3>2, <3>3
    <2>3. n < i \/ n >= i
      BY <1>0
    <2>. QED BY <2>1, <2>2, <2>3, <1>0
  <1>. QED BY <1>3, <1>4, <1>5

\* Of a list without repetitions just that element is gone.
LEMMA RemovedInjective ==
    ASSUME NEW S, NEW q \in Seq(S), NEW i \in 1 .. Len(q), IsInjective(q)
    PROVE  /\ IsInjective(RemoveAt(q, i))
           /\ ToSet(RemoveAt(q, i)) = ToSet(q) \ {q[i]}
  <1>. DEFINE r == RemoveAt(q, i)
  <1>1. /\ r \in Seq(S) /\ Len(r) = Len(q) - 1
        /\ \A n \in 1 .. Len(q) - 1 : r[n] = IF n < i THEN q[n] ELSE q[n + 1]
    BY Removed
  <1>. HIDE DEF r
  <1>2. Len(q) \in Nat /\ i \in Nat /\ DOMAIN r = 1 .. Len(q) - 1 /\ DOMAIN q = 1 .. Len(q)
    BY <1>1
  <1>3. \A m, n \in 1 .. Len(q) : q[m] = q[n] => m = n
    BY <1>2 DEF IsInjective
  <1>4. IsInjective(r)
    BY <1>1, <1>2, <1>3 DEF IsInjective
  <1>5. ToSet(r) \subseteq ToSet(q) \ {q[i]}
    <2>. SUFFICES ASSUME NEW n \in 1 .. Len(q) - 1 PROVE r[n] \in ToSet(q) \ {q[i]}
      BY <1>2 DEF ToSet
    <2>1. n \in 1 .. Len(q) /\ n + 1 \in 1 .. Len(q)
      BY <1>2
    <2>. QED BY <1>1, <1>2, <1>3, <2>1 DEF ToSet
  <1>6. ToSet(q) \ {q[i]} \subseteq ToSet(r)
    <2>. SUFFICES ASSUME NEW n \in 1 .. Len(q), n # i PROVE \E m \in 1 .. Len(q) - 1 : r[m] = q[n]
      BY <1>2 DEF ToSet
    <2>1. CASE n < i
      <3>1. n \in 1 .. Len(q) - 1
        BY <1>2, <2>1
      <3>. QED BY <3>1, <2>1, <1>1
    <2>2. CASE n > i
      <3>1. n - 1 \in 1 .. Len(q) - 1 /\ ~(n - 1 < i) /\ (n - 1) + 1 = n
        BY <1>2, <2>2
      <3>. QED BY <3>1, <1>1
    <2>. QED BY <1>2, <2>1, <2>2
  <1>. QED BY <1>4, <1>5, <1>6 DEF r

\* VisualInstances::remove: of live clips in cells of their own, that of the cell goes.
LEMMA WithoutCell ==
    ASSUME NEW s \in State, NEW x \in SceneIds, NEW cell, IsInjective(s.clipsOf[x])
    PROVE  /\ withoutCell(s, x, cell) \in Seq(ClipIds)
           /\ IsInjective(withoutCell(s, x, cell))
           /\ ToSet(withoutCell(s, x, cell)) \subseteq ToSet(s.clipsOf[x])
           /\ Cells(s) /\ ToSet(s.clipsOf[x]) \cap s.freed = {} =>
                 \A k \in ToSet(withoutCell(s, x, cell)) : s.clip[k].cell # cell
           /\ (\A k \in ToSet(s.clipsOf[x]) : s.clip[k].cell # cell) =>
                 withoutCell(s, x, cell) = s.clipsOf[x]
  <1>. DEFINE q == s.clipsOf[x]
              found == {n \in 1 .. Len(q) : s.clip[q[n]].cell = cell}
              w == withoutCell(s, x, cell)
  <1>0. q \in Seq(ClipIds) /\ Len(q) \in Nat /\ DOMAIN q = 1 .. Len(q)
    BY Fields
  <1>1. w = IF found = {} THEN q ELSE RemoveAt(q, Min(found))
    BY DEF withoutCell
  <1>2. CASE found = {}
    <2>1. \A k \in ToSet(q) : s.clip[k].cell # cell
      BY <1>0, <1>2 DEF ToSet
    <2>. QED BY <1>0, <1>1, <1>2, <2>1
  <1>3. CASE found # {}
    <2>1. Min(found) \in found
      <3>1. found \in SUBSET Nat
        BY <1>0
      <3>. HIDE DEF found
      <3>. QED BY <1>3, <3>1, MinIn
    <2>. DEFINE i == Min(found)
    <2>2. i \in 1 .. Len(q) /\ s.clip[q[i]].cell = cell /\ q[i] \in ToSet(q)
      BY <1>0, <2>1 DEF ToSet
    <2>3. w = RemoveAt(q, i)
      BY <1>1, <1>3
    <2>. HIDE DEF i, found, w
    <2>4. w \in Seq(ClipIds) /\ IsInjective(w) /\ ToSet(w) = ToSet(q) \ {q[i]}
      BY <1>0, <2>2, <2>3, Removed, RemovedInjective
    <2>5. ASSUME Cells(s), ToSet(q) \cap s.freed = {}, NEW k \in ToSet(w)
          PROVE  s.clip[k].cell # cell
      BY <2>2, <2>4, <2>5 DEF Cells
    <2>. QED BY <2>2, <2>4, <2>5 DEF w
  <1>. QED BY <1>2, <1>3

-----------------------------------------------------------------------------
(* A clip more.                                                            *)

\* VisualInstances::add: t is s with clip k, which shows v, in the cell of scene x.
ClipAdded(s, t, x, k, v, cell) ==
    /\ t \in State
    /\ t.clipsOf = [s.clipsOf EXCEPT ![x] = Append(withoutCell(s, x, cell), k)]
    /\ t.clip = [s.clip EXCEPT ![k] = [visual |-> v, cell |-> cell]]
    /\ t.freed = s.freed \ {k}
    /\ t.visuals = s.visuals /\ t.source = s.source /\ t.scenes = s.scenes
    /\ t.current = s.current /\ t.number = s.number /\ t.active = s.active
    /\ t.full = s.full /\ t.undefined = s.undefined /\ ~t.opened

\* Clip k is referred to neither by another scene nor by a layer.
FreshClip(s, x, k, cell) ==
    /\ k \in ClipIds
    /\ k \notin ToSet(withoutCell(s, x, cell))
    /\ \A y \in SceneIds \ {x} : k \notin ToSet(s.clipsOf[y])
    /\ \A l \in Layer : s.active[l] # k

\* addClip adds a fresh clip, unless an access is undefined or the bound is hit.
LEMMA AddClipEffect ==
    ASSUME NEW s \in State, NEW x \in SceneIds, NEW v \in VisualIds, NEW cell \in Nat \X Nat,
           IsInjective(s.clipsOf[x])
    PROVE  \/ /\ addClip(s, x, v, cell) = touch(s, ToSet(s.clipsOf[x]))
              /\ addClip(s, x, v, cell).undefined
           \/ addClip(s, x, v, cell) = hitsBound(s)
           \/ /\ ToSet(s.clipsOf[x]) \cap s.freed = {}
              /\ \E k \in ClipIds : FreshClip(s, x, k, cell) /\ ClipAdded(s, addClip(s, x, v, cell), x, k, v, cell)
  <1>. DEFINE t == touch(s, ToSet(s.clipsOf[x]))
              left == withoutCell(s, x, cell)
              w == [s EXCEPT !.clipsOf[x] = left]
              ids == ClipIds \ inUse(w)
              k == Min(ids)
              u == addClip(s, x, v, cell)
  <1>1. CASE t.undefined
    BY <1>1 DEF addClip
  <1>2. CASE ~t.undefined /\ ids = {}
    BY <1>2 DEF addClip
  <1>3. CASE ~t.undefined /\ ids # {}
    <2>1. ToSet(s.clipsOf[x]) \cap s.freed = {}
      BY <1>3, TouchSame
    <2>2. u = [s EXCEPT !.clipsOf = [s.clipsOf EXCEPT ![x] = Append(left, k)],
                        !.clip = [s.clip EXCEPT ![k] = [visual |-> v, cell |-> cell]],
                        !.freed = s.freed \ {k}, !.opened = FALSE]
      BY <1>3 DEF addClip
    <2>3. k \in ids
      <3>1. ids \in SUBSET Nat
        BY Kinds
      <3>. HIDE DEF ids
      <3>. QED BY <1>3, <3>1, MinIn
    <2>. HIDE DEF k, u
    <2>4. k \in ClipIds /\ k \notin inUse(w)
      BY <2>3
    <2>. HIDE DEF ids
    <2>5. left \in Seq(ClipIds) /\ s.clipsOf \in [SceneIds -> Seq(ClipIds)]
      BY WithoutCell, Fields
    <2>. HIDE DEF left
    <2>6. w.clipsOf = [s.clipsOf EXCEPT ![x] = left] /\ w.active = s.active
      BY <2>5 DEF State
    <2>7. k \notin clipsIn(w) /\ \A l \in Layer : w.active[l] # k
      BY <2>4 DEF inUse, clipsHeld
    <2>. HIDE DEF w
    <2>8. k \notin ToSet(left)
      BY <2>5, <2>6, <2>7 DEF clipsIn
    <2>9. \A y \in SceneIds \ {x} : k \notin ToSet(s.clipsOf[y])
      BY <2>5, <2>6, <2>7 DEF clipsIn
    <2>10. FreshClip(s, x, k, cell)
      BY <2>4, <2>6, <2>7, <2>8, <2>9 DEF FreshClip, left
    <2>11. [s.clipsOf EXCEPT ![x] = Append(left, k)] \in [SceneIds -> Seq(ClipIds)]
      <3>1. Append(left, k) \in Seq(ClipIds)
        BY <2>4, <2>5
      <3>. QED BY <3>1, <2>5
    <2>12. [s.clip EXCEPT ![k] = [visual |-> v, cell |-> cell]]
              \in [ClipIds -> [visual : VisualIds \cup {NULL}, cell : Nat \X Nat]]
      <3>1. [visual |-> v, cell |-> cell] \in [visual : VisualIds \cup {NULL}, cell : Nat \X Nat]
        OBVIOUS
      <3>. QED BY <3>1, Fields
    <2>13. s.freed \ {k} \in SUBSET (VisualIds \cup SceneIds \cup ClipIds)
      BY Fields
    <2>14. ClipAdded(s, u, x, k, v, cell)
      BY <2>2, <2>11, <2>12, <2>13 DEF ClipAdded, State, left
    <2>. QED BY <2>1, <2>4, <2>10, <2>14 DEF u
  <1>. QED BY <1>1, <1>2, <1>3

\* A fresh clip in a cell from which the old one was removed is alone there.
LEMMA ClipAddedGood ==
    ASSUME NEW s, NEW t, NEW b, Good(s, b), NEW x \in ToSet(s.scenes), NEW k \in ClipIds,
           NEW v \in ToSet(s.visuals), NEW cell \in Nat \X Nat,
           ToSet(s.clipsOf[x]) \cap s.freed = {},
           FreshClip(s, x, k, cell), ClipAdded(s, t, x, k, v, cell)
    PROVE  Good(t, b)
  <1>. DEFINE left == withoutCell(s, x, cell)
  <1>0. s \in State /\ t \in State /\ Cells(s)
    BY DEF Good, ClipAdded
  <1>1. x \in SceneIds /\ v \in VisualIds /\ s.clipsOf \in [SceneIds -> Seq(ClipIds)]
        /\ s.clip \in [ClipIds -> [visual : VisualIds \cup {NULL}, cell : Nat \X Nat]]
    BY <1>0, Fields, ToSetIn
  <1>2. /\ left \in Seq(ClipIds) /\ IsInjective(left)
        /\ ToSet(left) \subseteq ToSet(s.clipsOf[x])
        /\ \A j \in ToSet(left) : s.clip[j].cell # cell
    <2>1. IsInjective(s.clipsOf[x])
      BY <1>1 DEF Good, Owned
    <2>2. left \in Seq(ClipIds) /\ IsInjective(left) /\ ToSet(left) \subseteq ToSet(s.clipsOf[x])
      BY <1>0, <1>1, <2>1, WithoutCell
    <2>3. \A j \in ToSet(left) : s.clip[j].cell # cell
      BY <1>0, <1>1, <2>1, WithoutCell
    <2>. QED BY <2>2, <2>3
  <1>3. k \notin ToSet(left) /\ \A y \in SceneIds \ {x} : k \notin ToSet(s.clipsOf[y])
    BY DEF FreshClip
  <1>4. t.clipsOf = [s.clipsOf EXCEPT ![x] = Append(left, k)]
    BY DEF ClipAdded
  <1>. HIDE DEF left
  <1>5. /\ t.clipsOf[x] = Append(left, k)
        /\ \A y \in SceneIds \ {x} : t.clipsOf[y] = s.clipsOf[y]
    BY <1>1, <1>4
  <1>6. ToSet(t.clipsOf[x]) = ToSet(left) \cup {k} /\ IsInjective(t.clipsOf[x])
    BY <1>2, <1>3, <1>5, AppendFresh
  <1>7. \A j \in ClipIds : t.clip[j] = IF j = k THEN [visual |-> v, cell |-> cell] ELSE s.clip[j]
    BY <1>1 DEF ClipAdded
  <1>8. \A y \in SceneIds : ToSet(s.clipsOf[y]) \subseteq ClipIds
    BY <1>0, Fields, ToSetIn
  <1>9. Lists(t)
    <2>1. ToSet(s.visuals) \subseteq VisualIds /\ ToSet(s.scenes) \subseteq SceneIds
      BY <1>0, Fields, ToSetIn
    <2>. QED BY <2>1, Kinds DEF Good, Lists, ClipAdded
  <1>10. Owned(t)
    BY <1>1, <1>5, <1>6 DEF Good, Owned, ClipAdded
  <1>11. Cells(t)
    <2>. SUFFICES ASSUME NEW y \in SceneIds, NEW i \in ToSet(t.clipsOf[y]), NEW j \in ToSet(t.clipsOf[y]),
                         {i, j} \cap t.freed = {}, t.clip[i].cell = t.clip[j].cell
                  PROVE  i = j
      BY DEF Cells
    <2>0. t.freed = s.freed \ {k}
      BY DEF ClipAdded
    <2>1. CASE y # x
      <3>1. i \in ToSet(s.clipsOf[y]) /\ j \in ToSet(s.clipsOf[y]) /\ i # k /\ j # k /\ i \in ClipIds /\ j \in ClipIds
        BY <2>1, <1>3, <1>5, <1>8
      <3>. QED BY <3>1, <1>7, <1>0, <2>0 DEF Cells
    <2>2. CASE y = x
      <3>1. i \in ToSet(left) \cup {k} /\ j \in ToSet(left) \cup {k}
        BY <2>2, <1>6
      <3>2. \A n \in ToSet(left) : n \in ClipIds /\ n # k /\ t.clip[n].cell = s.clip[n].cell
        BY <1>1, <1>2, <1>3, <1>7, <1>8
      <3>3. t.clip[k].cell = cell
        BY <1>7
      <3>4. CASE i \in ToSet(left) /\ j \in ToSet(left)
        <4>1. i \in ToSet(s.clipsOf[x]) /\ j \in ToSet(s.clipsOf[x]) /\ {i, j} \cap s.freed = {}
          BY <3>2, <3>4, <2>0, <1>2
        <4>2. s.clip[i].cell = s.clip[j].cell
          BY <3>2, <3>4
        <4>. QED BY <4>1, <4>2, <1>0, <1>1 DEF Cells
      <3>. QED BY <3>1, <3>2, <3>3, <3>4, <1>2
    <2>. QED BY <2>1, <2>2
  <1>12. Numbered(t)
    <2>1. k \notin SceneIds \cup {NULL} /\ s.current \in SceneIds \cup {NULL}
      BY <1>0, Kinds, Fields
    <2>. QED BY <2>1 DEF Good, Numbered, ClipAdded
  <1>13. \A j \in clipsIn(t) : j = k \/ (j \in clipsIn(s) /\ t.clip[j] = s.clip[j])
    <2>. SUFFICES ASSUME NEW y \in SceneIds, NEW j \in ToSet(t.clipsOf[y]), j # k
                  PROVE  j \in ToSet(s.clipsOf[y]) /\ t.clip[j] = s.clip[j]
      BY DEF clipsIn
    <2>1. j \in ToSet(s.clipsOf[y])
      BY <1>2, <1>5, <1>6
    <2>. QED BY <2>1, <1>7, <1>8
  <1>14. Clips(t, b)
    <2>1. t.clip[k].visual = v /\ t.freed = s.freed \ {k} /\ t.visuals = s.visuals
      BY <1>7 DEF ClipAdded
    <2>. QED BY <2>1, <1>13 DEF Good, Clips
  <1>15. Shown(t, b)
    BY DEF Good, Shown, ClipAdded
  <1>. QED BY <1>0, <1>9, <1>10, <1>11, <1>12, <1>14, <1>15 DEF Good

\* VisualInstances::add keeps what is good.
LEMMA AddClipGood ==
    ASSUME NEW s, NEW b, Good(s, b), NEW x \in ToSet(s.scenes),
           NEW v \in ToSet(s.visuals), NEW cell \in Nat \X Nat
    PROVE  Good(addClip(s, x, v, cell), b)
  <1>0. s \in State /\ x \in SceneIds /\ v \in VisualIds /\ IsInjective(s.clipsOf[x])
    <2>1. s \in State
      BY DEF Good
    <2>2. x \in SceneIds /\ v \in VisualIds
      BY <2>1, Fields, ToSetIn
    <2>. QED BY <2>1, <2>2 DEF Good, Owned
  <1>1. CASE addClip(s, x, v, cell) = touch(s, ToSet(s.clipsOf[x]))
    BY <1>0, <1>1, TouchSame, SameGood
  <1>2. CASE addClip(s, x, v, cell) = hitsBound(s)
    BY <1>0, <1>2, BoundSame, SameGood
  <1>3. ASSUME ToSet(s.clipsOf[x]) \cap s.freed = {}, NEW k \in ClipIds,
               FreshClip(s, x, k, cell), ClipAdded(s, addClip(s, x, v, cell), x, k, v, cell)
        PROVE  Good(addClip(s, x, v, cell), b)
    BY <1>3, ClipAddedGood
  <1>. QED BY <1>0, <1>1, <1>2, <1>3, AddClipEffect

-----------------------------------------------------------------------------
(* The current scene, and the parts of a file.                             *)

\* Set::setCurrentScene keeps the pointer and the number together.
LEMMA SetCurrentSceneGood ==
    ASSUME NEW s, NEW b, Good(s, b), NEW n \in Nat
    PROVE  Good(setCurrentScene(s, n), b)
  <1>0. s \in State /\ s.scenes \in Seq(SceneIds)
    BY Fields DEF Good
  <1>1. CASE s.scenes = <<>>
    <2>1. setCurrentScene(s, n) = [s EXCEPT !.undefined = TRUE]
      BY <1>1 DEF setCurrentScene
    <2>2. Same(s, setCurrentScene(s, n))
      BY <1>0, <2>1 DEF Same, State
    <2>. QED BY <2>2, SameGood
  <1>2. CASE s.scenes # <<>> /\ n > Len(s.scenes) - 1
    BY <1>2 DEF setCurrentScene
  <1>3. CASE s.scenes # <<>> /\ ~(n > Len(s.scenes) - 1)
    <2>. DEFINE x == s.scenes[n + 1]
                t == [s EXCEPT !.current = x, !.number = n]
    <2>1. n < Len(s.scenes) /\ x \in SceneIds
      BY <1>0, <1>3
    <2>2. setCurrentScene(s, n) = touchClips(t, ToSet(s.clipsOf[x]))
      BY <1>3 DEF setCurrentScene
    <2>. HIDE DEF x
    <2>3. /\ t \in State
          /\ t.current = x /\ t.number = n
          /\ t.visuals = s.visuals /\ t.scenes = s.scenes /\ t.clipsOf = s.clipsOf
          /\ t.clip = s.clip /\ t.active = s.active /\ t.freed = s.freed
      BY <1>0, <2>1 DEF State
    <2>. HIDE DEF t
    <2>4. Numbered(t)
      BY <2>1, <2>3 DEF Numbered, x
    <2>5. Lists(t) /\ Owned(t) /\ Cells(t) /\ Clips(t, b) /\ Shown(t, b)
      BY <2>3 DEF Good, Lists, Owned, Cells, Clips, Shown, clipsIn
    <2>6. Good(t, b)
      BY <2>3, <2>4, <2>5 DEF Good
    <2>. QED BY <2>2, <2>3, <2>6, TouchClipsSame, SameGood
  <1>. QED BY <1>1, <1>2, <1>3

\* A visual of a file is loaded.
LEMMA LoadVisualGood ==
    ASSUME NEW s, NEW b, Good(s, b), NEW file \in Source
    PROVE  Good(loadVisual(s, file), b)
  BY AddVisualGood DEF loadVisual

\* All visuals of a file are loaded.
LEMMA LoadVisualsGood ==
    ASSUME NEW s, NEW b, Good(s, b), NEW list \in Seq(Source)
    PROVE  Good(loadVisuals(s, list), b)
  <1>. DEFINE N == Len(list)
  <1>0. N \in Nat /\ Len(list) = N
    OBVIOUS
  <1>. HIDE DEF N
  <1>1. PICK f : loadVisuals(s, list) = f[N] /\ LoadVisualsRun(f, s, list, N)
    BY <1>0, LoadVisualsRuns
  <1>. DEFINE P == {n \in Nat : n <= N => Good(f[n], b)}
  <1>2. 0 \in P
    BY <1>1 DEF LoadVisualsRun
  <1>3. ASSUME NEW n \in P PROVE n + 1 \in P
    <2>. SUFFICES ASSUME n + 1 <= N PROVE Good(f[n + 1], b)
      OBVIOUS
    <2>1. Good(f[n], b) /\ n \in Nat /\ n + 1 \in 1 .. N
      BY <1>0
    <2>2. list[n + 1] \in Source
      BY <1>0, <2>1
    <2>3. f[n + 1] = loadVisual(f[n], list[n + 1])
      BY <1>1, <2>1 DEF LoadVisualsRun
    <2>. QED BY <2>1, <2>2, <2>3, LoadVisualGood
  <1>4. P = Nat
    <2>1. P \in SUBSET Nat
      OBVIOUS
    <2>. HIDE DEF P
    <2>. QED BY <1>2, <1>3, <2>1, Counting
  <1>. QED BY <1>0, <1>1, <1>4

\* setVisuals, with its loop by name.
LEMMA SetVisualsIs ==
    ASSUME NEW s, NEW list
    PROVE  setVisuals(s, list) = loadVisuals(emptyVisuals(s), list)
  BY DEF setVisuals, loadVisuals, loop

\* A clip in a file.
SavedClip == [index : Nat, cell : Nat \X Nat, visual : Source]

\* A clip is loaded into a scene that stays in the list.
LEMMA LoadClipGood ==
    ASSUME NEW s, NEW b, Good(s, b), NEW x \in ToSet(s.scenes), NEW saved \in SavedClip
    PROVE  /\ Good(loadClip(s, x, saved), b)
           /\ loadClip(s, x, saved).scenes = s.scenes
  <1>0. s \in State
    BY DEF Good
  <1>1. CASE saved.index >= Len(s.visuals)
    BY <1>1 DEF loadClip
  <1>2. CASE ~(saved.index >= Len(s.visuals))
    <2>. DEFINE v == s.visuals[saved.index + 1]
    <2>1. v \in ToSet(s.visuals) /\ saved.cell \in Nat \X Nat
      <3>1. s.visuals \in Seq(VisualIds) /\ saved.index + 1 \in 1 .. Len(s.visuals)
        BY <1>0, <1>2, Fields DEF SavedClip
      <3>. QED BY <3>1, ToSetIn DEF SavedClip
    <2>2. loadClip(s, x, saved) = addClip(s, x, v, saved.cell)
      BY <1>2 DEF loadClip
    <2>. HIDE DEF v
    <2>3. x \in SceneIds /\ v \in VisualIds /\ IsInjective(s.clipsOf[x])
      <3>1. x \in SceneIds /\ v \in VisualIds
        BY <1>0, <2>1, Fields, ToSetIn
      <3>. QED BY <3>1 DEF Good, Owned
    <2>4. addClip(s, x, v, saved.cell).scenes = s.scenes
      <3>1. touch(s, ToSet(s.clipsOf[x])).scenes = s.scenes /\ hitsBound(s).scenes = s.scenes
        BY <1>0, TouchSame, BoundSame DEF Same
      <3>2. ASSUME NEW t, NEW k, ClipAdded(s, t, x, k, v, saved.cell) PROVE t.scenes = s.scenes
        BY <3>2 DEF ClipAdded
      <3>. QED BY <1>0, <2>1, <2>3, <3>1, <3>2, AddClipEffect
    <2>. QED BY <2>1, <2>2, <2>4, AddClipGood
  <1>. QED BY <1>1, <1>2

\* All clips of a scene are loaded.
LEMMA LoadClipsGood ==
    ASSUME NEW s, NEW b, Good(s, b), NEW x \in ToSet(s.scenes), NEW list \in Seq(SavedClip)
    PROVE  Good(loadClips(s, x, list), b)
  <1>. DEFINE N == Len(list)
  <1>0. N \in Nat /\ Len(list) = N
    OBVIOUS
  <1>. HIDE DEF N
  <1>1. PICK f : loadClips(s, x, list) = f[N] /\ LoadClipsRun(f, s, x, list, N)
    BY <1>0, LoadClipsRuns
  <1>. DEFINE P == {n \in Nat : n <= N => Good(f[n], b) /\ f[n].scenes = s.scenes}
  <1>2. 0 \in P
    BY <1>1 DEF LoadClipsRun
  <1>3. ASSUME NEW n \in P PROVE n + 1 \in P
    <2>. SUFFICES ASSUME n + 1 <= N PROVE Good(f[n + 1], b) /\ f[n + 1].scenes = s.scenes
      OBVIOUS
    <2>1. Good(f[n], b) /\ f[n].scenes = s.scenes /\ n \in Nat /\ n + 1 \in 1 .. N
      BY <1>0
    <2>2. list[n + 1] \in SavedClip
      BY <1>0, <2>1
    <2>3. f[n + 1] = loadClip(f[n], x, list[n + 1])
      BY <1>1, <2>1 DEF LoadClipsRun
    <2>. QED BY <2>1, <2>2, <2>3, LoadClipGood
  <1>4. P = Nat
    <2>1. P \in SUBSET Nat
      OBVIOUS
    <2>. HIDE DEF P
    <2>. QED BY <1>2, <1>3, <2>1, Counting
  <1>. QED BY <1>0, <1>1, <1>4

\* loadScene, with its loop by name.
LEMMA LoadSceneIs ==
    ASSUME NEW s, NEW list
    PROVE  loadScene(s, list) = IF newScene(s).full THEN newScene(s)
                                ELSE loadClips(newScene(s), Last(newScene(s).scenes), list)
  BY DEF loadScene, loadClips, loop

\* A scene of a file is loaded.
LEMMA LoadSceneGood ==
    ASSUME NEW s, NEW b, Good(s, b), NEW list \in Seq(SavedClip)
    PROVE  Good(loadScene(s, list), b)
  <1>. DEFINE t == newScene(s)
  <1>0. s \in State
    BY DEF Good
  <1>1. Good(t, b)
    BY NewSceneGood
  <1>2. CASE t.full
    BY <1>1, <1>2, LoadSceneIs
  <1>3. CASE ~t.full
    <2>1. hitsBound(s).full
      BY <1>0 DEF hitsBound, State
    <2>2. PICK x \in SceneIds : SceneAdded(s, t, x)
      BY <1>0, <1>3, <2>1, NewSceneEffect
    <2>3. t.scenes = Append(s.scenes, x) /\ s.scenes \in Seq(SceneIds)
      BY <1>0, <2>2, Fields DEF SceneAdded
    <2>4. Last(t.scenes) \in ToSet(t.scenes)
      BY <2>3, AppendFresh DEF Last
    <2>. QED BY <1>1, <1>3, <2>4, LoadSceneIs, LoadClipsGood
  <1>. QED BY <1>2, <1>3

\* setScenes, with its loop by name.
LEMMA SetScenesIs ==
    ASSUME NEW s, NEW list
    PROVE  setScenes(s, list) = loadScenes(emptyScenes(s), list)
  BY DEF setScenes, loadScenes, loop

\* All scenes of a file are loaded.
LEMMA LoadScenesGood ==
    ASSUME NEW s, NEW b, Good(s, b), NEW list \in Seq(Seq(SavedClip))
    PROVE  Good(loadScenes(s, list), b)
  <1>. DEFINE N == Len(list)
  <1>0. N \in Nat /\ Len(list) = N
    OBVIOUS
  <1>. HIDE DEF N
  <1>1. PICK f : loadScenes(s, list) = f[N] /\ LoadScenesRun(f, s, list, N)
    BY <1>0, LoadScenesRuns
  <1>. DEFINE P == {n \in Nat : n <= N => Good(f[n], b)}
  <1>2. 0 \in P
    BY <1>1 DEF LoadScenesRun
  <1>3. ASSUME NEW n \in P PROVE n + 1 \in P
    <2>. SUFFICES ASSUME n + 1 <= N PROVE Good(f[n + 1], b)
      OBVIOUS
    <2>1. Good(f[n], b) /\ n \in Nat /\ n + 1 \in 1 .. N
      BY <1>0
    <2>2. list[n + 1] \in Seq(SavedClip)
      BY <1>0, <2>1
    <2>3. f[n + 1] = loadScene(f[n], list[n + 1])
      BY <1>1, <2>1 DEF LoadScenesRun
    <2>. QED BY <2>1, <2>2, <2>3, LoadSceneGood
  <1>4. P = Nat
    <2>1. P \in SUBSET Nat
      OBVIOUS
    <2>. HIDE DEF P
    <2>. QED BY <1>2, <1>3, <2>1, Counting
  <1>. QED BY <1>0, <1>1, <1>4

-----------------------------------------------------------------------------
(* Loading and closing.                                                    *)

\* What a file holds.
LEMMA FileTyped == File = [visuals : Seq(Source), scenes : Seq(Seq(SavedClip))]
  BY DEF File, SavedClip

\* Visuals::setState, when there are no clips or its harm is named.
LEMMA SetVisualsGood ==
    ASSUME NEW s, NEW b, Good(s, b), "visuals" \in b \/ clipsIn(s) = {}, NEW list \in Seq(Source)
    PROVE  Good(setVisuals(s, list), b)
  BY SetVisualsIs, EmptyVisualsGood, LoadVisualsGood

\* Scenes::setState mends what clips refer to, if layers show nothing.
LEMMA SetScenesGood ==
    ASSUME NEW s, NEW b, NEW c, Good(s, c), NEW list \in Seq(Seq(SavedClip)),
           "layers" \in b \/ \A l \in Layer : s.active[l] = NULL
    PROVE  Good(setScenes(s, list), b)
  BY SetScenesIs, EmptyScenesGood, LoadScenesGood

\* Engine::setState, with what it may leave behind.
LEMMA SetStateGood ==
    ASSUME NEW s, NEW b, Good(s, b), NEW file \in File, NEW parts, NEW c, b \subseteq c,
           \/ mixes(s, file, parts) \subseteq c
           \/ clipsIn(s) = {} /\ "layers" \in parts
    PROVE  Good(setState(s, file, parts), c)
  <1>. DEFINE vis == "visuals" \in parts /\ file.visuals # <<>>
              scn == "scenes" \in parts /\ file.scenes # <<>>
              p == IF vis THEN setVisuals(s, file.visuals) ELSE s
              q == IF "layers" \in parts THEN emptyLayers(p) ELSE p
  <1>0. file.visuals \in Seq(Source) /\ file.scenes \in Seq(Seq(SavedClip))
    BY FileTyped
  <1>1. setState(s, file, parts) = IF scn THEN setScenes(q, file.scenes) ELSE q
    BY DEF setState
  <1>2. mixes(s, file, parts) = (IF vis /\ ~scn THEN {"visuals"} ELSE {})
                                   \cup (IF scn /\ "layers" \notin parts THEN {"layers"} ELSE {})
    BY DEF mixes
  <1>. HIDE DEF vis, scn
  <1>3. Good(p, c \cup {"visuals"})
    <2>1. Good(s, c \cup {"visuals"})
      BY Weaken
    <2>. QED BY <2>1, <1>0, SetVisualsGood
  <1>4. ~scn => Good(p, c)
    <2>1. Good(s, c)
      BY Weaken
    <2>. QED BY <2>1, <1>0, <1>2, SetVisualsGood
  <1>. HIDE DEF p
  <1>5. Good(q, c \cup {"visuals"}) /\ (~scn => Good(q, c))
    BY <1>3, <1>4, EmptyLayersGood
  <1>6. "layers" \in parts => \A l \in Layer : q.active[l] = NULL
    BY <1>3, EmptyLayersEffect DEF Good, LayersEmptied
  <1>. HIDE DEF q
  <1>. QED BY <1>0, <1>1, <1>2, <1>5, <1>6, SetScenesGood

\* Engine::closeSet leaves nothing behind that was not left before.
LEMMA CloseSetGood ==
    ASSUME NEW s, NEW b, Good(s, b)
    PROVE  Good(closeSet(s), b)
  <1>1. CASE ~s.loaded
    BY <1>1 DEF closeSet
  <1>2. CASE s.loaded
    <2>. DEFINE p == emptyLayers(s)
                q == emptyVisuals(p)
                u == emptyScenes(q)
    <2>0. s \in State
      BY DEF Good
    <2>1. Good(p, b \cup {"visuals"}) /\ p \in State /\ \A l \in Layer : p.active[l] = NULL
      <3>1. LayersEmptied(s, p)
        BY <2>0, EmptyLayersEffect
      <3>2. Good(s, b \cup {"visuals"})
        BY Weaken
      <3>3. Good(p, b \cup {"visuals"})
        BY <3>2, EmptyLayersGood
      <3>. QED BY <3>1, <3>3 DEF LayersEmptied
    <2>. HIDE DEF p
    <2>2. Good(q, b \cup {"visuals"}) /\ \A l \in Layer : q.active[l] = NULL
      BY <2>1, EmptyVisualsGood, EmptyVisualsEffect DEF VisualsEmptied
    <2>. HIDE DEF q
    <2>3. Good(u, b)
      BY <2>2, EmptyScenesGood
    <2>4. closeSet(s) = [u EXCEPT !.loaded = FALSE, !.opened = FALSE]
      BY <1>2 DEF closeSet, p, q
    <2>. HIDE DEF u
    <2>5. u \in State
      BY <2>3 DEF Good
    <2>6. Same(u, closeSet(s))
      BY <2>4, <2>5 DEF Same, State
    <2>. QED BY <2>3, <2>6, SameGood
  <1>. QED BY <1>1, <1>2

-----------------------------------------------------------------------------
(* The end of a call.                                                      *)

\* t is s, with what nothing refers to forgotten.
Tidied(s, t) ==
    /\ t \in State
    /\ t.freed = s.freed \cap inUse(s)
    /\ \A v \in VisualIds : v \in inUse(s) \ s.freed => t.source[v] = s.source[v]
    /\ \A k \in ClipIds : k \in clipsHeld(s) \ s.freed => t.clip[k] = s.clip[k]
    /\ t.visuals = s.visuals /\ t.scenes = s.scenes /\ t.clipsOf = s.clipsOf
    /\ t.current = s.current /\ t.number = s.number /\ t.active = s.active
    /\ t.opened = s.opened /\ t.undefined = s.undefined

\* tidy forgets just that.
LEMMA TidyEffect ==
    ASSUME NEW s \in State
    PROVE  Tidied(s, tidy(s))
  <1>. DEFINE a == s.freed \cap inUse(s)
              b == [v \in VisualIds |-> IF v \in inUse(s) \ s.freed THEN s.source[v] ELSE Camera]
              c == [k \in ClipIds |-> IF k \in clipsHeld(s) \ s.freed THEN s.clip[k]
                                      ELSE [visual |-> NULL, cell |-> <<0, 0>>]]
  <1>1. tidy(s) = [s EXCEPT !.freed = a, !.source = b, !.clip = c]
    BY DEF tidy
  <1>2. a \in SUBSET (VisualIds \cup SceneIds \cup ClipIds)
    BY Fields
  <1>3. b \in [VisualIds -> Source]
    BY Fields DEF Source
  <1>4. c \in [ClipIds -> [visual : VisualIds \cup {NULL}, cell : Nat \X Nat]]
    BY Fields
  <1>5. /\ \A v \in VisualIds : v \in inUse(s) \ s.freed => b[v] = s.source[v]
        /\ \A k \in ClipIds : k \in clipsHeld(s) \ s.freed => c[k] = s.clip[k]
    OBVIOUS
  <1>. HIDE DEF b, c
  <1>. QED BY <1>1, <1>2, <1>3, <1>4, <1>5, ZenonT(60) DEF Tidied, State

\* What is forgotten was not needed for what is good.
LEMMA TidyGood ==
    ASSUME NEW s, NEW b, Good(s, b)
    PROVE  Good(tidy(s), b)
  <1>. DEFINE t == tidy(s)
  <1>0. s \in State /\ Tidied(s, t) /\ t \in State
    BY TidyEffect DEF Good, Tidied
  <1>. HIDE DEF t
  <1>1. clipsIn(t) = clipsIn(s) /\ clipsIn(s) \subseteq inUse(s) /\ clipsIn(s) \subseteq clipsHeld(s)
        /\ clipsIn(s) \subseteq ClipIds /\ s.current \in inUse(s)
    BY <1>0, ClipsTyped DEF clipsIn, Tidied, inUse, clipsHeld
  <1>2. Lists(t) /\ Owned(t)
    BY <1>0 DEF Good, Lists, Owned, Tidied
  <1>3. Numbered(t)
    BY <1>0, <1>1 DEF Good, Numbered, Tidied
  <1>4. Shown(t, b)
    BY <1>0 DEF Good, Shown, Tidied
  <1>5. \A k \in clipsIn(s) : k \notin t.freed => k \notin s.freed /\ t.clip[k] = s.clip[k]
    BY <1>0, <1>1 DEF Tidied
  <1>6. Clips(t, b)
    BY <1>0, <1>1, <1>5 DEF Good, Clips, Tidied
  <1>7. Cells(t)
    <2>1. \A x \in SceneIds : t.clipsOf[x] = s.clipsOf[x] /\ ToSet(s.clipsOf[x]) \subseteq clipsIn(s)
      BY <1>0 DEF clipsIn, Tidied
    <2>. QED BY <2>1, <1>5 DEF Good, Cells
  <1>. QED BY <1>0, <1>2, <1>3, <1>4, <1>6, <1>7 DEF Good, t

\* A call ends in a good state if what it leaves is good.
LEMMA StepGood ==
    ASSUME NEW t, NEW b, Good(t, b), step(t)
    PROVE  Good(st', b)
  BY UndefinedGood, TidyGood DEF step

-----------------------------------------------------------------------------
(* Calls that change nothing that is saved.                                *)

\* s and t hold the same set.
SameSet(s, t) ==
    /\ t.visuals = s.visuals /\ t.source = s.source
    /\ t.scenes = s.scenes /\ t.clipsOf = s.clipsOf /\ t.clip = s.clip

\* The same set is saved as the same file.
LEMMA SameSaved ==
    ASSUME NEW s, NEW t, SameSet(s, t)
    PROVE  getState(t) = getState(s)
  BY DEF SameSet, getState, savedClips

\* What savedClips writes of the k-th clip of a scene, its clip c.
ClipSaved(s, c, k) ==
    [index |-> k - 1, cell |-> s.clip[c].cell, visual |-> s.source[s.clip[c].visual]]

\* savedClips writes the clips of a scene one by one.
LEMMA SavedClipsAre ==
    ASSUME NEW s, NEW x
    PROVE  savedClips(s, x) = [k \in 1 .. Len(s.clipsOf[x]) |-> ClipSaved(s, s.clipsOf[x][k], k)]
  BY DEF savedClips, ClipSaved

\* Nothing that would be saved is forgotten, if nothing was left behind.
LEMMA TidySaved ==
    ASSUME NEW s, Good(s, {})
    PROVE  getState(tidy(s)) = getState(s)
  <1>. DEFINE t == tidy(s)
  <1>0. s \in State /\ Tidied(s, t)
    BY TidyEffect DEF Good
  <1>. HIDE DEF t
  <1>1. /\ s.visuals \in Seq(VisualIds) /\ s.scenes \in Seq(SceneIds)
        /\ s.clipsOf \in [SceneIds -> Seq(ClipIds)]
    BY <1>0, Fields
  <1>2. \A v \in ToSet(s.visuals) : t.source[v] = s.source[v]
    <2>1. ToSet(s.visuals) \subseteq VisualIds /\ ToSet(s.visuals) \subseteq inUse(s)
      BY <1>1, ToSetIn DEF inUse
    <2>2. ToSet(s.visuals) \cap s.freed = {}
      BY DEF Good, Lists
    <2>. QED BY <1>0, <2>1, <2>2 DEF Tidied
  <1>3. \A k \in clipsIn(s) : t.clip[k] = s.clip[k] /\ s.clip[k].visual \in ToSet(s.visuals)
    <2>1. clipsIn(s) \subseteq ClipIds /\ clipsIn(s) \subseteq clipsHeld(s)
      BY <1>0, ClipsTyped DEF clipsHeld
    <2>2. clipsIn(s) \cap s.freed = {} /\ \A k \in clipsIn(s) : s.clip[k].visual \in ToSet(s.visuals)
      BY DEF Good, Clips
    <2>. QED BY <1>0, <2>1, <2>2 DEF Tidied
  <1>4. t.visuals = s.visuals /\ t.scenes = s.scenes /\ t.clipsOf = s.clipsOf
    BY <1>0 DEF Tidied
  <1>5. [n \in 1 .. Len(t.visuals) |-> t.source[t.visuals[n]]]
           = [n \in 1 .. Len(s.visuals) |-> s.source[s.visuals[n]]]
    <2>1. \A n \in 1 .. Len(s.visuals) : t.source[s.visuals[n]] = s.source[s.visuals[n]]
      BY <1>1, <1>2, ToSetIn
    <2>. QED BY <2>1, <1>4
  <1>6. \A x \in SceneIds : savedClips(t, x) = savedClips(s, x)
    <2>. SUFFICES ASSUME NEW x \in SceneIds PROVE savedClips(t, x) = savedClips(s, x)
      OBVIOUS
    <2>1. \A k \in 1 .. Len(s.clipsOf[x]) : s.clipsOf[x][k] \in clipsIn(s)
      BY <1>1, ToSetIn DEF clipsIn
    <2>2. \A k \in 1 .. Len(s.clipsOf[x]) :
             /\ t.clip[s.clipsOf[x][k]] = s.clip[s.clipsOf[x][k]]
             /\ t.source[s.clip[s.clipsOf[x][k]].visual] = s.source[s.clip[s.clipsOf[x][k]].visual]
      BY <2>1, <1>2, <1>3
    <2>3. \A k \in 1 .. Len(s.clipsOf[x]) :
             ClipSaved(t, s.clipsOf[x][k], k) = ClipSaved(s, s.clipsOf[x][k], k)
      BY <2>2 DEF ClipSaved
    <2>4. t.clipsOf[x] = s.clipsOf[x]
      BY <1>4
    <2>5. savedClips(t, x) = [k \in 1 .. Len(s.clipsOf[x]) |-> ClipSaved(t, s.clipsOf[x][k], k)]
      BY <2>4, SavedClipsAre
    <2>6. savedClips(s, x) = [k \in 1 .. Len(s.clipsOf[x]) |-> ClipSaved(s, s.clipsOf[x][k], k)]
      BY SavedClipsAre
    <2>. QED BY <2>3, <2>5, <2>6
  <1>7. [n \in 1 .. Len(t.scenes) |-> savedClips(t, t.scenes[n])]
           = [n \in 1 .. Len(s.scenes) |-> savedClips(s, s.scenes[n])]
    <2>1. \A n \in 1 .. Len(s.scenes) : s.scenes[n] \in SceneIds
      BY <1>1
    <2>. QED BY <2>1, <1>4, <1>6
  <1>8. getState(t) = getState(s)
    BY <1>5, <1>7 DEF getState
  <1>. QED BY <1>8 DEF t

\* t is good where s is, holds the same set, and is open if s is.
Kept(s, t) ==
    /\ SameSet(s, t)
    /\ t.opened = s.opened
    /\ \A b : Good(s, b) => Good(t, b)

\* A change of other flags keeps the set.
LEMMA SameKept ==
    ASSUME NEW s, NEW t, Same(s, t), t.opened = s.opened
    PROVE  Kept(s, t)
  BY SameGood DEF Kept, Same, SameSet

\* Two calls that keep the set.
LEMMA KeptTrans ==
    ASSUME NEW s, NEW t, NEW u, Kept(s, t), Kept(t, u)
    PROVE  Kept(s, u)
  BY DEF Kept, SameSet

\* Set::setCurrentScene keeps the set.
LEMMA SetCurrentSceneKept ==
    ASSUME NEW s \in State, NEW n \in Nat
    PROVE  Kept(s, setCurrentScene(s, n)) /\ setCurrentScene(s, n).full = s.full
  <1>1. \A b : Good(s, b) => Good(setCurrentScene(s, n), b)
    BY SetCurrentSceneGood
  <1>2. CASE s.scenes = <<>>
    <2>1. setCurrentScene(s, n) = [s EXCEPT !.undefined = TRUE]
      BY <1>2 DEF setCurrentScene
    <2>. QED BY <1>1, <2>1 DEF Kept, SameSet, State
  <1>3. CASE s.scenes # <<>> /\ n > Len(s.scenes) - 1
    BY <1>1, <1>3 DEF setCurrentScene, Kept, SameSet
  <1>4. CASE s.scenes # <<>> /\ ~(n > Len(s.scenes) - 1)
    <2>. DEFINE x == s.scenes[n + 1]
                t == [s EXCEPT !.current = x, !.number = n]
    <2>1. setCurrentScene(s, n) = touchClips(t, ToSet(s.clipsOf[x]))
      BY <1>4 DEF setCurrentScene
    <2>2. x \in SceneIds
      BY <1>4, Fields
    <2>. HIDE DEF x
    <2>3. t \in State /\ SameSet(s, t) /\ t.opened = s.opened /\ t.full = s.full
      BY <2>2 DEF State, SameSet
    <2>. HIDE DEF t
    <2>4. /\ Same(t, setCurrentScene(s, n)) /\ setCurrentScene(s, n).opened = t.opened
          /\ setCurrentScene(s, n).full = t.full
      BY <2>1, <2>3, TouchClipsSame
    <2>. QED BY <1>1, <2>3, <2>4 DEF Kept, SameSet, Same
  <1>. QED BY <1>2, <1>3, <1>4

\* Layers::empty keeps the set.
LEMMA EmptyLayersKept ==
    ASSUME NEW s \in State
    PROVE  Kept(s, emptyLayers(s))
  <1>1. LayersEmptied(s, emptyLayers(s))
    BY EmptyLayersEffect
  <1>2. \A b : Good(s, b) => Good(emptyLayers(s), b)
    BY EmptyLayersGood
  <1>. QED BY <1>1, <1>2 DEF Kept, SameSet, LayersEmptied

\* A cell is a pair of numbers, the first that of a layer.
LEMMA CellsAreNumbers == Cell \subseteq Nat \X Nat /\ \A cell \in Cell : cell[1] \in Layer
  BY IdsAssumption DEF Cell

\* Engine::play keeps the set.
LEMMA PlayKept ==
    ASSUME st \in State, NEW cell \in Cell, Play(cell)
    PROVE  \E t : call(t) /\ Kept(st, t)
  <1>. DEFINE l == cell[1]
              t == touch(st, {st.current} \ {NULL})
              clips == ToSet(st.clipsOf[st.current])
              u == touch(t, clips)
              found == {k \in clips : st.clip[k].cell = cell}
              chosen == IF found = {} THEN {NULL} ELSE found
  <1>0. l \in Layer
    BY CellsAreNumbers
  <1>1. \/ call([u EXCEPT !.undefined = TRUE])
        \/ /\ ~u.undefined
           /\ \E k \in chosen : call([touchClips(u, {k, st.active[l]} \ {NULL}) EXCEPT !.active[l] = k])
    BY DEF Play
  <1>2. clips \subseteq ClipIds
    <2>1. st.current \in SceneIds
      BY Fields DEF Play
    <2>. QED BY <2>1, Fields, ToSetIn
  <1>3. Same(st, t) /\ t.opened = st.opened
    BY TouchSame
  <1>. HIDE DEF t
  <1>4. Same(t, u) /\ u.opened = t.opened /\ (~u.undefined => clips \cap t.freed = {})
    BY <1>3, TouchSame DEF Same
  <1>. HIDE DEF u
  <1>5. Same(st, u) /\ u.opened = st.opened /\ u \in State /\ (~u.undefined => clips \cap u.freed = {})
    BY <1>3, <1>4 DEF Same
  <1>6. ASSUME call([u EXCEPT !.undefined = TRUE]) PROVE \E z : call(z) /\ Kept(st, z)
    <2>1. Same(u, [u EXCEPT !.undefined = TRUE]) /\ [u EXCEPT !.undefined = TRUE].opened = u.opened
      BY <1>5 DEF Same, State
    <2>2. Kept(st, [u EXCEPT !.undefined = TRUE])
      BY <1>5, <2>1, SameKept, KeptTrans
    <2>. QED BY <1>6, <2>2
  <1>7. ASSUME ~u.undefined, NEW k \in chosen,
               call([touchClips(u, {k, st.active[l]} \ {NULL}) EXCEPT !.active[l] = k])
        PROVE  \E z : call(z) /\ Kept(st, z)
    <2>. DEFINE r == touchClips(u, {k, st.active[l]} \ {NULL})
                a == [r EXCEPT !.active[l] = k]
    <2>1. Same(u, r) /\ r.opened = u.opened
      BY <1>5, TouchClipsSame
    <2>. HIDE DEF r
    <2>2. r \in State /\ k \in ClipIds \cup {NULL} /\ k \notin r.freed
      <3>1. r \in State /\ r.freed = u.freed
        BY <1>5, <2>1 DEF Same
      <3>2. NULL \notin r.freed
        BY <3>1, Fields, IdsAssumption
      <3>3. k \in clips \cup {NULL}
        BY <1>7
      <3>. QED BY <1>2, <1>5, <1>7, <3>1, <3>2, <3>3
    <2>3. r.active \in [Layer -> ClipIds \cup {NULL}]
      BY <2>2, Fields
    <2>4. /\ a \in State /\ a.active = [r.active EXCEPT ![l] = k]
          /\ SameSet(r, a) /\ a.opened = r.opened
          /\ a.current = r.current /\ a.number = r.number /\ a.freed = r.freed
      <3>1. [r.active EXCEPT ![l] = k] \in [Layer -> ClipIds \cup {NULL}]
        BY <2>2, <2>3, <1>0
      <3>. QED BY <3>1, <2>2 DEF State, SameSet
    <2>5. call(a)
      BY <1>7 DEF r
    <2>. HIDE DEF a
    <2>6. ASSUME NEW b, Good(r, b) PROVE Good(a, b)
      <3>1. Lists(a) /\ Owned(a) /\ Cells(a) /\ Numbered(a) /\ Clips(a, b)
        BY <2>6, <2>4 DEF Good, Lists, Owned, Cells, Numbered, Clips, clipsIn, SameSet
      <3>2. Shown(a, b)
        BY <1>0, <2>2, <2>3, <2>4, <2>6 DEF Good, Shown
      <3>. QED BY <2>4, <3>1, <3>2 DEF Good
    <2>7. Kept(st, r) /\ Kept(r, a)
      <3>1. Kept(st, u) /\ Kept(u, r)
        BY <1>5, <2>1, SameKept
      <3>2. Kept(r, a)
        BY <2>4, <2>6 DEF Kept
      <3>. QED BY <3>1, <3>2, KeptTrans
    <2>. QED BY <2>5, <2>7, KeptTrans
  <1>. QED BY <1>1, <1>6, <1>7

\* Engine::render and FileManager's cleanup keep the set.
LEMMA LookKept ==
    ASSUME st \in State, Render \/ Cleanup
    PROVE  \E t : call(t) /\ Kept(st, t)
  <1>1. CASE Render
    <2>. DEFINE t == touchClips(st, {st.active[l] : l \in Layer} \ {NULL})
    <2>1. Kept(st, t)
      BY TouchClipsSame, SameKept
    <2>2. call(t)
      BY <1>1 DEF Render
    <2>. QED BY <2>1, <2>2
  <1>2. CASE Cleanup
    <2>. DEFINE t == touch(st, {st.current})
                u == touchClips(t, ToSet(st.clipsOf[st.current]))
    <2>1. call(IF t.undefined THEN t ELSE u)
      BY <1>2 DEF Cleanup
    <2>2. Same(st, t) /\ t.opened = st.opened
      BY TouchSame
    <2>. HIDE DEF t
    <2>3. Same(t, u) /\ u.opened = t.opened
      BY <2>2, TouchClipsSame DEF Same
    <2>. HIDE DEF u
    <2>4. Kept(st, t) /\ Kept(st, u)
      BY <2>2, <2>3, SameKept, KeptTrans
    <2>. QED BY <2>1, <2>4
  <1>. QED BY <1>1, <1>2

\* Set::setCurrentScene, gotoPreviousScene and gotoNextScene keep the set.
LEMMA SceneChosenKept ==
    ASSUME st \in State,
           \/ \E n \in 0 .. Len(st.scenes) : SetCurrentScene(n)
           \/ GotoPreviousScene
           \/ GotoNextScene
    PROVE  \E t : call(t) /\ Kept(st, t)
  <1>0. st.number \in Nat /\ Len(st.scenes) \in Nat
    BY Fields
  <1>1. \A n \in Nat : Kept(st, setCurrentScene(st, n))
    BY SetCurrentSceneKept
  <1>2. ASSUME NEW n \in 0 .. Len(st.scenes), SetCurrentScene(n) PROVE \E t : call(t) /\ Kept(st, t)
    <2>1. n \in Nat
      BY <1>0
    <2>. QED BY <1>1, <1>2, <2>1 DEF SetCurrentScene
  <1>3. ASSUME GotoPreviousScene PROVE \E t : call(t) /\ Kept(st, t)
    <2>1. st.number - 1 \in Nat
      BY <1>0, <1>3 DEF GotoPreviousScene
    <2>. QED BY <1>1, <1>3, <2>1 DEF GotoPreviousScene
  <1>4. ASSUME GotoNextScene PROVE \E t : call(t) /\ Kept(st, t)
    <2>1. st.number + 1 \in Nat
      BY <1>0
    <2>. QED BY <1>1, <1>4, <2>1 DEF GotoNextScene
  <1>. QED BY <1>2, <1>3, <1>4

-----------------------------------------------------------------------------
(* What opening makes of a file: a function on files, which is idempotent. *)

\* The smaller of two numbers.
least(m, n) == IF m <= n THEN m ELSE n

\* Of a visual in a file, what would be saved again once it was opened.
keepVideo(list, file) == IF file = Camera THEN list ELSE Append(list, file)
\* The same for a list, after s.
keepVideos(s, list) == loop(keepVideo, s, list)
\* The videos of a list.
videos(list) == keepVideos(<<>>, list)

\* The k-th clip of a scene is opened with the k-th visual, if there is one.
reopenedClips(w, clips) ==
    [k \in 1 .. least(Len(clips), Len(w)) |->
        [index |-> k - 1, cell |-> clips[k].cell, visual |-> w[k]]]

\* What would be saved of the set that opening the file makes.
reopened(file) ==
    [visuals |-> videos(file.visuals),
     scenes |-> [n \in 1 .. Len(file.scenes) |->
                    reopenedClips(videos(file.visuals), file.scenes[n])]]

\* f holds the values keepVideos goes through.
KeepVideosRun(f, s, list, N) ==
    f[0] = s /\ \A n \in 1 .. N : f[n] = keepVideo(f[n - 1], list[n])

\* The loop of videos runs.
LEMMA KeepVideosRuns ==
    ASSUME NEW s, NEW list, NEW N \in Nat, Len(list) = N
    PROVE  \E f : /\ keepVideos(s, list) = f[N]
                  /\ KeepVideosRun(f, s, list, N)
  <1>. DEFINE body(g) == [n \in 0 .. N |-> IF n = 0 THEN s ELSE keepVideo(g[n - 1], list[n])]
              run == CHOOSE g : g = body(g)
              P == {k \in Nat : \E g : KeepVideosRun(g, s, list, k)}
  <1>1. keepVideos(s, list) = run[N]
    BY DEF loop, keepVideos
  <1>2. 0 \in P
    <2>1. KeepVideosRun([n \in {0} |-> s], s, list, 0)
      BY DEF KeepVideosRun
    <2>. QED BY <2>1
  <1>3. ASSUME NEW k \in P PROVE k + 1 \in P
    <2>1. PICK g : KeepVideosRun(g, s, list, k)
      OBVIOUS
    <2>. DEFINE h == [n \in 0 .. k + 1 |-> IF n = k + 1 THEN keepVideo(g[k], list[k + 1]) ELSE g[n]]
    <2>2. k \in Nat /\ k + 1 \in Nat /\ (\A n \in 1 .. k + 1 : n = k + 1 \/ n \in 1 .. k)
      OBVIOUS
    <2>3. h[k + 1] = keepVideo(g[k], list[k + 1]) /\ \A n \in 0 .. k : h[n] = g[n]
      BY <2>2
    <2>4. g[0] = s /\ \A n \in 1 .. k : g[n] = keepVideo(g[n - 1], list[n])
      BY <2>1 DEF KeepVideosRun
    <2>. HIDE DEF h
    <2>5. h[0] = s
      BY <2>2, <2>3, <2>4
    <2>6. \A n \in 1 .. k : h[n] = keepVideo(h[n - 1], list[n])
      BY <2>2, <2>3, <2>4
    <2>7. h[k + 1] = keepVideo(h[k], list[k + 1])
      BY <2>2, <2>3
    <2>8. KeepVideosRun(h, s, list, k + 1)
      BY <2>2, <2>5, <2>6, <2>7 DEF KeepVideosRun
    <2>. QED BY <2>2, <2>8
  <1>4. N \in P
    <2>. HIDE DEF P
    <2>1. P \in SUBSET Nat
      BY DEF P
    <2>. QED BY <1>2, <1>3, <2>1, Counting
  <1>5. run = body(run)
    <2>1. PICK g : KeepVideosRun(g, s, list, N)
      BY <1>4
    <2>2. [n \in 0 .. N |-> g[n]] = body([n \in 0 .. N |-> g[n]])
      BY <2>1 DEF KeepVideosRun
    <2>. QED BY <2>2
  <1>. HIDE DEF run
  <1>6. KeepVideosRun(run, s, list, N)
    BY <1>5 DEF KeepVideosRun
  <1>. QED BY <1>1, <1>6

\* What stays of a list are videos.
LEMMA VideosTyped ==
    ASSUME NEW list \in Seq(Source)
    PROVE  videos(list) \in Seq(Files)
  <1>. DEFINE N == Len(list)
  <1>0. N \in Nat /\ Len(list) = N
    OBVIOUS
  <1>. HIDE DEF N
  <1>1. PICK f : videos(list) = f[N] /\ KeepVideosRun(f, <<>>, list, N)
    BY <1>0, KeepVideosRuns DEF videos
  <1>. DEFINE P == {n \in Nat : n <= N => f[n] \in Seq(Files)}
  <1>2. 0 \in P
    <2>1. f[0] = <<>> /\ <<>> \in Seq(Files)
      BY <1>1 DEF KeepVideosRun
    <2>. QED BY <2>1
  <1>3. ASSUME NEW n \in P PROVE n + 1 \in P
    <2>. SUFFICES ASSUME n + 1 <= N PROVE f[n + 1] \in Seq(Files)
      OBVIOUS
    <2>1. f[n] \in Seq(Files) /\ n \in Nat /\ n + 1 \in 1 .. N
      BY <1>0
    <2>2. list[n + 1] \in Files \cup {Camera}
      BY <1>0, <2>1 DEF Source
    <2>3. f[n + 1] = keepVideo(f[n], list[n + 1])
      BY <1>1, <2>1 DEF KeepVideosRun
    <2>. QED BY <2>1, <2>2, <2>3 DEF keepVideo
  <1>4. P = Nat
    <2>1. P \in SUBSET Nat
      OBVIOUS
    <2>. HIDE DEF P
    <2>. QED BY <1>2, <1>3, <2>1, Counting
  <1>. QED BY <1>0, <1>1, <1>4

\* A list of videos stays as it is.
LEMMA VideosOfVideos ==
    ASSUME NEW list \in Seq(Files)
    PROVE  videos(list) = list
  <1>. DEFINE N == Len(list)
  <1>0. N \in Nat /\ Len(list) = N
    OBVIOUS
  <1>. HIDE DEF N
  <1>1. PICK f : videos(list) = f[N] /\ KeepVideosRun(f, <<>>, list, N)
    BY <1>0, KeepVideosRuns DEF videos
  <1>. DEFINE Prefix(q, n) == q \in Seq(Files) /\ Len(q) = n /\ \A m \in 1 .. n : q[m] = list[m]
              P == {n \in Nat : n <= N => Prefix(f[n], n)}
  <1>2. 0 \in P
    <2>1. f[0] = <<>> /\ <<>> \in Seq(Files)
      BY <1>1 DEF KeepVideosRun
    <2>2. Prefix(f[0], 0)
      BY <2>1
    <2>. QED BY <2>2
  <1>3. ASSUME NEW n \in P PROVE n + 1 \in P
    <2>. SUFFICES ASSUME n + 1 <= N PROVE Prefix(f[n + 1], n + 1)
      OBVIOUS
    <2>1. Prefix(f[n], n) /\ n \in Nat /\ n + 1 \in 1 .. N
      BY <1>0
    <2>2. list[n + 1] \in Files /\ list[n + 1] # Camera
      BY <1>0, <2>1, IdsAssumption
    <2>3. f[n + 1] = Append(f[n], list[n + 1])
      <3>1. f[n + 1] = keepVideo(f[n], list[n + 1])
        BY <1>1, <2>1 DEF KeepVideosRun
      <3>. QED BY <3>1, <2>2 DEF keepVideo
    <2>4. /\ f[n + 1] \in Seq(Files) /\ Len(f[n + 1]) = n + 1
          /\ \A m \in 1 .. n : f[n + 1][m] = f[n][m]
          /\ f[n + 1][n + 1] = list[n + 1]
      BY <2>1, <2>2, <2>3, AppendFresh
    <2>5. ASSUME NEW m \in 1 .. n + 1 PROVE f[n + 1][m] = list[m]
      <3>1. m \in 1 .. n \/ m = n + 1
        BY <2>1
      <3>. QED BY <3>1, <2>1, <2>4
    <2>. QED BY <2>4, <2>5
  <1>4. Prefix(f[N], N)
    <2>1. P \in SUBSET Nat
      OBVIOUS
    <2>. HIDE DEF P
    <2>2. P = Nat
      BY <1>2, <1>3, <2>1, Counting
    <2>. QED BY <1>0, <2>2 DEF P
  <1>5. f[N] = list
    BY <1>0, <1>4
  <1>. QED BY <1>1, <1>5

\* Opening changes a set only once: cameras are lost, clips without a visual of
\* their number are left out, and what is left is opened as it is.
LEMMA ReopenedTwice ==
    ASSUME NEW file \in File
    PROVE  reopened(reopened(file)) = reopened(file)
  <1>. DEFINE w == videos(file.visuals)
              r == reopened(file)
  <1>0. file.visuals \in Seq(Source) /\ file.scenes \in Seq(Seq(SavedClip))
    BY FileTyped
  <1>1. w \in Seq(Files) /\ videos(w) = w
    BY <1>0, VideosTyped, VideosOfVideos
  <1>2. r.visuals = w /\ r.scenes = [n \in 1 .. Len(file.scenes) |-> reopenedClips(w, file.scenes[n])]
    BY DEF reopened
  <1>. HIDE DEF w
  <1>3. Len(file.scenes) \in Nat
    BY <1>0
  <1>4. Len(r.scenes) = Len(file.scenes)
    BY <1>2, <1>3
  <1>5. ASSUME NEW n \in 1 .. Len(file.scenes)
        PROVE  reopenedClips(w, r.scenes[n]) = r.scenes[n]
    <2>. DEFINE q == file.scenes[n]
                c == reopenedClips(w, q)
                m == least(Len(q), Len(w))
    <2>1. Len(q) \in Nat /\ Len(w) \in Nat
      BY <1>0, <1>1
    <2>2. m \in Nat /\ least(m, Len(w)) = m
      BY <2>1 DEF least
    <2>3. c = [k \in 1 .. m |-> [index |-> k - 1, cell |-> q[k].cell, visual |-> w[k]]]
      BY DEF reopenedClips
    <2>. HIDE DEF m, c, q
    <2>4. Len(c) = m
      BY <2>2, <2>3
    <2>5. \A k \in 1 .. m : c[k].cell = q[k].cell
      BY <2>3
    <2>6. reopenedClips(w, c) = [k \in 1 .. m |-> [index |-> k - 1, cell |-> c[k].cell, visual |-> w[k]]]
      BY <2>2, <2>4 DEF reopenedClips
    <2>7. reopenedClips(w, c) = c
      BY <2>3, <2>5, <2>6
    <2>8. r.scenes[n] = c
      BY <1>2 DEF c, q
    <2>. QED BY <2>7, <2>8
  <1>6. reopened(r) = [visuals |-> w, scenes |-> [n \in 1 .. Len(file.scenes) |-> reopenedClips(w, r.scenes[n])]]
    BY <1>1, <1>2, <1>4 DEF reopened
  <1>7. [n \in 1 .. Len(file.scenes) |-> reopenedClips(w, r.scenes[n])] = r.scenes
    BY <1>2, <1>5
  <1>8. r = [visuals |-> w, scenes |-> r.scenes]
    BY <1>2 DEF reopened, w
  <1>. QED BY <1>6, <1>7, <1>8

-----------------------------------------------------------------------------
(* A load leaves what that function says.                                  *)

\* Neither was a bound hit nor is the run undefined.
Going(s) == ~s.full /\ ~s.undefined

\* The visuals as they would be saved.
Sources(s) == [n \in 1 .. Len(s.visuals) |-> s.source[s.visuals[n]]]

\* Loading a visual appends what would be saved of it.
LEMMA LoadVisualSaved ==
    ASSUME NEW s \in State, NEW file \in Source, ~loadVisual(s, file).full
    PROVE  ~s.full /\ Sources(loadVisual(s, file)) = keepVideo(Sources(s), file)
  <1>1. CASE file = Camera
    BY <1>1 DEF loadVisual, keepVideo
  <1>2. CASE file # Camera
    <2>. DEFINE t == addVisual(s, file)
    <2>1. loadVisual(s, file) = t /\ keepVideo(Sources(s), file) = Append(Sources(s), file)
      BY <1>2 DEF loadVisual, keepVideo
    <2>2. PICK v \in VisualIds \ inUse(s) : VisualAdded(s, t, v, file)
      BY <2>1, AddVisualEffect, BoundSame
    <2>. HIDE DEF t
    <2>3. s.visuals \in Seq(VisualIds) /\ s.source \in [VisualIds -> Source] /\ Len(s.visuals) \in Nat
      BY Fields
    <2>4. /\ Len(t.visuals) = Len(s.visuals) + 1
          /\ \A n \in 1 .. Len(s.visuals) : t.visuals[n] = s.visuals[n]
          /\ t.visuals[Len(s.visuals) + 1] = v
      BY <2>2, <2>3, AppendFresh DEF VisualAdded
    <2>5. \A n \in 1 .. Len(s.visuals) : s.visuals[n] # v /\ s.visuals[n] \in VisualIds
      BY <2>2, <2>3, ToSetIn DEF inUse
    <2>6. /\ t.source[v] = file
          /\ \A n \in 1 .. Len(s.visuals) : t.source[t.visuals[n]] = s.source[s.visuals[n]]
      BY <2>2, <2>3, <2>4, <2>5 DEF VisualAdded
    <2>7. Sources(s) \in Seq(Source) /\ Len(Sources(s)) = Len(s.visuals)
          /\ \A n \in 1 .. Len(s.visuals) : Sources(s)[n] = s.source[s.visuals[n]]
      BY <2>3 DEF Sources
    <2>8. /\ Append(Sources(s), file) \in Seq(Source)
          /\ Len(Append(Sources(s), file)) = Len(s.visuals) + 1
          /\ \A n \in 1 .. Len(s.visuals) : Append(Sources(s), file)[n] = s.source[s.visuals[n]]
          /\ Append(Sources(s), file)[Len(s.visuals) + 1] = file
      BY <2>7, AppendFresh
    <2>. DEFINE r == Append(Sources(s), file)
                L == Len(s.visuals)
    <2>. HIDE DEF r, L
    <2>9. \A n \in 1 .. L + 1 : r[n] = t.source[t.visuals[n]]
      <3>1. \A n \in 1 .. L + 1 : n \in 1 .. L \/ n = L + 1
        BY <2>3 DEF L
      <3>. QED BY <3>1, <2>4, <2>6, <2>8 DEF r, L
    <2>10. r = [n \in 1 .. L + 1 |-> r[n]]
      <3>1. r \in Seq(Source) /\ Len(r) = L + 1 /\ L \in Nat
        BY <2>3, <2>8 DEF r, L
      <3>. QED BY <3>1
    <2>11. Sources(t) = [n \in 1 .. L + 1 |-> t.source[t.visuals[n]]]
      BY <2>4 DEF Sources, L
    <2>12. Sources(t) = r
      BY <2>9, <2>10, <2>11
    <2>13. t.full = s.full
      BY <2>2 DEF VisualAdded
    <2>. QED BY <2>1, <2>12, <2>13 DEF r
  <1>. QED BY <1>1, <1>2

\* Loading visuals into an empty list leaves the videos of the file.
LEMMA LoadVisualsSaved ==
    ASSUME NEW s, NEW b, Good(s, b), s.visuals = <<>>, NEW list \in Seq(Source),
           ~loadVisuals(s, list).full
    PROVE  Sources(loadVisuals(s, list)) = videos(list)
  <1>. DEFINE N == Len(list)
  <1>0. N \in Nat /\ Len(list) = N
    OBVIOUS
  <1>. HIDE DEF N
  <1>1. PICK f : loadVisuals(s, list) = f[N] /\ LoadVisualsRun(f, s, list, N)
    BY <1>0, LoadVisualsRuns
  <1>2. PICK g : videos(list) = g[N] /\ KeepVideosRun(g, <<>>, list, N)
    BY <1>0, KeepVideosRuns DEF videos
  <1>. DEFINE P == {n \in Nat : n <= N => Good(f[n], b) /\ (~f[n].full => Sources(f[n]) = g[n])}
  <1>3. 0 \in P
    <2>1. Sources(s) = <<>>
      BY DEF Sources
    <2>. QED BY <2>1, <1>1, <1>2 DEF LoadVisualsRun, KeepVideosRun
  <1>4. ASSUME NEW n \in P PROVE n + 1 \in P
    <2>. SUFFICES ASSUME n + 1 <= N
                  PROVE  Good(f[n + 1], b) /\ (~f[n + 1].full => Sources(f[n + 1]) = g[n + 1])
      OBVIOUS
    <2>1. Good(f[n], b) /\ (~f[n].full => Sources(f[n]) = g[n]) /\ n \in Nat /\ n + 1 \in 1 .. N
      BY <1>0
    <2>2. list[n + 1] \in Source
      BY <1>0, <2>1
    <2>3. f[n + 1] = loadVisual(f[n], list[n + 1]) /\ g[n + 1] = keepVideo(g[n], list[n + 1])
      BY <1>1, <1>2, <2>1 DEF LoadVisualsRun, KeepVideosRun
    <2>4. Good(f[n + 1], b)
      BY <2>1, <2>2, <2>3, LoadVisualGood
    <2>5. f[n] \in State
      BY <2>1 DEF Good
    <2>. QED BY <2>1, <2>2, <2>3, <2>4, <2>5, LoadVisualSaved
  <1>5. P = Nat
    <2>1. P \in SUBSET Nat
      OBVIOUS
    <2>. HIDE DEF P
    <2>. QED BY <1>3, <1>4, <2>1, Counting
  <1>. QED BY <1>0, <1>1, <1>2, <1>5

\* The first n saved clips of a list are in scene x.
Filled(s, x, list, n) ==
    /\ Len(s.clipsOf[x]) = least(n, Len(s.visuals))
    /\ \A k \in 1 .. Len(s.clipsOf[x]) : /\ s.clip[s.clipsOf[x][k]].cell = list[k].cell
                                         /\ s.clip[s.clipsOf[x][k]].visual = s.visuals[k]

\* Nothing but scene x changes.
Others(s, t, x) ==
    /\ t.visuals = s.visuals /\ t.source = s.source /\ t.scenes = s.scenes
    /\ \A y \in SceneIds \ {x} :
          t.clipsOf[y] = s.clipsOf[y] /\ \A k \in ToSet(s.clipsOf[y]) : t.clip[k] = s.clip[k]

\* Two loads into one scene.
LEMMA OthersTrans ==
    ASSUME NEW s, NEW t, NEW u, NEW x, Others(s, t, x), Others(t, u, x)
    PROVE  Others(s, u, x)
  BY DEF Others

\* Loading the clip after n clips fills one place more, with the visual of its place.
LEMMA LoadClipStep ==
    ASSUME NEW s, Good(s, {}), NEW x \in ToSet(s.scenes), NEW list \in Seq(SavedClip), AsSaved(list),
           NEW n \in Nat, n + 1 <= Len(list), Filled(s, x, list, n),
           Going(loadClip(s, x, list[n + 1]))
    PROVE  /\ Going(s)
           /\ Filled(loadClip(s, x, list[n + 1]), x, list, n + 1)
           /\ Others(s, loadClip(s, x, list[n + 1]), x)
  <1>. DEFINE V == Len(s.visuals)
              q == s.clipsOf[x]
              saved == list[n + 1]
              t == loadClip(s, x, saved)
  <1>0. /\ s \in State /\ V \in Nat /\ x \in SceneIds /\ q \in Seq(ClipIds) /\ Len(q) \in Nat
        /\ s.visuals \in Seq(VisualIds)
    <2>1. s \in State
      BY DEF Good
    <2>. QED BY <2>1, Fields, ToSetIn
  <1>1. n + 1 \in 1 .. Len(list) /\ saved \in SavedClip /\ saved.index = n /\ saved.cell \in Nat \X Nat
    <2>1. n + 1 \in 1 .. Len(list)
      OBVIOUS
    <2>2. saved \in SavedClip /\ saved.index = (n + 1) - 1
      BY <2>1 DEF AsSaved
    <2>. QED BY <2>1, <2>2 DEF SavedClip
  <1>2. CASE n >= V
    <2>1. t = s
      BY <1>1, <1>2 DEF loadClip
    <2>2. least(n + 1, V) = least(n, V)
      BY <1>0, <1>2 DEF least
    <2>. QED BY <2>1, <2>2 DEF Filled, Others
  <1>3. CASE ~(n >= V)
    <2>. DEFINE v == s.visuals[n + 1]
    <2>1. t = addClip(s, x, v, saved.cell) /\ v \in VisualIds
      BY <1>0, <1>1, <1>3 DEF loadClip
    <2>2. IsInjective(q)
      BY <1>0 DEF Good, Owned
    <2>3. ~(addClip(s, x, v, saved.cell) = hitsBound(s)) /\ ~addClip(s, x, v, saved.cell).undefined
      BY <1>0, <2>1, BoundSame DEF Going
    <2>4. PICK k \in ClipIds : FreshClip(s, x, k, saved.cell) /\ ClipAdded(s, t, x, k, v, saved.cell)
      BY <1>0, <1>1, <2>1, <2>2, <2>3, AddClipEffect
    <2>. HIDE DEF t
    <2>5. Len(q) = n /\ least(n + 1, V) = n + 1
      BY <1>0, <1>3 DEF least, Filled
    <2>6. \A j \in ToSet(q) : s.clip[j].cell # saved.cell
      <3>0. ToSet(q) = {q[m] : m \in 1 .. Len(q)}
        BY <1>0 DEF ToSet
      <3>. SUFFICES ASSUME NEW m \in 1 .. Len(q) PROVE s.clip[q[m]].cell # saved.cell
        BY <3>0
      <3>1. m \in 1 .. Len(list) /\ m # n + 1
        BY <1>0, <1>1, <2>5
      <3>2. s.clip[q[m]].cell = list[m].cell
        BY DEF Filled
      <3>. QED BY <1>1, <3>1, <3>2 DEF AsSaved
    <2>7. withoutCell(s, x, saved.cell) = q
      BY <1>0, <2>2, <2>6, WithoutCell
    <2>8. k \notin ToSet(q) /\ \A y \in SceneIds \ {x} : k \notin ToSet(s.clipsOf[y])
      BY <2>4, <2>7 DEF FreshClip
    <2>9. /\ t.clipsOf = [s.clipsOf EXCEPT ![x] = Append(q, k)]
          /\ t.clip = [s.clip EXCEPT ![k] = [visual |-> v, cell |-> saved.cell]]
          /\ t.visuals = s.visuals /\ t.source = s.source /\ t.scenes = s.scenes
          /\ t.full = s.full /\ t.undefined = s.undefined
      BY <2>4, <2>7 DEF ClipAdded
    <2>10. s.clipsOf \in [SceneIds -> Seq(ClipIds)]
           /\ s.clip \in [ClipIds -> [visual : VisualIds \cup {NULL}, cell : Nat \X Nat]]
      BY <1>0, Fields
    <2>11. t.clipsOf[x] = Append(q, k) /\ \A y \in SceneIds \ {x} : t.clipsOf[y] = s.clipsOf[y]
      BY <1>0, <2>9, <2>10
    <2>. HIDE DEF v, saved
    <2>12. t.clip[k].visual = v /\ t.clip[k].cell = saved.cell /\ \A j \in ClipIds \ {k} : t.clip[j] = s.clip[j]
      BY <2>9, <2>10
    <2>13. Others(s, t, x)
      <3>1. \A y \in SceneIds : ToSet(s.clipsOf[y]) \subseteq ClipIds
        BY <2>10, ToSetIn
      <3>. QED BY <2>8, <2>9, <2>11, <2>12, <3>1 DEF Others
    <2>14. Filled(t, x, list, n + 1)
      <3>1. /\ Len(t.clipsOf[x]) = n + 1 /\ t.clipsOf[x][n + 1] = k
            /\ \A m \in 1 .. n : t.clipsOf[x][m] = q[m] /\ q[m] \in ClipIds /\ q[m] # k
        BY <1>0, <2>5, <2>8, <2>11, AppendFresh, ToSetIn
      <3>2. \A m \in 1 .. n + 1 : m \in 1 .. n \/ m = n + 1
        OBVIOUS
      <3>3. \A m \in 1 .. n : /\ t.clip[t.clipsOf[x][m]].cell = list[m].cell
                              /\ t.clip[t.clipsOf[x][m]].visual = t.visuals[m]
        <4>. SUFFICES ASSUME NEW m \in 1 .. n
                     PROVE  /\ t.clip[q[m]].cell = list[m].cell
                            /\ t.clip[q[m]].visual = t.visuals[m]
          BY <3>1
        <4>1. t.clip[q[m]] = s.clip[q[m]]
          BY <2>12, <3>1
        <4>2. s.clip[q[m]].cell = list[m].cell /\ s.clip[q[m]].visual = s.visuals[m]
          BY <2>5 DEF Filled
        <4>. QED BY <2>9, <4>1, <4>2
      <3>4. /\ t.clip[t.clipsOf[x][n + 1]].cell = list[n + 1].cell
            /\ t.clip[t.clipsOf[x][n + 1]].visual = t.visuals[n + 1]
        BY <2>9, <2>12, <3>1 DEF v, saved
      <3>. QED BY <2>5, <2>9, <3>1, <3>2, <3>3, <3>4 DEF Filled
    <2>15. Going(t)
      BY DEF t, saved
    <2>16. Going(s)
      BY <2>9, <2>15 DEF Going
    <2>. QED BY <2>13, <2>14, <2>16 DEF t, saved
  <1>. QED BY <1>2, <1>3

\* A bound that was hit, or an undefined access, stays.
LEMMA LoadClipGoing ==
    ASSUME NEW s, NEW b, Good(s, b), NEW x \in ToSet(s.scenes), NEW saved \in SavedClip,
           Going(loadClip(s, x, saved))
    PROVE  Going(s)
  <1>0. s \in State
    BY DEF Good
  <1>1. CASE saved.index >= Len(s.visuals)
    BY <1>1 DEF loadClip
  <1>2. CASE ~(saved.index >= Len(s.visuals))
    <2>. DEFINE v == s.visuals[saved.index + 1]
    <2>1. loadClip(s, x, saved) = addClip(s, x, v, saved.cell)
      BY <1>2 DEF loadClip
    <2>2. x \in SceneIds /\ v \in VisualIds /\ saved.cell \in Nat \X Nat
      <3>1. s.visuals \in Seq(VisualIds) /\ saved.index + 1 \in 1 .. Len(s.visuals)
        BY <1>0, <1>2, Fields DEF SavedClip
      <3>2. x \in SceneIds
        BY <1>0, Fields, ToSetIn
      <3>. QED BY <3>1, <3>2 DEF SavedClip
    <2>. HIDE DEF v
    <2>3. IsInjective(s.clipsOf[x])
      BY <2>2 DEF Good, Owned
    <2>4. ASSUME NEW t, NEW k, ClipAdded(s, t, x, k, v, saved.cell)
          PROVE  t.full = s.full /\ t.undefined = s.undefined
      BY <2>4 DEF ClipAdded
    <2>. QED BY <1>0, <2>1, <2>2, <2>3, <2>4, AddClipEffect, BoundSame DEF Going
  <1>. QED BY <1>1, <1>2

\* Loading the clips of a file fills the scene.
LEMMA LoadClipsSaved ==
    ASSUME NEW s, Good(s, {}), NEW x \in ToSet(s.scenes), s.clipsOf[x] = <<>>,
           NEW list \in Seq(SavedClip), AsSaved(list), Going(loadClips(s, x, list))
    PROVE  /\ Going(s)
           /\ Filled(loadClips(s, x, list), x, list, Len(list))
           /\ Others(s, loadClips(s, x, list), x)
  <1>. DEFINE N == Len(list)
  <1>0. N \in Nat /\ Len(list) = N
    OBVIOUS
  <1>. HIDE DEF N
  <1>1. PICK f : loadClips(s, x, list) = f[N] /\ LoadClipsRun(f, s, x, list, N)
    BY <1>0, LoadClipsRuns
  <1>. DEFINE Q(n) == /\ Good(f[n], {}) /\ f[n].scenes = s.scenes
                      /\ Going(f[n]) => Going(s) /\ Filled(f[n], x, list, n) /\ Others(s, f[n], x)
              P == {n \in Nat : n <= N => Q(n)}
  <1>2. 0 \in P
    <2>1. Filled(s, x, list, 0)
      <3>1. Len(s.visuals) \in Nat
        BY Fields DEF Good
      <3>. QED BY <3>1 DEF Filled, least
    <2>. QED BY <2>1, <1>1 DEF LoadClipsRun, Others
  <1>3. ASSUME NEW n \in P PROVE n + 1 \in P
    <2>. SUFFICES ASSUME n + 1 <= N PROVE Q(n + 1)
      OBVIOUS
    <2>1. Q(n) /\ n \in Nat /\ n + 1 \in 1 .. N
      BY <1>0
    <2>2. list[n + 1] \in SavedClip
      BY <1>0, <2>1
    <2>3. f[n + 1] = loadClip(f[n], x, list[n + 1])
      BY <1>1, <2>1 DEF LoadClipsRun
    <2>4. Good(f[n + 1], {}) /\ f[n + 1].scenes = s.scenes
      BY <2>1, <2>2, <2>3, LoadClipGood
    <2>5. ASSUME Going(f[n + 1]) PROVE Going(s) /\ Filled(f[n + 1], x, list, n + 1) /\ Others(s, f[n + 1], x)
      <3>0. Going(f[n])
        <4>1. f[n] \in State
          BY <2>1 DEF Good
        <4>. QED BY <2>1, <2>2, <2>3, <2>5, <4>1, LoadClipGoing
      <3>1. Going(s) /\ Filled(f[n], x, list, n) /\ Others(s, f[n], x)
        BY <3>0, <2>1
      <3>2. Filled(f[n + 1], x, list, n + 1) /\ Others(f[n], f[n + 1], x)
        BY <1>0, <2>1, <2>3, <2>5, <3>1, LoadClipStep
      <3>. QED BY <3>1, <3>2, OthersTrans
    <2>. QED BY <2>4, <2>5
  <1>4. P = Nat
    <2>1. P \in SUBSET Nat
      OBVIOUS
    <2>. HIDE DEF P
    <2>. QED BY <1>2, <1>3, <2>1, Counting
  <1>. QED BY <1>0, <1>1, <1>4

\* A filled scene would be saved as reopenedClips says.
LEMMA FilledSaved ==
    ASSUME NEW s \in State, NEW x \in SceneIds, NEW list \in Seq(SavedClip), Filled(s, x, list, Len(list))
    PROVE  savedClips(s, x) = reopenedClips(Sources(s), list)
  <1>. DEFINE q == s.clipsOf[x]
              m == least(Len(list), Len(s.visuals))
  <1>0. s.visuals \in Seq(VisualIds) /\ q \in Seq(ClipIds) /\ Len(s.visuals) \in Nat /\ Len(list) \in Nat
    BY Fields
  <1>1. Len(Sources(s)) = Len(s.visuals)
    BY <1>0 DEF Sources
  <1>2. Len(q) = m /\ m \in Nat /\ m <= Len(s.visuals)
    BY <1>0 DEF Filled, least
  <1>3. reopenedClips(Sources(s), list)
           = [k \in 1 .. m |-> [index |-> k - 1, cell |-> list[k].cell, visual |-> Sources(s)[k]]]
    BY <1>1 DEF reopenedClips
  <1>4. savedClips(s, x) = [k \in 1 .. m |-> [index |-> k - 1, cell |-> s.clip[q[k]].cell,
                                              visual |-> s.source[s.clip[q[k]].visual]]]
    BY <1>2 DEF savedClips
  <1>5. \A k \in 1 .. m : s.clip[q[k]].cell = list[k].cell /\ s.clip[q[k]].visual = s.visuals[k]
    BY <1>2 DEF Filled
  <1>6. \A k \in 1 .. m : Sources(s)[k] = s.source[s.visuals[k]]
    BY <1>0, <1>2 DEF Sources
  <1>. HIDE DEF q, m
  <1>. QED BY <1>3, <1>4, <1>5, <1>6

\* The scenes as they would be saved.
Saved(s) == [n \in 1 .. Len(s.scenes) |-> savedClips(s, s.scenes[n])]

\* t would be saved as s with one scene more.
SceneSaved(s, t, list) ==
    /\ Sources(t) = Sources(s)
    /\ Len(t.scenes) = Len(s.scenes) + 1
    /\ \A n \in 1 .. Len(s.scenes) : savedClips(t, t.scenes[n]) = savedClips(s, s.scenes[n])
    /\ savedClips(t, t.scenes[Len(s.scenes) + 1]) = reopenedClips(Sources(s), list)

\* Loading a scene adds it to what would be saved.
LEMMA LoadSceneSaved ==
    ASSUME NEW s, Good(s, {}), NEW list \in Seq(SavedClip), AsSaved(list), Going(loadScene(s, list))
    PROVE  Going(s) /\ SceneSaved(s, loadScene(s, list), list)
  <1>. DEFINE u == newScene(s)
              t == loadScene(s, list)
              L == Len(s.scenes)
  <1>0. s \in State /\ s.scenes \in Seq(SceneIds) /\ L \in Nat
    BY Fields DEF Good
  <1>1. ~u.full /\ t = loadClips(u, Last(u.scenes), list)
    BY LoadSceneIs DEF Going
  <1>2. PICK x \in SceneIds \ inUse(s) : SceneAdded(s, u, x)
    BY <1>0, <1>1, NewSceneEffect, BoundSame
  <1>3. Good(u, {}) /\ x \in ToSet(u.scenes)
    BY <1>2, SceneAddedGood
  <1>. HIDE DEF u
  <1>4. /\ u.scenes = Append(s.scenes, x) /\ u.visuals = s.visuals /\ u.source = s.source /\ u.clip = s.clip
        /\ u.clipsOf = [s.clipsOf EXCEPT ![x] = <<>>] /\ u.full = s.full /\ u.undefined = s.undefined
    BY <1>2 DEF SceneAdded
  <1>5. /\ Len(u.scenes) = L + 1 /\ u.scenes[L + 1] = x
        /\ \A n \in 1 .. L : u.scenes[n] = s.scenes[n] /\ s.scenes[n] \in SceneIds \ {x}
    <2>1. \A n \in 1 .. L : s.scenes[n] \in SceneIds /\ s.scenes[n] # x
      BY <1>0, <1>2, ToSetIn DEF inUse
    <2>. QED BY <1>0, <1>2, <1>4, <2>1, AppendFresh
  <1>6. Last(u.scenes) = x
    BY <1>5 DEF Last
  <1>7. s.clipsOf \in [SceneIds -> Seq(ClipIds)]
    BY <1>0, Fields
  <1>8. u.clipsOf[x] = <<>> /\ \A y \in SceneIds \ {x} : u.clipsOf[y] = s.clipsOf[y]
    BY <1>2, <1>4, <1>7
  <1>9. Going(u) /\ Filled(t, x, list, Len(list)) /\ Others(u, t, x)
    BY <1>1, <1>3, <1>6, <1>8, LoadClipsSaved
  <1>10. Good(t, {})
    BY LoadSceneGood
  <1>. HIDE DEF t
  <1>11. Sources(t) = Sources(s) /\ t.scenes = u.scenes
    BY <1>4, <1>9 DEF Sources, Others
  <1>12. savedClips(t, x) = reopenedClips(Sources(s), list)
    BY <1>2, <1>9, <1>10, <1>11, FilledSaved DEF Good
  <1>13. ASSUME NEW y \in SceneIds \ {x} PROVE savedClips(t, y) = savedClips(s, y)
    <2>1. t.clipsOf[y] = s.clipsOf[y] /\ t.source = s.source
      BY <1>4, <1>8, <1>9 DEF Others
    <2>2. s.clipsOf[y] \in Seq(ClipIds)
      BY <1>7
    <2>3. \A k \in 1 .. Len(s.clipsOf[y]) : t.clip[s.clipsOf[y][k]] = s.clip[s.clipsOf[y][k]]
      BY <1>4, <1>8, <1>9, <2>2, ToSetIn DEF Others
    <2>. QED BY <2>1, <2>3 DEF savedClips
  <1>14. Going(s)
    BY <1>4, <1>9 DEF Going
  <1>15. SceneSaved(s, t, list)
    BY <1>5, <1>11, <1>12, <1>13 DEF SceneSaved
  <1>. QED BY <1>14, <1>15 DEF t

\* Loading all scenes of a file.
LEMMA LoadScenesSaved ==
    ASSUME NEW s, Good(s, {}), s.scenes = <<>>, NEW list \in Seq(Seq(SavedClip)),
           \A n \in 1 .. Len(list) : AsSaved(list[n]),
           Going(loadScenes(s, list))
    PROVE  /\ Going(s) /\ Sources(loadScenes(s, list)) = Sources(s)
           /\ Saved(loadScenes(s, list)) = [n \in 1 .. Len(list) |-> reopenedClips(Sources(s), list[n])]
  <1>. DEFINE N == Len(list)
  <1>0. N \in Nat /\ Len(list) = N
    OBVIOUS
  <1>. HIDE DEF N
  <1>1. PICK f : loadScenes(s, list) = f[N] /\ LoadScenesRun(f, s, list, N)
    BY <1>0, LoadScenesRuns
  <1>. DEFINE R(n) == /\ Going(s) /\ Sources(f[n]) = Sources(s) /\ Len(f[n].scenes) = n
                      /\ \A m \in 1 .. n : savedClips(f[n], f[n].scenes[m]) = reopenedClips(Sources(s), list[m])
              P == {n \in Nat : n <= N => Good(f[n], {}) /\ (Going(f[n]) => R(n))}
  <1>2. 0 \in P
    BY <1>1 DEF LoadScenesRun
  <1>3. ASSUME NEW n \in P PROVE n + 1 \in P
    <2>. SUFFICES ASSUME n + 1 <= N PROVE Good(f[n + 1], {}) /\ (Going(f[n + 1]) => R(n + 1))
      OBVIOUS
    <2>1. Good(f[n], {}) /\ (Going(f[n]) => R(n)) /\ n \in Nat /\ n + 1 \in 1 .. N
      BY <1>0
    <2>2. list[n + 1] \in Seq(SavedClip) /\ AsSaved(list[n + 1])
      BY <1>0, <2>1
    <2>3. f[n + 1] = loadScene(f[n], list[n + 1])
      BY <1>1, <2>1 DEF LoadScenesRun
    <2>4. Good(f[n + 1], {})
      BY <2>1, <2>2, <2>3, LoadSceneGood
    <2>5. ASSUME Going(f[n + 1]) PROVE R(n + 1)
      <3>1. Going(f[n]) /\ SceneSaved(f[n], f[n + 1], list[n + 1])
        BY <2>1, <2>2, <2>3, <2>5, LoadSceneSaved
      <3>2. R(n)
        BY <2>1, <3>1
      <3>3. \A m \in 1 .. n + 1 : m \in 1 .. n \/ m = n + 1
        BY <2>1
      <3>. QED BY <3>1, <3>2, <3>3 DEF SceneSaved
    <2>. QED BY <2>4, <2>5
  <1>4. Going(f[N]) => R(N)
    <2>1. P \in SUBSET Nat
      OBVIOUS
    <2>. HIDE DEF P
    <2>2. P = Nat
      BY <1>2, <1>3, <2>1, Counting
    <2>. QED BY <1>0, <2>2 DEF P
  <1>. QED BY <1>0, <1>1, <1>4 DEF Saved

\* The parts a file has.
Everything == {"visuals", "layers", "scenes"}

\* Opening a file with both lists leaves what reopened says.
LEMMA ReopenSaved ==
    ASSUME NEW s, NEW b, Good(s, b), NEW file \in File, file.visuals # <<>>, file.scenes # <<>>,
           \A n \in 1 .. Len(file.scenes) : AsSaved(file.scenes[n]),
           Going(setState(s, file, Everything))
    PROVE  /\ Good(setState(s, file, Everything), {})
           /\ getState(setState(s, file, Everything)) = reopened(file)
  <1>. DEFINE c == b \cup {"visuals"}
              e == emptyVisuals(s)
              a == loadVisuals(e, file.visuals)
              l == emptyLayers(a)
              z == emptyScenes(l)
              u == loadScenes(z, file.scenes)
  <1>0. file.visuals \in Seq(Source) /\ file.scenes \in Seq(Seq(SavedClip))
    BY FileTyped
  <1>1. setState(s, file, Everything) = u
    BY SetVisualsIs, SetScenesIs DEF setState, Everything
  <1>2. Good(e, c) /\ e.visuals = <<>>
    <2>1. Good(s, c)
      BY Weaken
    <2>2. Good(e, c)
      BY <2>1, EmptyVisualsGood
    <2>3. s \in State
      BY DEF Good
    <2>. QED BY <2>2, <2>3, EmptyVisualsEffect DEF VisualsEmptied
  <1>. HIDE DEF e
  <1>3. Good(a, c) /\ (~a.full => Sources(a) = videos(file.visuals))
    BY <1>0, <1>2, LoadVisualsGood, LoadVisualsSaved
  <1>. HIDE DEF a, c
  <1>4. Good(l, c) /\ LayersEmptied(a, l)
    <2>1. a \in State
      BY <1>3 DEF Good
    <2>. QED BY <1>3, <2>1, EmptyLayersGood, EmptyLayersEffect
  <1>. HIDE DEF l
  <1>5. Good(z, {}) /\ ScenesEmptied(l, z)
    <2>1. \A m \in Layer : l.active[m] = NULL
      BY <1>4 DEF LayersEmptied
    <2>. QED BY <1>4, <2>1, EmptyScenesGood
  <1>. HIDE DEF z
  <1>6. z.scenes = <<>> /\ z.full = a.full /\ Sources(z) = Sources(a)
    BY <1>4, <1>5 DEF LayersEmptied, ScenesEmptied, Sources
  <1>7. Good(u, {})
    BY <1>0, <1>5, LoadScenesGood
  <1>8. /\ Going(z) /\ Sources(u) = Sources(z)
        /\ Saved(u) = [n \in 1 .. Len(file.scenes) |-> reopenedClips(Sources(z), file.scenes[n])]
    <2>1. Going(u)
      BY <1>1
    <2>. HIDE DEF u
    <2>2. Going(loadScenes(z, file.scenes))
      BY <2>1 DEF u
    <2>3. /\ Going(z) /\ Sources(loadScenes(z, file.scenes)) = Sources(z)
          /\ Saved(loadScenes(z, file.scenes))
                = [n \in 1 .. Len(file.scenes) |-> reopenedClips(Sources(z), file.scenes[n])]
      BY <1>0, <1>5, <1>6, <2>2, LoadScenesSaved
    <2>. QED BY <2>3 DEF u
  <1>. HIDE DEF u
  <1>9. Sources(z) = videos(file.visuals)
    BY <1>3, <1>6, <1>8 DEF Going
  <1>10. getState(u) = [visuals |-> Sources(u), scenes |-> Saved(u)]
    BY DEF getState, Sources, Saved
  <1>. QED BY <1>1, <1>7, <1>8, <1>9, <1>10 DEF reopened

-----------------------------------------------------------------------------
(* The invariant, call by call.                                            *)

\* The state a call leaves is that of a set as the file would be opened.
Faithful(t) == Going(t) /\ t.opened => Good(t, {}) /\ getState(t) = reopened(disk)

\* The inductive invariant.  Two conjuncts are about opening: a set that was opened is
\* the one its file says, and files hold clips the way they are saved.
IInv ==
    /\ Good(st, broken)
    /\ st.opened => Good(st, {}) /\ getState(st) = reopened(disk)
    /\ disk \in File
    /\ \A n \in 1 .. Len(disk.scenes) : AsSaved(disk.scenes[n])
    /\ broken \subseteq {"emptied", "visuals", "layers"}
    /\ host \in Hosts

\* It holds at the start.
LEMMA Initially == Init => IInv
  <1>. SUFFICES ASSUME Init PROVE IInv
    OBVIOUS
  <1>1. ~st.opened
    BY DEF Init, Start
  <1>. QED BY <1>1, StartGood, FileAssumption DEF Init, IInv

\* What tidy leaves.
LEMMA StepFaithful ==
    ASSUME NEW t \in State, Faithful(t), step(t)
    PROVE  st'.opened => Good(st', {}) /\ getState(st') = reopened(disk)
  <1>1. CASE t.undefined
    <2>1. st' = Undefined
      BY <1>1 DEF step
    <2>2. ~Undefined.opened
      BY DEF Undefined, Start
    <2>. QED BY <2>1, <2>2
  <1>2. CASE ~t.undefined
    <2>1. st' = tidy(t) /\ Going(t)
      BY <1>2 DEF step, Going
    <2>2. tidy(t).opened = t.opened
      BY TidyEffect DEF Tidied
    <2>. QED BY <2>1, <2>2, TidyGood, TidySaved DEF Faithful
  <1>. QED BY <1>1, <1>2

\* What a step has to establish.
LEMMA StepKeeps ==
    ASSUME IInv, NEW t, Good(t, broken'), Faithful(t), step(t), UNCHANGED <<disk, host>>,
           broken' \subseteq {"emptied", "visuals", "layers"}
    PROVE  IInv'
  <1>1. Good(st', broken')
    BY StepGood
  <1>2. t \in State
    BY DEF Good
  <1>3. st'.opened => Good(st', {}) /\ getState(st') = reopened(disk')
    BY <1>2, StepFaithful
  <1>. QED BY <1>1, <1>3 DEF IInv

\* What a call that leaves nothing behind has to establish.
LEMMA CallKeeps ==
    ASSUME IInv, NEW t, Good(t, broken), Faithful(t), call(t), UNCHANGED host
    PROVE  IInv'
  <1>1. step(t) /\ broken' = broken /\ disk' = disk
    BY DEF call
  <1>2. Good(t, broken') /\ broken' \subseteq {"emptied", "visuals", "layers"}
    BY <1>1 DEF IInv
  <1>. QED BY <1>1, <1>2, StepKeeps

\* A call that changes nothing that is saved.
LEMMA KeptFaithful ==
    ASSUME IInv, NEW t, Kept(st, t)
    PROVE  Good(t, broken) /\ Faithful(t)
  BY SameSaved DEF IInv, Kept, Faithful

\* Such a call keeps the invariant.
LEMMA KeptKeeps ==
    ASSUME IInv, UNCHANGED host, \E t : call(t) /\ Kept(st, t)
    PROVE  IInv'
  BY KeptFaithful, CallKeeps

\* A run that becomes undefined in Visuals::empty.
LEMMA IteratorLostKeeps ==
    ASSUME IInv, iteratorLost, UNCHANGED host
    PROVE  IInv'
  <1>1. ~Undefined.opened
    BY DEF Undefined, Start
  <1>. QED BY <1>1, UndefinedGood DEF IInv, iteratorLost

\* Adding ends what was opened.
LEMMA AddingEdits ==
    ASSUME NEW s \in State
    PROVE  /\ \A file \in Source : ~addVisual(s, file).full => ~addVisual(s, file).opened
           /\ ~newScene(s).full => ~newScene(s).opened
           /\ \A x \in SceneIds, v \in VisualIds, cell \in Nat \X Nat :
                 IsInjective(s.clipsOf[x]) /\ Going(addClip(s, x, v, cell)) =>
                    ~addClip(s, x, v, cell).opened
  <1>1. ASSUME NEW file \in Source, ~addVisual(s, file).full PROVE ~addVisual(s, file).opened
    BY <1>1, AddVisualEffect, BoundSame DEF VisualAdded
  <1>2. ~newScene(s).full => ~newScene(s).opened
    BY NewSceneEffect, BoundSame DEF SceneAdded
  <1>3. ASSUME NEW x \in SceneIds, NEW v \in VisualIds, NEW cell \in Nat \X Nat,
               IsInjective(s.clipsOf[x]), Going(addClip(s, x, v, cell))
        PROVE  ~addClip(s, x, v, cell).opened
    <2>. DEFINE t == addClip(s, x, v, cell)
    <2>1. t # hitsBound(s) /\ ~t.undefined
      BY <1>3, BoundSame DEF Going
    <2>2. \E k \in ClipIds : ClipAdded(s, t, x, k, v, cell)
      BY <1>3, <2>1, AddClipEffect
    <2>. HIDE DEF t
    <2>3. ~t.opened
      BY <2>2 DEF ClipAdded
    <2>. QED BY <2>3 DEF t
  <1>. QED BY <1>1, <1>2, <1>3

\* A live current scene is in the list.
LEMMA LiveSceneInList ==
    ASSUME NEW s, NEW b, Good(s, b), s.current \notin s.freed \cup {NULL}
    PROVE  s.current \in ToSet(s.scenes) /\ s.current \in SceneIds
  <1>1. s.number \in Nat /\ s.scenes \in Seq(SceneIds) /\ s.current \in SceneIds \cup {NULL}
    BY Fields DEF Good
  <1>. QED BY <1>1 DEF Good, Numbered, ToSet

\* A visual is added.
LEMMA AddVisualKeeps ==
    ASSUME IInv, UNCHANGED host, NEW file \in Source, call(addVisual(st, file))
    PROVE  IInv'
  <1>1. st \in State /\ Good(addVisual(st, file), broken)
    BY AddVisualGood DEF IInv, Good
  <1>2. Faithful(addVisual(st, file))
    BY <1>1, AddingEdits DEF Faithful, Going
  <1>. QED BY <1>1, <1>2, CallKeeps

\* Visuals::addVideo and its like, addVisualToScene and removeVisualFromScene.
LEMMA BuildKeeps == ASSUME IInv, Build, UNCHANGED host PROVE IInv'
  <1>0. Good(st, broken) /\ st \in State
    BY DEF IInv, Good
  <1>1. ASSUME NEW file \in host.files, AddVideo(file) PROVE IInv'
    <2>1. file \in Source
      BY IdsAssumption DEF IInv, Source
    <2>. QED BY <2>1, <1>0, <1>1, AddVisualKeeps DEF AddVideo
  <1>2. ASSUME NEW file \in host.files, AddVisualVideoToListFromFile(file) PROVE IInv'
    <2>1. file \in Source
      BY IdsAssumption DEF IInv, Source
    <2>. QED BY <2>1, <1>0, <1>2, AddVisualKeeps DEF AddVisualVideoToListFromFile
  <1>3. ASSUME AddVisualCameraToList PROVE IInv'
    BY <1>3, AddVisualKeeps DEF AddVisualCameraToList, Source
  <1>4. ASSUME NEW cell \in Cell, NEW n \in 1 .. Len(st.visuals), AddVisualToScene(n, cell)
        PROVE  IInv'
    <2>. DEFINE t == touch(st, {st.current})
                u == IF t.undefined THEN t ELSE addClip(t, st.current, st.visuals[n], cell)
    <2>1. Same(st, t) /\ (~t.undefined => st.current \notin st.freed \cup {NULL})
      BY <1>0, TouchSame
    <2>2. Good(t, broken)
      BY <1>0, <2>1, SameGood
    <2>3. call(u)
      BY <1>4 DEF AddVisualToScene
    <2>. HIDE DEF t
    <2>4. ASSUME ~t.undefined
          PROVE  /\ Good(addClip(t, st.current, st.visuals[n], cell), broken)
                 /\ Faithful(addClip(t, st.current, st.visuals[n], cell))
      <3>1. st.current \in ToSet(t.scenes) /\ st.current \in SceneIds
        BY <1>0, <2>1, <2>4, LiveSceneInList DEF Same
      <3>2. st.visuals[n] \in ToSet(t.visuals) /\ st.visuals[n] \in VisualIds /\ cell \in Nat \X Nat
        BY <1>0, <2>1, Fields, ToSetIn, CellsAreNumbers DEF Same
      <3>3. t \in State /\ IsInjective(t.clipsOf[st.current])
        BY <2>2, <3>1 DEF Good, Owned
      <3>. QED BY <2>2, <3>1, <3>2, <3>3, AddClipGood, AddingEdits DEF Faithful
    <2>5. Good(u, broken) /\ Faithful(u)
      BY <2>2, <2>4 DEF Faithful, Going
    <2>. QED BY <2>3, <2>5, CallKeeps
  <1>5. ASSUME NEW cell \in Cell, NEW selected \in BOOLEAN, RemoveVisualFromScene(cell, selected)
        PROVE  IInv'
    <2>. DEFINE l == cell[1]
                r == touchClips(st, {st.active[l]})
                t == IF selected /\ st.active[l] # NULL THEN [r EXCEPT !.active[l] = NULL] ELSE st
                u == touch(t, {st.current})
                w == touch(u, ToSet(u.clipsOf[st.current]))
                z == [w EXCEPT !.clipsOf[st.current] = withoutCell(u, st.current, cell),
                               !.opened = FALSE]
    <2>0. l \in Layer
      BY CellsAreNumbers
    <2>1. call(IF u.undefined THEN u ELSE IF w.undefined THEN w ELSE z)
      BY <1>5 DEF RemoveVisualFromScene
    <2>2. Good(t, broken) /\ t.current = st.current
      <3>1. Same(st, r)
        BY <1>0, TouchClipsSame
      <3>2. Good(r, broken) /\ r \in State
        BY <1>0, <3>1, SameGood DEF Same
      <3>. DEFINE a == [r EXCEPT !.active[l] = NULL]
      <3>. HIDE DEF r
      <3>3. /\ a \in State
            /\ a.active = [r.active EXCEPT ![l] = NULL]
            /\ a.visuals = r.visuals /\ a.scenes = r.scenes /\ a.clipsOf = r.clipsOf
            /\ a.clip = r.clip /\ a.current = r.current /\ a.number = r.number /\ a.freed = r.freed
        <4>1. [r.active EXCEPT ![l] = NULL] \in [Layer -> ClipIds \cup {NULL}]
          BY <3>2, <2>0, Fields
        <4>. QED BY <4>1, <3>2 DEF State
      <3>4. a.current = st.current
        BY <3>1, <3>3 DEF Same
      <3>. HIDE DEF a
      <3>5. Lists(a) /\ Owned(a) /\ Cells(a) /\ Numbered(a) /\ Clips(a, broken)
        BY <3>2, <3>3 DEF Good, Lists, Owned, Cells, Numbered, Clips, clipsIn
      <3>6. Shown(a, broken)
        <4>1. NULL \notin r.freed /\ r.active \in [Layer -> ClipIds \cup {NULL}]
          BY <3>2, Fields, Kinds
        <4>. QED BY <4>1, <3>2, <3>3, <2>0 DEF Good, Shown
      <3>7. Good(a, broken)
        BY <3>3, <3>5, <3>6 DEF Good
      <3>. QED BY <3>4, <3>7, <1>0 DEF a, r
    <2>. HIDE DEF t
    <2>3. Same(t, u) /\ Good(u, broken) /\ (~u.undefined => st.current \notin u.freed \cup {NULL})
          /\ u.current = st.current
      <3>1. t \in State
        BY <2>2 DEF Good
      <3>2. Same(t, u) /\ (~u.undefined => st.current \notin t.freed \cup {NULL})
        BY <3>1, TouchSame
      <3>. QED BY <3>2, <2>2, SameGood DEF Same
    <2>. HIDE DEF u
    <2>4. Same(u, w) /\ Good(w, broken)
      <3>1. u \in State
        BY <2>3 DEF Good
      <3>2. Same(u, w)
        BY <3>1, TouchSame
      <3>. QED BY <3>2, <2>3, SameGood
    <2>. HIDE DEF w
    <2>5. ASSUME ~u.undefined PROVE Good(z, broken) /\ ~z.opened
      <3>. DEFINE x == st.current
                  left == withoutCell(u, x, cell)
      <3>1. x \in SceneIds /\ x \in ToSet(u.scenes) /\ u \in State /\ w \in State
        BY <2>3, <2>4, <2>5, LiveSceneInList DEF Good
      <3>2. left \in Seq(ClipIds) /\ IsInjective(left) /\ ToSet(left) \subseteq ToSet(u.clipsOf[x])
        <4>1. IsInjective(u.clipsOf[x])
          BY <2>3, <3>1 DEF Good, Owned
        <4>. QED BY <4>1, <3>1, WithoutCell
      <3>. HIDE DEF left
      <3>3. [w.clipsOf EXCEPT ![x] = left] \in [SceneIds -> Seq(ClipIds)] /\ w.clipsOf \in [SceneIds -> Seq(ClipIds)]
        BY <3>1, <3>2, Fields
      <3>4. z = [w EXCEPT !.clipsOf = [w.clipsOf EXCEPT ![x] = left], !.opened = FALSE]
        BY DEF left
      <3>5. /\ z \in State /\ ~z.opened
            /\ z.clipsOf = [w.clipsOf EXCEPT ![x] = left]
            /\ z.visuals = w.visuals /\ z.scenes = w.scenes /\ z.active = w.active
            /\ z.clip = w.clip /\ z.current = w.current /\ z.number = w.number /\ z.freed = w.freed
        BY <3>1, <3>3, <3>4 DEF State
      <3>. HIDE DEF z
      <3>6. /\ z.clipsOf[x] = left
            /\ \A y \in SceneIds \ {x} : z.clipsOf[y] = w.clipsOf[y]
            /\ ToSet(left) \subseteq ToSet(w.clipsOf[x])
        BY <2>4, <3>2, <3>3, <3>5 DEF Same
      <3>7. \A y \in SceneIds : ToSet(z.clipsOf[y]) \subseteq ToSet(w.clipsOf[y])
        BY <3>6
      <3>8. clipsIn(z) \subseteq clipsIn(w)
        BY <3>7 DEF clipsIn
      <3>9. Lists(z) /\ Numbered(z) /\ Shown(z, broken)
        BY <2>4, <3>5 DEF Good, Lists, Numbered, Shown
      <3>10. Owned(z)
        BY <2>4, <3>1, <3>2, <3>5, <3>6 DEF Good, Owned, Same
      <3>11. Cells(z)
        BY <2>4, <3>5, <3>7 DEF Good, Cells
      <3>12. Clips(z, broken)
        BY <2>4, <3>5, <3>8 DEF Good, Clips
      <3>. QED BY <3>5, <3>9, <3>10, <3>11, <3>12 DEF Good
    <2>. HIDE DEF z
    <2>6. /\ Good(IF u.undefined THEN u ELSE IF w.undefined THEN w ELSE z, broken)
          /\ Faithful(IF u.undefined THEN u ELSE IF w.undefined THEN w ELSE z)
      BY <2>3, <2>4, <2>5 DEF Faithful, Going
    <2>. QED BY <2>1, <2>6, CallKeeps
  <1>. QED BY <1>1, <1>2, <1>3, <1>4, <1>5 DEF Build
\* Set::addScene and the choice of a scene.
LEMMA NavigateKeeps == ASSUME IInv, Navigate, UNCHANGED host PROVE IInv'
  <1>0. Good(st, broken) /\ st \in State
    BY DEF IInv, Good
  <1>1. ASSUME AddScene PROVE IInv'
    <2>1. Good(newScene(st), broken) /\ Faithful(newScene(st))
      BY <1>0, NewSceneGood, AddingEdits DEF Faithful, Going
    <2>. QED BY <1>1, <2>1, CallKeeps DEF AddScene
  <1>. QED BY <1>0, <1>1, SceneChosenKept, KeptKeeps DEF Navigate

\* Playing, drawing and cleaning up.
LEMMA ShowKeeps ==
    ASSUME IInv, UNCHANGED host, Render \/ Cleanup \/ \E cell \in Cell : Play(cell)
    PROVE  IInv'
  <1>0. st \in State
    BY DEF IInv, Good
  <1>. QED BY <1>0, LookKept, PlayKept, KeptKeeps

\* A set with one of its flags changed.
opening(s, v) == [s EXCEPT !.opened = v]
loading(s, v) == [s EXCEPT !.loaded = v]

\* The flags are no part of what is good.
LEMMA FlagChange ==
    ASSUME NEW s \in State, NEW v \in BOOLEAN
    PROVE  /\ Same(s, opening(s, v))
           /\ opening(s, v).opened = v
           /\ opening(s, v).full = s.full
           /\ opening(s, v).undefined = s.undefined
           /\ Same(s, loading(s, v))
           /\ loading(s, v).opened = s.opened
           /\ loading(s, v).full = s.full
  <1>1. Same(s, opening(s, v)) /\ Same(s, loading(s, v))
    BY ZenonT(60) DEF Same, State, opening, loading
  <1>. QED BY <1>1, ZenonT(60) DEF State, opening, loading

\* Set::removeCurrentScene, which leaves deleted clips in the list.
LEMMA RemoveCurrentSceneKeeps == ASSUME IInv, RemoveCurrentScene, UNCHANGED host PROVE IInv'
  <1>. DEFINE t == touch(st, {st.current})
              e == emptyClips(t, st.current)
              o == opening(e, FALSE)
              n == Max({0, st.number - 1})
              u == IF t.undefined THEN t ELSE setCurrentScene(o, n)
  <1>0. Good(st, broken) /\ st \in State /\ st.number \in Nat
    BY Fields DEF IInv, Good
  <1>1. step(u) /\ broken' = broken \cup {"emptied"} /\ disk' = disk
    BY DEF RemoveCurrentScene, opening
  <1>2. Same(st, t) /\ (~t.undefined => st.current \notin st.freed \cup {NULL})
    BY <1>0, TouchSame
  <1>3. Good(t, broken')
    BY <1>0, <1>1, <1>2, SameGood, Weaken
  <1>4. n \in Nat
    <2>1. CASE st.number = 0
      <3>1. {0, st.number - 1} = {-1, 0}
        BY <2>1
      <3>2. n = 0
        BY <3>1 DEF Max
      <3>. QED BY <3>2
    <2>2. CASE st.number # 0
      <3>1. st.number - 1 \in Nat
        BY <1>0, <2>2
      <3>2. n \in {0, st.number - 1}
        BY <3>1 DEF Max
      <3>. QED BY <3>1, <3>2
    <2>. QED BY <2>1, <2>2
  <1>. HIDE DEF n, t
  <1>5. ASSUME ~t.undefined PROVE Good(u, broken') /\ ~u.opened
    <2>1. st.current \in SceneIds
      BY <1>0, <1>2, <1>5, Fields
    <2>2. Good(e, broken')
      BY <1>1, <1>3, <2>1, EmptyClipsGood
    <2>. HIDE DEF e
    <2>3. Good(o, broken') /\ o \in State /\ ~o.opened
      BY <2>2, FlagChange, SameGood DEF Good
    <2>. HIDE DEF o
    <2>. QED BY <1>4, <1>5, <2>3, SetCurrentSceneKept DEF Kept
  <1>6. Good(u, broken') /\ Faithful(u)
    BY <1>3, <1>5 DEF Faithful, Going
  <1>. HIDE DEF u
  <1>. QED BY <1>1, <1>6, StepKeeps DEF IInv

\* Set::emptyVisualInstanceOnAllScenes, which does so, too.
LEMMA EmptyAllKeeps == ASSUME IInv, EmptyVisualInstanceOnAllScenes, UNCHANGED host PROVE IInv'
  <1>. DEFINE e == emptyClipsOf(st, st.scenes)
              o == opening(e, FALSE)
  <1>1. step(o) /\ broken' = broken \cup {"emptied"} /\ disk' = disk
    <2>1. o = [loop(emptyClips, st, st.scenes) EXCEPT !.opened = FALSE]
      BY DEF emptyClipsOf, loop, opening
    <2>. QED BY <2>1 DEF EmptyVisualInstanceOnAllScenes, loop
  <1>2. Good(e, broken')
    BY <1>1, Weaken, AllClipsEmptiedGood DEF IInv
  <1>. HIDE DEF e
  <1>3. Good(o, broken') /\ Faithful(o)
    BY <1>2, FlagChange, SameGood DEF Good, Faithful
  <1>. HIDE DEF o
  <1>. QED BY <1>1, <1>3, StepKeeps DEF IInv

\* A set that is still open after Engine::closeSet was not closed.
LEMMA CloseSetEdits ==
    ASSUME NEW s, NEW b, Good(s, b)
    PROVE  closeSet(s).opened => closeSet(s) = s
  <1>1. CASE ~s.loaded
    BY <1>1 DEF closeSet
  <1>2. CASE s.loaded
    <2>. DEFINE u == emptyScenes(emptyVisuals(emptyLayers(s)))
    <2>0. s \in State
      BY DEF Good
    <2>1. LayersEmptied(s, emptyLayers(s))
      BY <2>0, EmptyLayersEffect
    <2>2. Good(emptyLayers(s), b \cup {"visuals"})
      BY EmptyLayersGood
    <2>3. Good(emptyVisuals(emptyLayers(s)), b \cup {"visuals"})
      BY <2>2, EmptyVisualsGood
    <2>4. Owned(emptyVisuals(emptyLayers(s))) /\ emptyVisuals(emptyLayers(s)) \in State
      BY <2>3 DEF Good
    <2>5. u \in State
      BY <2>4, EmptyScenesEffect DEF ScenesEmptied
    <2>6. closeSet(s) = [u EXCEPT !.loaded = FALSE, !.opened = FALSE]
      BY <1>2 DEF closeSet
    <2>. HIDE DEF u
    <2>. QED BY <2>5, <2>6 DEF State
  <1>. QED BY <1>1, <1>2

\* New, closed and failed sets, and the engine that is deleted.
LEMMA SetKeeps ==
    ASSUME IInv, UNCHANGED host, NewSet \/ CloseSet \/ OpenSetFails \/ DeleteEngine
    PROVE  IInv'
  <1>. DEFINE c == closeSet(st)
  <1>0. Good(st, broken) /\ Good(c, broken) /\ c \in State /\ st \in State /\ (c.opened => c = st)
    BY CloseSetGood, CloseSetEdits DEF IInv, Good
  <1>1. ASSUME NewSet PROVE IInv'
    <2>. DEFINE n == newScene(c)
                u == setCurrentScene(n, 0)
                t == loading(u, TRUE)
    <2>1. call(t) \/ call(u) \/ iteratorLost
      BY <1>1 DEF NewSet, loading
    <2>2. Good(n, broken) /\ n \in State /\ (~n.full => ~n.opened)
      BY <1>0, NewSceneGood, AddingEdits DEF Good
    <2>. HIDE DEF n
    <2>3. Good(u, broken) /\ u \in State /\ (~u.full => ~u.opened)
      BY <2>2, SetCurrentSceneKept DEF Kept, Good
    <2>. HIDE DEF u
    <2>4. Good(t, broken) /\ (~t.full => ~t.opened)
      BY <2>3, FlagChange, SameGood
    <2>. HIDE DEF t
    <2>. QED BY <2>1, <2>3, <2>4, CallKeeps, IteratorLostKeeps DEF Faithful, Going
  <1>2. ASSUME CloseSet PROVE IInv'
    <2>1. call(c) \/ iteratorLost
      BY <1>2 DEF CloseSet
    <2>2. Faithful(c)
      BY <1>0 DEF IInv, Faithful
    <2>. HIDE DEF c
    <2>. QED BY <1>0, <2>1, <2>2, CallKeeps, IteratorLostKeeps
  <1>3. ASSUME OpenSetFails PROVE IInv'
    <2>. DEFINE t == emptyLayers(c)
    <2>1. call(t)
      BY <1>3 DEF OpenSetFails
    <2>2. Good(t, broken) /\ Kept(c, t)
      BY <1>0, EmptyLayersGood, EmptyLayersKept
    <2>3. Faithful(t)
      BY <1>0, <2>2, KeptFaithful DEF Kept, Faithful
    <2>. HIDE DEF t
    <2>. QED BY <2>1, <2>2, <2>3, CallKeeps
  <1>4. ASSUME DeleteEngine PROVE IInv'
    <2>. DEFINE p == emptyScenes(st)
                q == emptyVisuals(p)
                u == emptyLayers(q)
                t == opening(u, FALSE)
    <2>1. Good(p, broken \cup {"layers"}) /\ clipsIn(p) = {}
      BY <1>0, EmptyScenesGood
    <2>. HIDE DEF p
    <2>2. Good(q, broken \cup {"layers"})
      BY <2>1, EmptyVisualsGood
    <2>. HIDE DEF q
    <2>3. Good(u, broken)
      BY <2>2, EmptyLayersGood
    <2>4. call(t) \/ iteratorLost
      BY <1>4 DEF DeleteEngine, p, q, opening
    <2>. HIDE DEF u
    <2>5. Good(t, broken) /\ Faithful(t)
      BY <2>3, FlagChange, SameGood DEF Good, Faithful
    <2>. HIDE DEF t
    <2>. QED BY <2>4, <2>5, CallKeeps, IteratorLostKeeps
  <1>. QED BY <1>1, <1>2, <1>3, <1>4

\* What a load can leave behind.
LEMMA MixesTyped ==
    ASSUME NEW s, NEW file, NEW parts
    PROVE  mixes(s, file, parts) \subseteq {"visuals", "layers"}
  BY DEF mixes

\* Engine::openSet and setState.
LEMMA LoadKeeps ==
    ASSUME IInv, UNCHANGED host, OpenSet \/ \E parts \in SUBSET {"visuals", "layers", "scenes"} : SetState(parts)
    PROVE  IInv'
  <1>0. Good(st, broken) /\ disk \in File /\ broken \subseteq {"emptied", "visuals", "layers"}
    BY DEF IInv
  <1>1. ASSUME OpenSet PROVE IInv'
    <2>. DEFINE all == {"visuals", "layers", "scenes"}
                s == emptyLayers(closeSet(st))
                u == setState(s, disk, all)
                v == disk.visuals # <<>> /\ disk.scenes # <<>>
    <2>1. \/ /\ step(opening(u, v))
             /\ broken' = broken \cup (IF s.scenes = <<>> THEN {} ELSE mixes(s, disk, all))
             /\ disk' = disk
          \/ iteratorLost
      BY <1>1 DEF OpenSet, opening
    <2>2. Good(s, broken)
      BY <1>0, CloseSetGood, EmptyLayersGood
    <2>. HIDE DEF s
    <2>3. s.scenes = <<>> => clipsIn(s) = {}
      BY <2>2 DEF Good, Owned, clipsIn, ToSet
    <2>4. ASSUME step(opening(u, v)), disk' = disk,
                 broken' = broken \cup (IF s.scenes = <<>> THEN {} ELSE mixes(s, disk, all))
          PROVE  IInv'
      <3>1. Good(u, broken')
        BY <1>0, <2>2, <2>3, <2>4, SetStateGood
      <3>2. broken' \subseteq {"emptied", "visuals", "layers"}
        BY <1>0, <2>4, MixesTyped
      <3>3. Going(u) /\ v => Good(u, {}) /\ getState(u) = reopened(disk)
        BY <2>2, ReopenSaved DEF IInv, Everything
      <3>. DEFINE t == opening(u, v)
      <3>. HIDE DEF u, v
      <3>4. v \in BOOLEAN /\ u \in State
        BY <3>1 DEF Good, v
      <3>5. Same(u, t) /\ t.opened = v /\ t.full = u.full /\ t.undefined = u.undefined
        BY <3>4, FlagChange
      <3>. HIDE DEF t
      <3>6. Good(t, broken') /\ (Good(u, {}) => Good(t, {})) /\ getState(t) = getState(u)
        BY <3>1, <3>5, SameGood, SameSaved DEF Same, SameSet
      <3>7. Faithful(t)
        BY <3>3, <3>5, <3>6 DEF Faithful, Going
      <3>8. step(t)
        BY <2>4 DEF t
      <3>. QED BY <2>4, <3>2, <3>6, <3>7, <3>8, StepKeeps
    <2>. QED BY <2>1, <2>4, IteratorLostKeeps
  <1>2. ASSUME NEW parts \in SUBSET {"visuals", "layers", "scenes"}, SetState(parts) PROVE IInv'
    <2>. DEFINE u == setState(st, disk, parts)
    <2>1. \/ /\ step(opening(u, FALSE))
             /\ broken' = broken \cup mixes(st, disk, parts)
             /\ disk' = disk
          \/ iteratorLost
      BY <1>2 DEF SetState, opening
    <2>2. ASSUME step(opening(u, FALSE)), disk' = disk,
                 broken' = broken \cup mixes(st, disk, parts)
          PROVE  IInv'
      <3>1. Good(u, broken')
        BY <1>0, <2>2, SetStateGood
      <3>2. broken' \subseteq {"emptied", "visuals", "layers"}
        BY <1>0, <2>2, MixesTyped
      <3>. DEFINE t == opening(u, FALSE)
      <3>. HIDE DEF u
      <3>3. Good(t, broken') /\ Faithful(t)
        BY <3>1, FlagChange, SameGood DEF Good, Faithful
      <3>. HIDE DEF t
      <3>4. step(t)
        BY <2>2 DEF t
      <3>. QED BY <2>2, <3>2, <3>3, <3>4, StepKeeps
    <2>. QED BY <2>1, <2>2, IteratorLostKeeps
  <1>. QED BY <1>1, <1>2

\* What can be saved without touching a deleted object is a set file.
LEMMA SavedTyped ==
    ASSUME NEW s \in State, ~touchAll(s).undefined
    PROVE  getState(s) \in File
  <1>. DEFINE clips == UNION {ToSet(s.clipsOf[x]) : x \in ToSet(s.scenes)}
  <1>0. /\ s.visuals \in Seq(VisualIds) /\ s.source \in [VisualIds -> Source]
        /\ s.scenes \in Seq(SceneIds) /\ s.clipsOf \in [SceneIds -> Seq(ClipIds)]
        /\ s.clip \in [ClipIds -> [visual : VisualIds \cup {NULL}, cell : Nat \X Nat]]
    BY Fields
  <1>1. \A k \in clips : s.clip[k].visual \notin s.freed \cup {NULL}
    BY TouchClipsSame DEF touchAll
  <1>2. [n \in 1 .. Len(s.visuals) |-> s.source[s.visuals[n]]] \in Seq(Source)
    BY <1>0
  <1>3. ASSUME NEW x \in ToSet(s.scenes) PROVE savedClips(s, x) \in Seq(SavedClip)
    <2>1. x \in SceneIds /\ ToSet(s.clipsOf[x]) \subseteq clips
      BY <1>0, ToSetIn
    <2>. HIDE DEF clips
    <2>2. s.clipsOf[x] \in Seq(ClipIds)
      BY <1>0, <2>1
    <2>3. ASSUME NEW k \in 1 .. Len(s.clipsOf[x])
          PROVE  ClipSaved(s, s.clipsOf[x][k], k) \in SavedClip
      <3>. DEFINE c == s.clipsOf[x][k]
      <3>1. c \in ClipIds /\ c \in clips
        BY <2>1, <2>2, ToSetIn
      <3>. HIDE DEF c
      <3>2. s.clip[c].visual \in VisualIds /\ s.clip[c].cell \in Nat \X Nat
        BY <1>0, <1>1, <3>1
      <3>3. s.source[s.clip[c].visual] \in Source /\ k - 1 \in Nat
        BY <1>0, <2>2, <3>2
      <3>4. ClipSaved(s, c, k) \in SavedClip
        BY <3>2, <3>3 DEF SavedClip, ClipSaved
      <3>. QED BY <3>4 DEF c
    <2>4. savedClips(s, x) = [k \in 1 .. Len(s.clipsOf[x]) |-> ClipSaved(s, s.clipsOf[x][k], k)]
      BY SavedClipsAre
    <2>5. Len(s.clipsOf[x]) \in Nat
      BY <2>2
    <2>. QED BY <2>3, <2>4, <2>5
  <1>4. [n \in 1 .. Len(s.scenes) |-> savedClips(s, s.scenes[n])] \in Seq(Seq(SavedClip))
    <2>1. \A n \in 1 .. Len(s.scenes) : savedClips(s, s.scenes[n]) \in Seq(SavedClip)
      BY <1>0, <1>3, ToSetIn
    <2>2. Len(s.scenes) \in Nat
      BY <1>0
    <2>. QED BY <2>1, <2>2
  <1>. QED BY <1>2, <1>4, FileTyped DEF getState

\* Clips in cells of their own are saved as such.
LEMMA SavedAsSaved ==
    ASSUME NEW s, NEW b, Good(s, b), ~touchAll(s).undefined
    PROVE  \A n \in 1 .. Len(getState(s).scenes) : AsSaved(getState(s).scenes[n])
  <1>. DEFINE clips == UNION {ToSet(s.clipsOf[x]) : x \in ToSet(s.scenes)}
  <1>0. /\ s \in State /\ s.scenes \in Seq(SceneIds) /\ Len(s.scenes) \in Nat
        /\ s.clipsOf \in [SceneIds -> Seq(ClipIds)]
    BY Fields DEF Good
  <1>1. clips \cap s.freed = {}
    BY <1>0, TouchClipsSame DEF touchAll
  <1>2. ASSUME NEW x \in ToSet(s.scenes) PROVE AsSaved(savedClips(s, x))
    <2>. DEFINE q == s.clipsOf[x]
    <2>1. x \in SceneIds /\ ToSet(q) \cap s.freed = {}
      BY <1>0, <1>1, ToSetIn
    <2>. HIDE DEF clips
    <2>2. q \in Seq(ClipIds) /\ IsInjective(q) /\ Len(q) \in Nat
      BY <1>0, <2>1 DEF Good, Owned
    <2>3. /\ Len(savedClips(s, x)) = Len(q)
          /\ \A k \in 1 .. Len(q) : /\ savedClips(s, x)[k].index = k - 1
                                    /\ savedClips(s, x)[k].cell = s.clip[q[k]].cell
      <3>1. savedClips(s, x) = [k \in 1 .. Len(q) |-> [index |-> k - 1, cell |-> s.clip[q[k]].cell,
                                                       visual |-> s.source[s.clip[q[k]].visual]]]
        BY DEF savedClips
      <3>. HIDE DEF q
      <3>. QED BY <2>2, <3>1
    <2>4. ASSUME NEW j \in 1 .. Len(q), NEW k \in 1 .. Len(q), s.clip[q[j]].cell = s.clip[q[k]].cell
          PROVE  j = k
      <3>1. q[j] \in ToSet(q) /\ q[k] \in ToSet(q)
        BY <2>2, ToSetIn
      <3>2. q[j] = q[k]
        BY <2>1, <2>4, <3>1 DEF Good, Cells
      <3>. QED BY <2>2, <3>2 DEF IsInjective
    <2>. HIDE DEF q
    <2>. QED BY <2>3, <2>4 DEF AsSaved
  <1>3. /\ Len(getState(s).scenes) = Len(s.scenes)
        /\ \A n \in 1 .. Len(s.scenes) : getState(s).scenes[n] = savedClips(s, s.scenes[n])
    BY <1>0 DEF getState
  <1>. QED BY <1>0, <1>2, <1>3, ToSetIn

\* Set::saveSetAs: a set that was opened is saved as it would be opened again.
LEMMA SaveKeeps == ASSUME IInv, SaveSetAs, UNCHANGED host PROVE IInv'
  <1>. DEFINE t == touchAll(st)
  <1>0. Good(st, broken) /\ st \in State /\ broken' = broken /\ step(t) /\ disk \in File
        /\ disk' = IF t.undefined THEN disk ELSE getState(st)
    BY DEF IInv, Good, SaveSetAs
  <1>1. Kept(st, t)
    BY <1>0, TouchClipsSame, SameKept DEF touchAll
  <1>2. disk' \in File /\ \A n \in 1 .. Len(disk'.scenes) : AsSaved(disk'.scenes[n])
    BY <1>0, SavedTyped, SavedAsSaved DEF IInv
  <1>. HIDE DEF t
  <1>3. Good(t, broken) /\ Faithful(t) /\ t \in State
    BY <1>1, KeptFaithful DEF Good
  <1>4. Good(st', broken')
    BY <1>0, <1>3, StepGood
  <1>5. st'.opened => Good(st', {}) /\ getState(st') = reopened(disk)
    BY <1>0, <1>3, StepFaithful
  <1>6. st'.opened => ~t.undefined /\ st.opened
    <2>1. ~Undefined.opened
      BY DEF Undefined, Start
    <2>2. tidy(t).opened = t.opened
      BY <1>3, TidyEffect DEF Tidied
    <2>. QED BY <1>0, <1>1, <2>1, <2>2 DEF step, Kept
  <1>7. st'.opened => reopened(disk') = reopened(disk)
    BY <1>0, <1>6, ReopenedTwice DEF IInv
  <1>. QED BY <1>0, <1>2, <1>4, <1>5, <1>7 DEF IInv

\* Every step keeps the invariant.
LEMMA Inductive == IInv /\ [Next]_vars => IInv'
  <1>. SUFFICES ASSUME IInv, [Next]_vars PROVE IInv'
    OBVIOUS
  <1>1. CASE Next
    <2>1. UNCHANGED host
      BY <1>1 DEF Next
    <2>. QED
      BY <1>1, <2>1, BuildKeeps, NavigateKeeps, RemoveCurrentSceneKeeps, EmptyAllKeeps, ShowKeeps,
         SetKeeps, LoadKeeps, SaveKeeps DEF Next
  <1>2. CASE UNCHANGED vars
    BY <1>2 DEF vars, IInv
  <1>. QED BY <1>1, <1>2

\* It always holds.
LEMMA Invariance == Spec => []IInv
  BY Initially, Inductive, PTL DEF Spec

\* The engine, the file and the history keep their types whatever a host calls: the
\* lists of Visuals, Scenes and VisualInstances never hold NULL, what clips and layers
\* point to is of its kind, and what Engine::getState writes is always a set file.
THEOREM TypeCorrect == Spec => []TypeOK
<1>1. IInv => TypeOK
  BY DEF IInv, Good, TypeOK
<1> QED
  BY <1>1, Invariance, PTL

\* Whatever sets are built, opened, closed, saved and deleted, and in whatever order,
\* no list holds a deleted visual or scene; a scene holds a deleted clip, and a clip a
\* deleted visual, only after VisualInstances::empty or a load of visuals without
\* scenes; and a layer only after that or a load of scenes without layers.
THEOREM PointersAlwaysLive == Spec => []PointersLive
<1>1. IInv => PointersLive
  BY DEF IInv, Good, Lists, Clips, Shown, PointersLive, ListsLive, ClipsLive, LayersLive
<1> QED
  BY <1>1, Invariance, PTL

\* VisualInstances::add and the loads keep one live clip per cell, and Set's current
\* scene and its number agree as long as that scene lives, for any number of scenes.
THEOREM ScenesAlwaysConsistent == Spec => []ScenesConsistent
<1>1. IInv => OneClipPerCell
  <2>1. IInv => Cells(st) /\ ToSet(st.scenes) \subseteq SceneIds
    BY Fields, ToSetIn DEF IInv, Good
  <2> QED
    BY <2>1 DEF OneClipPerCell, Cells
<1>2. IInv => CurrentSceneNumbered
  BY DEF IInv, Good, Numbered, CurrentSceneNumbered
<1> QED
  BY <1>1, <1>2, Invariance, PTL DEF ScenesConsistent

\* A set that was opened from a file (Engine::openSet) can be saved and opened again
\* any number of times: it is always the set its first opening left, of any size.
THEOREM ReloadAlwaysSettles == Spec => ReloadSettles
<1>1. IInv /\ IInv' /\ [Next]_vars =>
         [st.opened /\ st'.opened /\ disk' = disk /\ ~st'.undefined /\ ~touchAll(st').undefined
             => getState(st') = getState(st)]_vars
  BY DEF IInv
<1> QED
  BY <1>1, Invariance, PTL DEF ReloadSettles, Spec
=============================================================================
