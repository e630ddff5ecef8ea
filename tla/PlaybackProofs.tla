---------------------------- MODULE PlaybackProofs ----------------------------
(***************************************************************************)
(* No clip runs behind its layer's back, for any number of layers, any     *)
(* scene and any interleaving of the three threads.  The invariant that is *)
(* inductive says of every layer's deck that its pointers stay inside the  *)
(* layer, that a running player has its file open (VisualInstance::stop    *)
(* does nothing to a clip that is not loaded), and that only the active    *)
(* clip of the layer runs.                                                 *)
(***************************************************************************)
EXTENDS Playback, TLAPS

ClipsOf(l) == {i \in Scene : i[1] = l}

Flags == SUBSET Flag

\* A running player has its file open.
Sound(r) == "rolling" \in r => "loaded" \in r

Decks == [active : Scene \cup {NULL}, scheduled : Scene \cup {NULL},
          clip : [Scene -> Flags]]

\* What every operation on a layer keeps.
DeckOK(l, d) ==
    /\ d \in Decks
    /\ d.active \in ClipsOf(l) \cup {NULL}
    /\ d.scheduled \in ClipsOf(l) \cup {NULL}
    /\ \A i \in Scene : Sound(d.clip[i])
    /\ \A i \in ClipsOf(l) : "rolling" \in d.clip[i] => d.active = i

\* The inductive invariant, as one predicate on the three deck variables.
DeckInv ==
    /\ active \in [LayerIds -> Scene \cup {NULL}]
    /\ scheduled \in [LayerIds -> Scene \cup {NULL}]
    /\ \A l \in LayerIds : DeckOK(l, Deck(l))
    /\ clip \in [Scene -> Flags]
    /\ \A i \in Scene : Sound(clip[i])

-----------------------------------------------------------------------------
(* The operations of VisualInstance.                                       *)

(* A stopped clip does not run, if its flags were sound.                   *)
LEMMA StopClip ==
    ASSUME NEW i, NEW r \in Flags, Sound(r)
    PROVE  stop(i, r) \in Flags /\ Sound(stop(i, r)) /\ "rolling" \notin stop(i, r)
BY DEF stop, Flags, Flag, Sound

(* Opening a file leaves sound flags.                                      *)
LEMMA LoadClip ==
    ASSUME NEW i, NEW r \in Flags, Sound(r)
    PROVE  loadVideo(i, r) \in Flags /\ Sound(loadVideo(i, r))
BY DEF loadVideo, Flags, Flag, Sound

(* VisualInstance::play leaves sound flags, forced or not.                 *)
LEMMA PlayClip ==
    ASSUME NEW i, NEW f, NEW r \in Flags, Sound(r)
    PROVE  play(i, f, r) \in Flags /\ Sound(play(i, f, r))
<1> DEFINE reset == r \ {"triggered", "idle"}
           opened == IF "loaded" \in r THEN reset ELSE loadVideo(i, reset)
<1>1. reset \in Flags /\ Sound(reset)
  BY DEF Flags, Flag, Sound
<1>2. opened \in Flags /\ Sound(opened)
  BY <1>1, LoadClip
<1>3. play(i, f, r) \in {reset \cup {"playing"}, opened} \/
      ("loaded" \in opened /\ play(i, f, r) \in {opened \cup {"triggered", "playing"},
                                                  opened \cup {"rolling", "playing"}})
  BY DEF play
<1> HIDE DEF reset, opened
<1> QED
  BY <1>1, <1>2, <1>3 DEF Flags, Flag, Sound

(* So do retrigger, the automatic play of draw and the close of a file.    *)
LEMMA OtherClip ==
    ASSUME NEW i, NEW r \in Flags, Sound(r)
    PROVE  /\ retrigger(i, r) \in Flags /\ Sound(retrigger(i, r))
           /\ "rolling" \in retrigger(i, r) => "rolling" \in r
           /\ autoLoadAndAutoPlayVideo(i, r) \in Flags
           /\ Sound(autoLoadAndAutoPlayVideo(i, r))
           /\ unloadVideo(r) \in Flags /\ Sound(unloadVideo(r))
<1>1. retrigger(i, r) \in Flags /\ Sound(retrigger(i, r))
      /\ ("rolling" \in retrigger(i, r) => "rolling" \in r)
  BY DEF retrigger, Flags, Flag, Sound
<1>2. unloadVideo(r) \in Flags /\ Sound(unloadVideo(r))
  BY DEF unloadVideo, Flags, Flag, Sound
<1> DEFINE opened == IF "loaded" \in r THEN r ELSE loadVideo(i, r)
<1>3. opened \in Flags /\ Sound(opened)
  BY LoadClip
<1>4. play(i, FALSE, opened) \in Flags /\ Sound(play(i, FALSE, opened))
  BY <1>3, PlayClip
<1>5. autoLoadAndAutoPlayVideo(i, r) \in {r, opened, play(i, FALSE, opened)}
  BY DEF autoLoadAndAutoPlayVideo
<1> QED
  BY <1>1, <1>2, <1>3, <1>4, <1>5

-----------------------------------------------------------------------------
(* The operations of Layer.                                                *)

(* Stopping the active clip leaves no clip of the layer running.           *)
LEMMA StopActive ==
    ASSUME NEW l, NEW d, DeckOK(l, d), d.active # NULL,
           NEW c, c = [d.clip EXCEPT ![d.active] = stop(d.active, @)]
    PROVE  /\ c \in [Scene -> Flags]
           /\ \A i \in Scene : Sound(c[i])
           /\ \A i \in ClipsOf(l) : "rolling" \notin c[i]
<1>1. d.active \in Scene /\ d.active \in ClipsOf(l)
  BY DEF DeckOK, ClipsOf
<1>2. d.clip \in [Scene -> Flags] /\ d.clip[d.active] \in Flags
      /\ Sound(d.clip[d.active])
  BY <1>1 DEF DeckOK, Decks
<1>3. /\ stop(d.active, d.clip[d.active]) \in Flags
      /\ Sound(stop(d.active, d.clip[d.active]))
      /\ "rolling" \notin stop(d.active, d.clip[d.active])
  BY <1>2, StopClip
<1>4. c \in [Scene -> Flags] /\ \A i \in Scene : Sound(c[i])
  BY <1>1, <1>2, <1>3 DEF DeckOK
<1>5. \A i \in ClipsOf(l) : "rolling" \notin c[i]
  BY <1>1, <1>2, <1>3 DEF DeckOK, ClipsOf
<1> QED
  BY <1>4, <1>5

(* Showing clip i on a layer where nothing else runs keeps the deck in     *)
(* order.                                                                  *)
LEMMA SwitchDeck ==
    ASSUME NEW l, NEW i \in ClipsOf(l), NEW c \in [Scene -> Flags],
           \A j \in Scene : Sound(c[j]),
           \A j \in ClipsOf(l) : "rolling" \in c[j] => j = i,
           NEW r \in Flags, Sound(r),
           NEW e, e = [active |-> i, scheduled |-> NULL, clip |-> [c EXCEPT ![i] = r]]
    PROVE  DeckOK(l, e)
<1>1. i \in Scene
  BY DEF ClipsOf
<1>2. e \in Decks
  BY <1>1 DEF Decks
<1>3. \A j \in Scene : e.clip[j] = IF j = i THEN r ELSE c[j]
  BY <1>1
<1> QED
  BY <1>1, <1>2, <1>3 DEF DeckOK, ClipsOf

(* So does changing the flags of the active clip, or of another clip that  *)
(* does not start to run.                                                  *)
LEMMA UpdateDeck ==
    ASSUME NEW l, NEW d, DeckOK(l, d), NEW i \in ClipsOf(l),
           NEW r \in Flags, Sound(r), "rolling" \in r => d.active = i,
           NEW e, e = [d EXCEPT !.clip[i] = r]
    PROVE  DeckOK(l, e)
<1>1. i \in Scene
  BY DEF ClipsOf
<1>2. e \in Decks /\ e.active = d.active /\ e.scheduled = d.scheduled
  BY <1>1 DEF Decks, DeckOK
<1>3. \A j \in Scene : e.clip[j] = IF j = i THEN r ELSE d.clip[j]
  BY <1>1 DEF Decks, DeckOK
<1> QED
  BY <1>1, <1>2, <1>3 DEF DeckOK, ClipsOf

(* Layer::stop.                                                            *)
LEMMA StopDeck ==
    ASSUME NEW l, NEW d, DeckOK(l, d)
    PROVE  DeckOK(l, stopLayer(d))
<1>1. CASE d.active = NULL
  BY <1>1 DEF stopLayer
<1>2. CASE d.active # NULL
  <2> DEFINE c == [d.clip EXCEPT ![d.active] = stop(d.active, @)]
  <2>1. /\ c \in [Scene -> Flags]
        /\ \A i \in Scene : Sound(c[i])
        /\ \A i \in ClipsOf(l) : "rolling" \notin c[i]
    BY <1>2, StopActive
  <2>2. stopLayer(d) = [active |-> NULL, scheduled |-> NULL, clip |-> c]
    BY <1>2 DEF stopLayer
  <2> HIDE DEF c
  <2> QED
    BY <2>1, <2>2 DEF DeckOK, Decks
<1> QED
  BY <1>1, <1>2

(* Layer::playVisualInstance: it schedules the clip, or stops the old clip *)
(* and shows the new one, or retriggers the one it shows.                  *)
LEMMA PlayDeck ==
    ASSUME NEW l, NEW d, DeckOK(l, d), NEW i \in ClipsOf(l)
    PROVE  DeckOK(l, playVisualInstance(d, i))
<1> DEFINE stopped == IF d.active \in {NULL, i} THEN d.clip
                      ELSE [d.clip EXCEPT ![d.active] = stop(d.active, @)]
           switched == IF i = d.active THEN d
                       ELSE [active |-> i, scheduled |-> NULL,
                             clip |-> [stopped EXCEPT ![i] = play(i, FALSE, @)]]
           again == [switched EXCEPT !.clip[i] = retrigger(i, @)]
<1>1. i \in Scene /\ i # NULL
  BY NullAssumption DEF ClipsOf
<1>2. /\ stopped \in [Scene -> Flags]
      /\ \A j \in Scene : Sound(stopped[j])
      /\ \A j \in ClipsOf(l) : "rolling" \in stopped[j] => j = i
  <2>1. CASE d.active \in {NULL, i}
    BY <2>1, <1>1, NullAssumption DEF DeckOK, Decks, ClipsOf
  <2>2. CASE d.active \notin {NULL, i}
    BY <2>2, StopActive
  <2> QED
    BY <2>1, <2>2
<1>3. DeckOK(l, switched) /\ switched.active = i
  <2>1. CASE i = d.active
    BY <2>1
  <2>2. CASE i # d.active
    <3>1. play(i, FALSE, stopped[i]) \in Flags /\ Sound(play(i, FALSE, stopped[i]))
      BY <1>1, <1>2, PlayClip
    <3> HIDE DEF stopped
    <3>2. switched = [active |-> i, scheduled |-> NULL,
                      clip |-> [stopped EXCEPT ![i] = play(i, FALSE, stopped[i])]]
      BY <2>2
    <3> QED
      BY <3>1, <3>2, <1>2, SwitchDeck
  <2> QED
    BY <2>1, <2>2
<1> HIDE DEF stopped, switched
<1>4. DeckOK(l, again)
  <2> DEFINE r == retrigger(i, switched.clip[i])
  <2>1. r \in Flags /\ Sound(r)
    BY <1>1, <1>3, OtherClip DEF DeckOK, Decks
  <2>2. again = [switched EXCEPT !.clip[i] = r]
    OBVIOUS
  <2> QED
    BY <2>1, <2>2, <1>3, UpdateDeck
<1>5. DeckOK(l, [d EXCEPT !.scheduled = i])
  BY <1>1 DEF DeckOK, Decks
<1>6. playVisualInstance(d, i) \in {[d EXCEPT !.scheduled = i], switched, again}
  BY DEF playVisualInstance, switched, stopped
<1> QED
  BY <1>3, <1>4, <1>5, <1>6

(* Layer::activateSchedulledInstance stops a running clip before it shows  *)
(* the scheduled one.                                                      *)
LEMMA ActivateDeck ==
    ASSUME NEW l, NEW d, DeckOK(l, d), d.scheduled # NULL
    PROVE  DeckOK(l, activateSchedulledInstance(d))
<1> DEFINE i == d.scheduled
           stopped == IF d.active # NULL /\ "rolling" \in d.clip[d.active]
                      THEN [d.clip EXCEPT ![d.active] = stop(d.active, @)]
                      ELSE d.clip
<1>1. i \in ClipsOf(l) /\ i \in Scene
  BY DEF DeckOK, ClipsOf
<1>2. /\ stopped \in [Scene -> Flags]
      /\ \A j \in Scene : Sound(stopped[j])
      /\ \A j \in ClipsOf(l) : "rolling" \notin stopped[j]
  <2>1. CASE d.active # NULL /\ "rolling" \in d.clip[d.active]
    BY <2>1, StopActive
  <2>2. CASE ~(d.active # NULL /\ "rolling" \in d.clip[d.active])
    BY <2>2, NullAssumption DEF DeckOK, Decks, ClipsOf
  <2> QED
    BY <2>1, <2>2
<1>3. play(i, TRUE, stopped[i]) \in Flags /\ Sound(play(i, TRUE, stopped[i]))
  BY <1>1, <1>2, PlayClip
<1>4. activateSchedulledInstance(d)
        = [active |-> i, scheduled |-> NULL,
           clip |-> [stopped EXCEPT ![i] = play(i, TRUE, stopped[i])]]
  BY DEF activateSchedulledInstance
<1> HIDE DEF i, stopped
<1> QED
  BY <1>1, <1>2, <1>3, <1>4, SwitchDeck

(* The snap branch of Engine::render on one layer.                         *)
LEMMA SnapDeck ==
    ASSUME NEW l, NEW d, DeckOK(l, d)
    PROVE  DeckOK(l, triggerSchedulled(d))
<1>1. CASE d.scheduled # NULL
  BY <1>1, ActivateDeck DEF triggerSchedulled
<1>2. CASE d.scheduled = NULL /\ d.active \in BeatSnap
                              /\ "triggered" \in d.clip[d.active]
  <2> DEFINE r == play(d.active, TRUE, d.clip[d.active])
  <2>1. d.active \in Scene /\ d.active \in ClipsOf(l)
    BY <1>2, ClipAssumption, NullAssumption DEF DeckOK, ClipsOf
  <2>2. r \in Flags /\ Sound(r)
    BY <2>1, PlayClip DEF DeckOK, Decks
  <2>3. triggerSchedulled(d) = [d EXCEPT !.clip[d.active] = r]
    BY <1>2 DEF triggerSchedulled
  <2> HIDE DEF r
  <2> QED
    BY <2>1, <2>2, <2>3, UpdateDeck
<1>3. CASE d.scheduled = NULL /\ ~(d.active \in BeatSnap
                                   /\ "triggered" \in d.clip[d.active])
  BY <1>3 DEF triggerSchedulled
<1> QED
  BY <1>1, <1>2, <1>3

(* Layer::render on one layer.                                             *)
LEMMA RenderDeck ==
    ASSUME NEW l, NEW d, DeckOK(l, d)
    PROVE  DeckOK(l, renderLayer(d))
<1>1. CASE d.active = NULL
  BY <1>1 DEF renderLayer
<1>2. CASE d.active # NULL
  <2> DEFINE r == autoLoadAndAutoPlayVideo(d.active, d.clip[d.active])
  <2>1. d.active \in Scene /\ d.active \in ClipsOf(l)
    BY <1>2 DEF DeckOK, ClipsOf
  <2>2. r \in Flags /\ Sound(r)
    BY <2>1, OtherClip DEF DeckOK, Decks
  <2>3. renderLayer(d) = [d EXCEPT !.clip[d.active] = r]
    BY <1>2 DEF renderLayer
  <2> HIDE DEF r
  <2> QED
    BY <2>1, <2>2, <2>3, UpdateDeck
<1> QED
  BY <1>1, <1>2

-----------------------------------------------------------------------------
(* The operations of Engine.                                               *)

(* A cell belongs to the layer it names, and every clip to some layer.     *)
LEMMA CellLayer ==
    /\ \A l, c : <<l, c>> \in Scene => <<l, c>> \in ClipsOf(l)
    /\ \A i \in Scene : i[1] \in LayerIds /\ i \in ClipsOf(i[1])
BY SceneAssumption DEF ClipsOf

(* Engine::setActiveVisualInstance on one layer.                           *)
LEMMA TriggerDeck ==
    ASSUME NEW l \in LayerIds, NEW c, DeckOK(l, Deck(l))
    PROVE  DeckOK(l, trigger(l, c))
BY CellLayer, PlayDeck, StopDeck DEF trigger

(* Engine::play calls play() a second time.  If that runs the clip, the    *)
(* layer shows it: a clip that was only scheduled waits for the beat in    *)
(* both calls, because both read the same flags.                           *)
LEMMA PlayedIsShown ==
    ASSUME NEW l \in LayerIds, NEW c, <<l, c>> \in Scene, DeckOK(l, Deck(l)),
           "rolling" \in play(<<l, c>>, FALSE, trigger(l, c).clip[<<l, c>>])
    PROVE  trigger(l, c).active = <<l, c>>
<1> DEFINE i == <<l, c>>
           d == Deck(l)
<1>1. trigger(l, c) = playVisualInstance(d, i)
  BY DEF trigger
<1>2. CASE waitsForBeat(i) /\ ~triggeringBeat
  <2>1. trigger(l, c).clip = clip /\ trigger(l, c).active = active[l]
    BY <1>1, <1>2 DEF playVisualInstance, Deck
  <2>2. "rolling" \in clip[i]
    BY <1>2, <2>1 DEF play, loadVideo
  <2> QED
    BY <2>1, <2>2, CellLayer DEF DeckOK, Deck
<1>3. CASE ~(waitsForBeat(i) /\ ~triggeringBeat)
  BY <1>1, <1>3 DEF playVisualInstance, Deck
<1> QED
  BY <1>2, <1>3

(* Storing decks that are in order back into the layers keeps them in      *)
(* order: a clip's flags come from the layer that owns it.                 *)
LEMMA StoreDecks ==
    ASSUME NEW D, SetDecks(D), \A l \in LayerIds : DeckOK(l, D[l])
    PROVE  DeckInv'
<1>1. \A l \in LayerIds : D[l] \in Decks
  BY DEF DeckOK
<1>2. active' \in [LayerIds -> Scene \cup {NULL}]
      /\ scheduled' \in [LayerIds -> Scene \cup {NULL}]
  BY <1>1 DEF SetDecks, Decks
<1>3. clip' \in [Scene -> Flags]
  BY <1>1, CellLayer DEF SetDecks, Decks
<1>4. \A i \in Scene : Sound(clip'[i])
  BY CellLayer DEF SetDecks, DeckOK
<1>5. ASSUME NEW l \in LayerIds PROVE DeckOK(l, Deck(l)')
  <2>1. Deck(l)' = [active |-> active'[l], scheduled |-> scheduled'[l], clip |-> clip']
    BY DEF Deck
  <2>2. active'[l] = D[l].active /\ scheduled'[l] = D[l].scheduled
    BY DEF SetDecks
  <2>3. Deck(l)' \in Decks
    BY <1>2, <1>3, <2>1 DEF Decks
  <2>4. \A i \in ClipsOf(l) : clip'[i] = D[l].clip[i]
    BY DEF SetDecks, ClipsOf
  <2>5. DeckOK(l, D[l])
    OBVIOUS
  <2> QED
    BY <1>4, <2>1, <2>2, <2>3, <2>4, <2>5 DEF DeckOK
<1> QED
  BY <1>2, <1>3, <1>4, <1>5 DEF DeckInv, DeckOK, Decks, ClipsOf

(* A step that changes one clip of one layer only by clearing flags, or by *)
(* letting time pass, keeps the decks in order.                            *)
LEMMA LessRolling ==
    ASSUME DeckInv, UNCHANGED <<active, scheduled>>,
           clip' \in [Scene -> Flags],
           \A i \in Scene : Sound(clip'[i]) /\ ("rolling" \in clip'[i] => "rolling" \in clip[i])
    PROVE  DeckInv'
<1>1. ASSUME NEW l \in LayerIds PROVE DeckOK(l, Deck(l)')
  <2>1. Deck(l)' = [active |-> active[l], scheduled |-> scheduled[l], clip |-> clip']
    BY DEF Deck
  <2>2. DeckOK(l, Deck(l))
    BY DEF DeckInv
  <2>3. Deck(l)' \in Decks
    BY <2>1 DEF DeckInv, Decks
  <2> QED
    BY <2>1, <2>2, <2>3 DEF DeckOK, Deck, ClipsOf
<1> QED
  BY <1>1 DEF DeckInv, DeckOK, Decks, ClipsOf

(* Every step of the main thread, of the metronome thread and of           *)
(* FileManager's thread keeps every deck in order.                         *)
LEMMA DeckStep == DeckInv /\ [Next]_vars => DeckInv'
<1> SUFFICES ASSUME DeckInv, [Next]_vars PROVE DeckInv'
  OBVIOUS
<1>1. \A l \in LayerIds : DeckOK(l, Deck(l))
  BY DEF DeckInv
<1>2. ASSUME NEW l \in LayerIds, NEW d, DeckOK(l, d), SetDecks(OnLayer(l, d))
      PROVE  DeckInv'
  <2>1. \A k \in LayerIds : DeckOK(k, OnLayer(l, d)[k])
    BY <1>1, <1>2 DEF OnLayer
  <2> QED
    BY <1>2, <2>1, StoreDecks
<1>3. ASSUME NEW l \in LayerIds, NEW c \in Columns, TriggerVisual(l, c)
      PROVE  DeckInv'
  <2>1. DeckOK(l, trigger(l, c))
    BY <1>1, TriggerDeck
  <2> QED
    BY <1>2, <1>3, <2>1 DEF TriggerVisual
<1>4. ASSUME NEW l \in LayerIds, NEW c \in Columns, PlayVisual(l, c)
      PROVE  DeckInv'
  <2> DEFINE i == <<l, c>>
             first == trigger(l, c)
             r == play(i, FALSE, first.clip[i])
             second == [first EXCEPT !.clip[i] = r]
             final == IF i \in Scene THEN second ELSE first
  <2>1. DeckOK(l, first)
    BY <1>1, TriggerDeck
  <2>2. ASSUME i \in Scene PROVE DeckOK(l, second)
    <3>1. i \in ClipsOf(l)
      BY <2>2, CellLayer
    <3>2. first.clip[i] \in Flags /\ Sound(first.clip[i])
      BY <2>1, <2>2 DEF DeckOK, Decks
    <3>3. r \in Flags /\ Sound(r)
      BY <3>2, PlayClip
    <3>4. "rolling" \in r => first.active = i
      BY <1>1, <2>2, PlayedIsShown
    <3> HIDE DEF r, first
    <3> QED
      BY <2>1, <3>1, <3>3, <3>4, UpdateDeck
  <2>3. DeckOK(l, final)
    BY <2>1, <2>2
  <2>4. SetDecks(OnLayer(l, final))
    BY <1>4 DEF PlayVisual
  <2> HIDE DEF final
  <2> QED
    BY <1>2, <2>3, <2>4
<1>5. ASSUME NEW c \in Columns, TriggerColumn(c) PROVE DeckInv'
  <2>1. PICK hit : SetDecks([l \in LayerIds |-> IF l \in hit THEN trigger(l, c)
                                                ELSE Deck(l)])
    BY <1>5 DEF TriggerColumn
  <2> DEFINE D == [l \in LayerIds |-> IF l \in hit THEN trigger(l, c) ELSE Deck(l)]
  <2>2. \A l \in LayerIds : DeckOK(l, D[l])
    BY <1>1, TriggerDeck
  <2> HIDE DEF D
  <2> QED
    BY <2>1, <2>2, StoreDecks DEF D
<1>6. ASSUME NEW l \in LayerIds, StopLayer(l) PROVE DeckInv'
  BY <1>1, <1>2, <1>6, StopDeck DEF StopLayer
<1>7. CASE StopAll
  <2> DEFINE D == [l \in LayerIds |-> stopLayer(Deck(l))]
  <2>1. \A l \in LayerIds : DeckOK(l, D[l])
    BY <1>1, StopDeck
  <2>2. SetDecks(D)
    BY <1>7 DEF StopAll
  <2> HIDE DEF D
  <2> QED
    BY <2>1, <2>2, StoreDecks
<1>8. CASE Cleanup
  <2>1. \A i \in Scene : clip[i] \in Flags /\ Sound(clip[i])
    BY DEF DeckInv
  <2>2. \A i \in Scene : unloadVideo(clip[i]) \in Flags /\ Sound(unloadVideo(clip[i]))
                         /\ "rolling" \notin unloadVideo(clip[i])
    BY <2>1, OtherClip DEF unloadVideo
  <2> QED
    BY <1>8, <2>1, <2>2, LessRolling DEF Cleanup
<1>9. CASE RenderEnd
  <2> DEFINE snapThrowers == {l \in LayerIds : snapInProgress /\ throwsOnSnap(l)}
             Snapped(l) == IF snapInProgress /\ reached(l, snapThrowers)
                           THEN triggerSchedulled(Deck(l)) ELSE Deck(l)
             drawThrowers == {l \in LayerIds : Snapped(l).active \in Missing}
             Drawn(l) == IF snapThrowers = {} /\ reached(l, drawThrowers)
                         THEN renderLayer(Snapped(l)) ELSE Snapped(l)
             D == [l \in LayerIds |-> Drawn(l)]
  <2>1. SetDecks(D)
    BY <1>9 DEF RenderEnd
  <2>2. \A l \in LayerIds : DeckOK(l, Snapped(l))
    BY <1>1, SnapDeck
  <2> HIDE DEF Snapped, snapThrowers, drawThrowers
  <2>3. \A l \in LayerIds : DeckOK(l, D[l])
    BY <2>2, RenderDeck
  <2> HIDE DEF D
  <2> QED
    BY <2>1, <2>3, StoreDecks
<1>10. CASE CleanupFlag \/ CleanupClose \/ \E i \in Scene : MinutePasses(i)
  <2>1. clip' \in [Scene -> Flags]
    BY <1>10 DEF CleanupFlag, CleanupClose, MinutePasses, DeckInv, Flags, Flag
  <2>2. \A i \in Scene : Sound(clip'[i]) /\ ("rolling" \in clip'[i] => "rolling" \in clip[i])
    BY <1>10 DEF CleanupFlag, CleanupClose, MinutePasses, DeckInv, Sound
  <2> QED
    BY <1>10, <2>1, <2>2, LessRolling DEF CleanupFlag, CleanupClose, MinutePasses
<1>11. CASE UNCHANGED deckVars
  BY <1>11 DEF deckVars, DeckInv, DeckOK, Deck, Decks, ClipsOf
<1>12. CASE SwitchMetronome \/ SetTempo \/ Tap \/ RenderBegin \/ MetronomeThread
            \/ \E i \in Scene : CleanupCheck(i)
  BY <1>11, <1>12 DEF SwitchMetronome, SetTempo, Tap, RenderBegin,
                      MetronomeThread, BeatBegin, BeatCount, BeatTrigger,
                      BeatSnapFlag, CleanupCheck
<1>13. CASE UNCHANGED vars
  BY <1>11, <1>13 DEF vars
<1> QED
  BY <1>3, <1>4, <1>5, <1>6, <1>7, <1>8, <1>9, <1>10, <1>12, <1>13
     DEF Next, MainThread, FileManagerThread

(* A new scene has every deck empty, so the deck invariant holds.          *)
LEMMA InitialDecks == Init => DeckInv
BY DEF Init, DeckInv, DeckOK, Deck, Decks, ClipsOf, Flags, Sound

(* No clip runs behind its layer's back, in any scene and under any        *)
(* interleaving (Layer::playVisualInstance, Engine::render, FileManager).  *)
THEOREM OnlyActiveRollsAlways == Spec => []OnlyActiveRolls
<1>1. Init => DeckInv
  BY InitialDecks
<1>2. DeckInv => OnlyActiveRolls
  <2> SUFFICES ASSUME DeckInv, NEW i \in Scene, "rolling" \in clip[i]
               PROVE  active[i[1]] = i
    BY DEF OnlyActiveRolls, Is
  <2>1. i[1] \in LayerIds /\ i \in ClipsOf(i[1])
    BY CellLayer
  <2>2. DeckOK(i[1], Deck(i[1]))
    BY <2>1 DEF DeckInv
  <2> QED
    BY <2>1, <2>2 DEF DeckOK, Deck
<1> QED
  BY <1>1, <1>2, DeckStep, PTL DEF Spec

-----------------------------------------------------------------------------
(* The isPlaying property.  Without a FileManager thread every operation   *)
(* on a clip's flags keeps the player and the property in agreement.       *)

Truthful(i, r) ==
    /\ "rolling" \in r => "loaded" \in r /\ "playing" \in r
    /\ "playing" \in r /\ i \notin Cameras =>
          "loaded" \in r /\ ("rolling" \in r \/ "triggered" \in r)

TruthfulClips(c) == \A i \in Scene : Truthful(i, c[i])

Truth == closeStep = "idle" /\ TruthfulClips(clip)

(* The operations of VisualInstance.                                       *)
LEMMA ClipTruth ==
    ASSUME NEW i, NEW r, Truthful(i, r)
    PROVE  /\ Truthful(i, stop(i, r))
           /\ Truthful(i, unloadVideo(r))
           /\ Truthful(i, retrigger(i, r))
           /\ "loaded" \notin r => Truthful(i, loadVideo(i, r))
           /\ Truthful(i, r \cup {"idle"})
BY DEF Truthful, stop, unloadVideo, retrigger, loadVideo

(* VisualInstance::play sets the property with the player or the trigger.  *)
LEMMA PlayTruth ==
    ASSUME NEW i, NEW f, NEW r, Truthful(i, r)
    PROVE  Truthful(i, play(i, f, r))
<1>1. CASE "loaded" \in r
  BY <1>1 DEF Truthful, play
<1>2. CASE "loaded" \notin r
  BY <1>2 DEF Truthful, play, loadVideo
<1> QED
  BY <1>1, <1>2

(* The automatic play of draw.                                             *)
LEMMA DrawTruth ==
    ASSUME NEW i, NEW r, Truthful(i, r)
    PROVE  Truthful(i, autoLoadAndAutoPlayVideo(i, r))
<1> DEFINE opened == IF "loaded" \in r THEN r ELSE loadVideo(i, r)
<1>1. Truthful(i, opened)
  BY ClipTruth
<1>2. Truthful(i, play(i, FALSE, opened))
  BY <1>1, PlayTruth
<1>3. autoLoadAndAutoPlayVideo(i, r) \in {r, opened, play(i, FALSE, opened)}
  BY DEF autoLoadAndAutoPlayVideo
<1> QED
  BY <1>1, <1>2, <1>3

(* Changing one clip.                                                      *)
LEMMA ChangeTruth ==
    ASSUME NEW c \in [Scene -> Flags], TruthfulClips(c),
           NEW i \in Scene, NEW r, Truthful(i, r)
    PROVE  TruthfulClips([c EXCEPT ![i] = r])
BY DEF TruthfulClips

(* Layer::stop.                                                            *)
LEMMA StopTruth ==
    ASSUME NEW l, NEW d, DeckOK(l, d), TruthfulClips(d.clip)
    PROVE  TruthfulClips(stopLayer(d).clip)
<1>1. CASE d.active = NULL
  BY <1>1 DEF stopLayer
<1>2. CASE d.active # NULL
  <2>1. d.active \in Scene /\ d.clip \in [Scene -> Flags]
    BY <1>2 DEF DeckOK, Decks, ClipsOf
  <2>2. Truthful(d.active, stop(d.active, d.clip[d.active]))
    BY <2>1, ClipTruth DEF TruthfulClips
  <2>3. stopLayer(d).clip = [d.clip EXCEPT ![d.active] = stop(d.active, d.clip[d.active])]
    BY <1>2 DEF stopLayer
  <2> QED
    BY <2>1, <2>2, <2>3, ChangeTruth
<1> QED
  BY <1>1, <1>2

(* Layer::playVisualInstance.                                             *)
LEMMA PlayDeckTruth ==
    ASSUME NEW l, NEW d, DeckOK(l, d), TruthfulClips(d.clip), NEW i \in ClipsOf(l)
    PROVE  TruthfulClips(playVisualInstance(d, i).clip)
<1> DEFINE stopped == IF d.active \in {NULL, i} THEN d.clip
                      ELSE [d.clip EXCEPT ![d.active] = stop(d.active, @)]
           shown == [stopped EXCEPT ![i] = play(i, FALSE, stopped[i])]
           switched == IF i = d.active THEN d
                       ELSE [active |-> i, scheduled |-> NULL,
                             clip |-> [stopped EXCEPT ![i] = play(i, FALSE, @)]]
           again == [switched EXCEPT !.clip[i] = retrigger(i, @)]
<1>1. i \in Scene /\ d.clip \in [Scene -> Flags]
  BY DEF ClipsOf, DeckOK, Decks
<1>2. stopped \in [Scene -> Flags] /\ TruthfulClips(stopped)
  <2>1. CASE d.active \in {NULL, i}
    BY <1>1, <2>1
  <2>2. CASE d.active \notin {NULL, i}
    <3>1. d.active \in Scene
      BY <2>2 DEF DeckOK, Decks
    <3>2. Truthful(d.active, stop(d.active, d.clip[d.active]))
      BY <3>1, ClipTruth DEF TruthfulClips
    <3>3. stopped \in [Scene -> Flags]
      BY <2>2, StopActive
    <3> QED
      BY <1>1, <2>2, <3>1, <3>2, <3>3, ChangeTruth
  <2> QED
    BY <2>1, <2>2
<1>3. play(i, FALSE, stopped[i]) \in Flags
  <2>1. Sound(stopped[i])
    BY <1>1, <1>2 DEF TruthfulClips, Truthful, Sound
  <2> QED
    BY <1>1, <1>2, <2>1, PlayClip
<1>4. shown \in [Scene -> Flags] /\ TruthfulClips(shown)
  <2>1. Truthful(i, play(i, FALSE, stopped[i]))
    BY <1>1, <1>2, PlayTruth DEF TruthfulClips
  <2> HIDE DEF stopped
  <2> QED
    BY <1>1, <1>2, <1>3, <2>1, ChangeTruth
<1>5. switched.clip \in [Scene -> Flags] /\ TruthfulClips(switched.clip)
  BY <1>1, <1>4
<1>6. TruthfulClips(again.clip)
  <2>1. switched \in Decks
    BY <1>1, <1>4 DEF Decks, DeckOK
  <2> HIDE DEF switched
  <2>2. again.clip = [switched.clip EXCEPT ![i] = retrigger(i, switched.clip[i])]
    BY <2>1 DEF Decks
  <2>3. Truthful(i, retrigger(i, switched.clip[i]))
    BY <1>1, <1>5, ClipTruth DEF TruthfulClips
  <2> QED
    BY <1>1, <1>5, <2>2, <2>3, ChangeTruth
<1>7. playVisualInstance(d, i).clip \in {d.clip, switched.clip, again.clip}
  <2>1. [d EXCEPT !.scheduled = i].clip = d.clip
    BY DEF DeckOK, Decks
  <2>2. playVisualInstance(d, i) \in {[d EXCEPT !.scheduled = i], switched, again}
    BY DEF playVisualInstance
  <2> QED
    BY <2>1, <2>2
<1> QED
  BY <1>5, <1>6, <1>7

(* The snap branch of Engine::render on one layer.                         *)
LEMMA SnapTruth ==
    ASSUME NEW l, NEW d, DeckOK(l, d), TruthfulClips(d.clip)
    PROVE  TruthfulClips(triggerSchedulled(d).clip)
<1>1. d.clip \in [Scene -> Flags]
  BY DEF DeckOK, Decks
<1>2. CASE d.scheduled # NULL
  <2> DEFINE i == d.scheduled
             stopped == IF d.active # NULL /\ "rolling" \in d.clip[d.active]
                        THEN [d.clip EXCEPT ![d.active] = stop(d.active, @)]
                        ELSE d.clip
             r == play(i, TRUE, stopped[i])
  <2>1. i \in Scene
    BY <1>2 DEF DeckOK, Decks
  <2>2. stopped \in [Scene -> Flags] /\ TruthfulClips(stopped)
    <3>1. CASE d.active # NULL /\ "rolling" \in d.clip[d.active]
      <4>1. d.active \in Scene
        BY <3>1 DEF DeckOK, Decks
      <4>2. Truthful(d.active, stop(d.active, d.clip[d.active]))
        BY <4>1, ClipTruth DEF TruthfulClips
      <4>3. stopped \in [Scene -> Flags]
        BY <3>1, StopActive
      <4> QED
        BY <1>1, <3>1, <4>1, <4>2, <4>3, ChangeTruth
    <3>2. CASE ~(d.active # NULL /\ "rolling" \in d.clip[d.active])
      BY <1>1, <3>2
    <3> QED
      BY <3>1, <3>2
  <2>3. triggerSchedulled(d).clip = [stopped EXCEPT ![i] = r]
    BY <1>2 DEF triggerSchedulled, activateSchedulledInstance
  <2>4. Truthful(i, r)
    BY <2>1, <2>2, PlayTruth DEF TruthfulClips
  <2> HIDE DEF stopped, i, r
  <2>5. TruthfulClips([stopped EXCEPT ![i] = r])
    BY <2>1, <2>2, <2>4, ChangeTruth
  <2> QED
    BY <2>3, <2>5
<1>3. CASE d.scheduled = NULL /\ d.active \in BeatSnap
                              /\ "triggered" \in d.clip[d.active]
  <2> DEFINE r == play(d.active, TRUE, d.clip[d.active])
  <2>1. d.active \in Scene
    BY <1>3, ClipAssumption
  <2>2. triggerSchedulled(d).clip = [d.clip EXCEPT ![d.active] = r]
    BY <1>3 DEF triggerSchedulled, DeckOK, Decks
  <2>3. Truthful(d.active, r)
    BY <2>1, PlayTruth DEF TruthfulClips
  <2> HIDE DEF r
  <2> QED
    BY <1>1, <2>1, <2>2, <2>3, ChangeTruth
<1>4. CASE d.scheduled = NULL /\ ~(d.active \in BeatSnap
                                   /\ "triggered" \in d.clip[d.active])
  BY <1>4 DEF triggerSchedulled
<1> QED
  BY <1>2, <1>3, <1>4

(* Layer::render on one layer.                                             *)
LEMMA RenderTruth ==
    ASSUME NEW l, NEW d, DeckOK(l, d), TruthfulClips(d.clip)
    PROVE  TruthfulClips(renderLayer(d).clip)
<1>1. CASE d.active = NULL
  BY <1>1 DEF renderLayer
<1>2. CASE d.active # NULL
  <2>1. d.active \in Scene /\ d.clip \in [Scene -> Flags]
    BY <1>2 DEF DeckOK, Decks
  <2>2. renderLayer(d).clip
          = [d.clip EXCEPT ![d.active] = autoLoadAndAutoPlayVideo(d.active, d.clip[d.active])]
    BY <1>2 DEF renderLayer, DeckOK, Decks
  <2>3. Truthful(d.active, autoLoadAndAutoPlayVideo(d.active, d.clip[d.active]))
    BY <2>1, DrawTruth DEF TruthfulClips
  <2> QED
    BY <2>1, <2>2, <2>3, ChangeTruth
<1> QED
  BY <1>1, <1>2

(* Engine::setActiveVisualInstance on one layer.                           *)
LEMMA TriggerTruth ==
    ASSUME NEW l \in LayerIds, NEW c, DeckOK(l, Deck(l)), TruthfulClips(clip)
    PROVE  TruthfulClips(trigger(l, c).clip)
<1>1. TruthfulClips(Deck(l).clip)
  BY DEF Deck
<1> QED
  BY <1>1, CellLayer, PlayDeckTruth, StopTruth DEF trigger

(* Storing truthful decks.                                                 *)
LEMMA StoreTruth ==
    ASSUME NEW D, SetDecks(D), \A l \in LayerIds : TruthfulClips(D[l].clip)
    PROVE  TruthfulClips(clip')
BY CellLayer DEF SetDecks, TruthfulClips

(* Every step keeps the clips truthful when no FileManager thread runs.    *)
LEMMA TruthStep ==
    ASSUME ~FileManagerRuns, DeckInv, Truth, [Next]_vars
    PROVE  Truth'
<1>0. closeStep' = closeStep
  <2>1. CASE MainThread
    BY <2>1 DEF MainThread, MainCall, TriggerVisual, PlayVisual, TriggerColumn, StopLayer,
                StopAll, Cleanup, SwitchMetronome, SetTempo, Tap, RenderBegin, RenderEnd,
                fileVars
  <2>2. CASE MetronomeThread \/ \E i \in Scene : MinutePasses(i)
    BY <2>2 DEF MetronomeThread, BeatBegin, BeatCount, BeatTrigger, BeatSnapFlag,
                MinutePasses, fileVars
  <2>3. ~FileManagerThread
    BY DEF FileManagerThread, CleanupCheck, CleanupFlag, CleanupClose, Truth
  <2>4. CASE UNCHANGED vars
    BY <2>4 DEF vars, fileVars
  <2> QED
    BY <2>1, <2>2, <2>3, <2>4 DEF Next
<1> SUFFICES TruthfulClips(clip')
  BY <1>0 DEF Truth
<1>1. /\ \A l \in LayerIds : DeckOK(l, Deck(l)) /\ TruthfulClips(Deck(l).clip)
      /\ TruthfulClips(clip)
      /\ clip \in [Scene -> Flags]
  BY DEF DeckInv, Truth, Deck
<1>2. ASSUME NEW l \in LayerIds, NEW d, TruthfulClips(d.clip), SetDecks(OnLayer(l, d))
      PROVE  TruthfulClips(clip')
  <2>1. \A k \in LayerIds : TruthfulClips(OnLayer(l, d)[k].clip)
    BY <1>1, <1>2 DEF OnLayer
  <2> QED
    BY <1>2, <2>1, StoreTruth
<1>3. ASSUME NEW l \in LayerIds, NEW c \in Columns, TriggerVisual(l, c)
      PROVE  TruthfulClips(clip')
  <2>1. TruthfulClips(trigger(l, c).clip)
    BY <1>1, TriggerTruth
  <2> QED
    BY <1>2, <1>3, <2>1 DEF TriggerVisual
<1>4. ASSUME NEW l \in LayerIds, NEW c \in Columns, PlayVisual(l, c)
      PROVE  TruthfulClips(clip')
  <2> DEFINE i == <<l, c>>
             first == trigger(l, c)
             r == play(i, FALSE, first.clip[i])
             second == [first EXCEPT !.clip[i] = r]
             final == IF i \in Scene THEN second ELSE first
  <2>1. DeckOK(l, first) /\ TruthfulClips(first.clip)
    BY <1>1, TriggerDeck, TriggerTruth
  <2>2. ASSUME i \in Scene PROVE TruthfulClips(second.clip)
    <3>1. Truthful(i, r)
      BY <2>1, <2>2, PlayTruth DEF TruthfulClips
    <3> HIDE DEF first, r
    <3>2. first \in Decks /\ first.clip \in [Scene -> Flags]
      BY <2>1 DEF DeckOK, Decks
    <3>3. second.clip = [first.clip EXCEPT ![i] = r]
      BY <3>2 DEF Decks
    <3> QED
      BY <2>1, <2>2, <3>1, <3>2, <3>3, ChangeTruth
  <2>3. TruthfulClips(final.clip)
    BY <2>1, <2>2
  <2>4. SetDecks(OnLayer(l, final))
    BY <1>4 DEF PlayVisual
  <2> HIDE DEF final
  <2> QED
    BY <1>2, <2>3, <2>4
<1>5. ASSUME NEW c \in Columns, TriggerColumn(c) PROVE TruthfulClips(clip')
  <2>1. PICK hit : SetDecks([l \in LayerIds |-> IF l \in hit THEN trigger(l, c)
                                                ELSE Deck(l)])
    BY <1>5 DEF TriggerColumn
  <2> DEFINE D == [l \in LayerIds |-> IF l \in hit THEN trigger(l, c) ELSE Deck(l)]
  <2>2. \A l \in LayerIds : TruthfulClips(D[l].clip)
    BY <1>1, TriggerTruth
  <2> HIDE DEF D
  <2> QED
    BY <2>1, <2>2, StoreTruth DEF D
<1>6. ASSUME NEW l \in LayerIds, StopLayer(l) PROVE TruthfulClips(clip')
  BY <1>1, <1>2, <1>6, StopTruth DEF StopLayer
<1>7. CASE StopAll
  <2> DEFINE D == [l \in LayerIds |-> stopLayer(Deck(l))]
  <2>1. \A l \in LayerIds : TruthfulClips(D[l].clip)
    BY <1>1, StopTruth
  <2>2. SetDecks(D)
    BY <1>7 DEF StopAll
  <2> HIDE DEF D
  <2> QED
    BY <2>1, <2>2, StoreTruth
<1>8. CASE Cleanup
  <2>1. \A i \in Scene : Truthful(i, clip[i]) /\ Truthful(i, unloadVideo(clip[i]))
    BY <1>1, ClipTruth DEF TruthfulClips
  <2> QED
    BY <1>8, <2>1 DEF Cleanup, TruthfulClips
<1>9. CASE RenderEnd
  <2> DEFINE snapThrowers == {l \in LayerIds : snapInProgress /\ throwsOnSnap(l)}
             Snapped(l) == IF snapInProgress /\ reached(l, snapThrowers)
                           THEN triggerSchedulled(Deck(l)) ELSE Deck(l)
             drawThrowers == {l \in LayerIds : Snapped(l).active \in Missing}
             Drawn(l) == IF snapThrowers = {} /\ reached(l, drawThrowers)
                         THEN renderLayer(Snapped(l)) ELSE Snapped(l)
             D == [l \in LayerIds |-> Drawn(l)]
  <2>1. SetDecks(D)
    BY <1>9 DEF RenderEnd
  <2>2. \A l \in LayerIds : DeckOK(l, Snapped(l)) /\ TruthfulClips(Snapped(l).clip)
    BY <1>1, SnapDeck, SnapTruth
  <2> HIDE DEF Snapped, snapThrowers, drawThrowers
  <2>3. \A l \in LayerIds : TruthfulClips(D[l].clip)
    BY <2>2, RenderTruth
  <2> HIDE DEF D
  <2> QED
    BY <2>1, <2>3, StoreTruth
<1>10. ASSUME NEW i \in Scene, MinutePasses(i) PROVE TruthfulClips(clip')
  BY <1>1, <1>10, ClipTruth, ChangeTruth DEF MinutePasses, TruthfulClips
<1>11. CASE UNCHANGED clip
  BY <1>1, <1>11
<1>12. CASE SwitchMetronome \/ SetTempo \/ Tap \/ RenderBegin
  BY <1>11, <1>12 DEF SwitchMetronome, SetTempo, Tap, RenderBegin, deckVars
<1>13. CASE MetronomeThread
  BY <1>11, <1>13 DEF MetronomeThread, BeatBegin, BeatCount, BeatTrigger, BeatSnapFlag,
                     deckVars
<1>14. ~FileManagerThread
  BY DEF FileManagerThread, CleanupCheck, CleanupFlag, CleanupClose, Truth
<1>15. CASE UNCHANGED vars
  BY <1>11, <1>15 DEF vars, deckVars
<1> QED
  BY <1>3, <1>4, <1>5, <1>6, <1>7, <1>8, <1>9, <1>10, <1>12, <1>13, <1>14, <1>15
     DEF Next, MainThread

(* What the clients see of a clip agrees with its player, in any scene and *)
(* under any interleaving of the host's calls and the beats, if the host   *)
(* runs no FileManager (VisualInstance play, stop, loadVideo, unloadVideo).*)
THEOREM PlayingFlagAlwaysTruthful == Spec => []PlayingFlagTruthful
<1>1. CASE FileManagerRuns
  <2>1. PlayingFlagTruthful
    BY <1>1 DEF PlayingFlagTruthful
  <2> QED
    BY <2>1, PTL
<1>2. CASE ~FileManagerRuns
  <2>1. Init => DeckInv /\ Truth
    BY InitialDecks DEF Init, Truth, TruthfulClips, Truthful
  <2>2. DeckInv /\ Truth /\ [Next]_vars => DeckInv' /\ Truth'
    BY <1>2, DeckStep, TruthStep
  <2>3. Truth => PlayingFlagTruthful
    BY DEF Truth, TruthfulClips, Truthful, PlayingFlagTruthful, Is
  <2> QED
    BY <2>1, <2>2, <2>3, PTL DEF Spec
<1> QED
  BY <1>1, <1>2

-----------------------------------------------------------------------------
(* Beat snap.  Unforced, none of the operations starts the player of a     *)
(* clip that waits for the beat.                                           *)

Silent(c, i) == "rolling" \notin c[i]

(* The operations of VisualInstance.                                       *)
LEMMA SilentClip ==
    ASSUME NEW i, NEW r, waitsForBeat(i), "rolling" \notin r
    PROVE  /\ "rolling" \notin stop(i, r)
           /\ "rolling" \notin retrigger(i, r)
           /\ "rolling" \notin play(i, FALSE, r)
           /\ "rolling" \notin autoLoadAndAutoPlayVideo(i, r)
<1>1. "rolling" \notin loadVideo(i, r) /\ "rolling" \notin stop(i, r)
      /\ "rolling" \notin retrigger(i, r)
  BY DEF loadVideo, stop, retrigger
<1>2. \A q : "rolling" \notin q => "rolling" \notin play(i, FALSE, q)
  BY DEF play, loadVideo
<1> DEFINE opened == IF "loaded" \in r THEN r ELSE loadVideo(i, r)
<1>3. "rolling" \notin opened
  BY <1>1
<1>4. autoLoadAndAutoPlayVideo(i, r) \in {r, opened, play(i, FALSE, opened)}
  BY DEF autoLoadAndAutoPlayVideo
<1> HIDE DEF opened
<1> QED
  BY <1>1, <1>2, <1>3, <1>4

(* Changing one clip.                                                      *)
LEMMA SilentChange ==
    ASSUME NEW c \in [Scene -> Flags], NEW i \in Scene, Silent(c, i),
           NEW j \in Scene, NEW r, j = i => "rolling" \notin r
    PROVE  Silent([c EXCEPT ![j] = r], i)
BY DEF Silent

(* Layer::stop and Layer::render.                                          *)
LEMMA SilentStop ==
    ASSUME NEW l, NEW d, DeckOK(l, d), NEW i \in Scene, waitsForBeat(i), Silent(d.clip, i)
    PROVE  Silent(stopLayer(d).clip, i) /\ Silent(renderLayer(d).clip, i)
<1>1. CASE d.active = NULL
  BY <1>1 DEF stopLayer, renderLayer
<1>2. CASE d.active # NULL
  <2> DEFINE s == stop(d.active, d.clip[d.active])
             r == autoLoadAndAutoPlayVideo(d.active, d.clip[d.active])
  <2>1. d.active \in Scene /\ d.clip \in [Scene -> Flags]
    BY <1>2 DEF DeckOK, Decks
  <2>2. d.active = i => "rolling" \notin s /\ "rolling" \notin r
    BY SilentClip DEF Silent
  <2>3. /\ stopLayer(d).clip = [d.clip EXCEPT ![d.active] = s]
        /\ renderLayer(d).clip = [d.clip EXCEPT ![d.active] = r]
    BY <1>2 DEF stopLayer, renderLayer, DeckOK, Decks
  <2> HIDE DEF s, r
  <2>4. Silent([d.clip EXCEPT ![d.active] = s], i)
    BY <2>1, <2>2, SilentChange
  <2>5. Silent([d.clip EXCEPT ![d.active] = r], i)
    BY <2>1, <2>2, SilentChange
  <2> QED
    BY <2>3, <2>4, <2>5
<1> QED
  BY <1>1, <1>2

(* Layer::playVisualInstance, of this clip or another.                     *)
LEMMA SilentPlay ==
    ASSUME NEW l, NEW d, DeckOK(l, d), NEW i \in Scene, waitsForBeat(i), Silent(d.clip, i),
           NEW j \in ClipsOf(l)
    PROVE  Silent(playVisualInstance(d, j).clip, i)
<1> DEFINE stopped == IF d.active \in {NULL, j} THEN d.clip
                      ELSE [d.clip EXCEPT ![d.active] = stop(d.active, @)]
           p == play(j, FALSE, stopped[j])
           shown == [stopped EXCEPT ![j] = p]
           switched == IF j = d.active THEN d
                       ELSE [active |-> j, scheduled |-> NULL, clip |-> shown]
           again == [switched EXCEPT !.clip[j] = retrigger(j, @)]
<1>1. j \in Scene /\ d.clip \in [Scene -> Flags]
  BY DEF ClipsOf, DeckOK, Decks
<1>2. /\ stopped \in [Scene -> Flags]
      /\ \A k \in Scene : Sound(stopped[k])
      /\ Silent(stopped, i)
  <2>1. CASE d.active \in {NULL, j}
    BY <1>1, <2>1 DEF DeckOK
  <2>2. CASE d.active \notin {NULL, j}
    <3> DEFINE q == stop(d.active, d.clip[d.active])
    <3>1. d.active \in Scene
      BY <2>2 DEF DeckOK, Decks
    <3>2. d.active = i => "rolling" \notin q
      BY SilentClip DEF Silent
    <3>3. stopped \in [Scene -> Flags] /\ \A k \in Scene : Sound(stopped[k])
      BY <2>2, StopActive
    <3>4. stopped = [d.clip EXCEPT ![d.active] = q]
      BY <2>2
    <3> HIDE DEF stopped, q
    <3> QED
      BY <1>1, <3>1, <3>2, <3>3, <3>4, SilentChange
  <2> QED
    BY <2>1, <2>2
<1>3. p \in Flags /\ (j = i => "rolling" \notin p)
  BY <1>1, <1>2, PlayClip, SilentClip DEF Silent
<1> HIDE DEF stopped, p
<1>4. shown \in [Scene -> Flags] /\ Silent(shown, i)
  BY <1>1, <1>2, <1>3, SilentChange
<1> HIDE DEF shown
<1>5. switched \in Decks /\ Silent(switched.clip, i)
  BY <1>1, <1>4 DEF Decks, DeckOK
<1>6. Silent(again.clip, i)
  <2> HIDE DEF switched
  <2> DEFINE q == retrigger(j, switched.clip[j])
  <2>1. again.clip = [switched.clip EXCEPT ![j] = q] /\ switched.clip \in [Scene -> Flags]
    BY <1>5 DEF Decks
  <2>2. j = i => "rolling" \notin q
    BY <1>5, SilentClip DEF Silent
  <2> HIDE DEF q
  <2> QED
    BY <1>1, <1>5, <2>1, <2>2, SilentChange
<1>7. playVisualInstance(d, j).clip \in {d.clip, switched.clip, again.clip}
  <2>1. [d EXCEPT !.scheduled = j].clip = d.clip
    BY DEF DeckOK, Decks
  <2>2. playVisualInstance(d, j) \in {[d EXCEPT !.scheduled = j], switched, again}
    BY DEF playVisualInstance, shown, p, stopped
  <2> HIDE DEF switched
  <2> QED
    BY <2>1, <2>2
<1> HIDE DEF switched
<1> QED
  BY <1>5, <1>6, <1>7

(* A step other than a snapping render leaves a waiting clip silent.       *)
LEMMA SilentStep ==
    ASSUME DeckInv, Next, NEW i \in BeatSnap, metronomeOn, Silent(clip, i),
           ~(renderPc = "read" /\ snapInProgress)
    PROVE  Silent(clip', i)
<1>1. /\ i \in Scene /\ i[1] \in LayerIds
      /\ waitsForBeat(i)
      /\ clip \in [Scene -> Flags]
  BY ClipAssumption, CellLayer DEF waitsForBeat, DeckInv
<1>2. \A l \in LayerIds : DeckOK(l, Deck(l)) /\ Silent(Deck(l).clip, i)
  BY DEF DeckInv, Deck
<1>3. \A l \in LayerIds : \A c : Silent(trigger(l, c).clip, i)
  BY <1>1, <1>2, CellLayer, SilentStop, SilentPlay DEF trigger
<1>4. ASSUME NEW D, SetDecks(D), \A l \in LayerIds : Silent(D[l].clip, i)
      PROVE  Silent(clip', i)
  BY <1>1, <1>4 DEF SetDecks, Silent
<1>5. ASSUME NEW l \in LayerIds, NEW d, SetDecks(OnLayer(l, d)), Silent(d.clip, i)
      PROVE  Silent(clip', i)
  <2>1. \A k \in LayerIds : Silent(OnLayer(l, d)[k].clip, i)
    BY <1>2, <1>5 DEF OnLayer
  <2> QED
    BY <1>4, <1>5, <2>1
<1>6. ASSUME NEW l \in LayerIds, NEW c \in Columns, TriggerVisual(l, c)
      PROVE  Silent(clip', i)
  BY <1>3, <1>5, <1>6 DEF TriggerVisual
<1>7. ASSUME NEW l \in LayerIds, NEW c \in Columns, PlayVisual(l, c)
      PROVE  Silent(clip', i)
  <2> DEFINE j == <<l, c>>
             first == trigger(l, c)
             r == play(j, FALSE, first.clip[j])
             second == [first EXCEPT !.clip[j] = r]
             final == IF j \in Scene THEN second ELSE first
  <2>1. SetDecks(OnLayer(l, final))
    BY <1>7 DEF PlayVisual
  <2>2. DeckOK(l, first) /\ Silent(first.clip, i)
    BY <1>2, <1>3, TriggerDeck
  <2>3. ASSUME j \in Scene PROVE Silent(second.clip, i)
    <3>1. j = i => "rolling" \notin r
      BY <1>1, <2>2, SilentClip DEF Silent
    <3> HIDE DEF r, first
    <3>2. /\ first.clip \in [Scene -> Flags]
          /\ second.clip = [first.clip EXCEPT ![j] = r]
      BY <2>2 DEF DeckOK, Decks
    <3> QED
      BY <1>1, <2>2, <2>3, <3>1, <3>2, SilentChange
  <2>4. Silent(final.clip, i)
    BY <2>2, <2>3
  <2> HIDE DEF final
  <2> QED
    BY <1>5, <2>1, <2>4
<1>8. ASSUME NEW c \in Columns, TriggerColumn(c) PROVE Silent(clip', i)
  <2>1. PICK hit : SetDecks([l \in LayerIds |-> IF l \in hit THEN trigger(l, c)
                                                ELSE Deck(l)])
    BY <1>8 DEF TriggerColumn
  <2> DEFINE D == [l \in LayerIds |-> IF l \in hit THEN trigger(l, c) ELSE Deck(l)]
  <2>2. \A l \in LayerIds : Silent(D[l].clip, i)
    BY <1>2, <1>3
  <2> HIDE DEF D
  <2> QED
    BY <1>4, <2>1, <2>2 DEF D
<1>9. ASSUME NEW l \in LayerIds, StopLayer(l) PROVE Silent(clip', i)
  BY <1>1, <1>2, <1>5, <1>9, SilentStop DEF StopLayer
<1>10. CASE StopAll
  <2> DEFINE D == [l \in LayerIds |-> stopLayer(Deck(l))]
  <2>1. SetDecks(D) /\ \A l \in LayerIds : Silent(D[l].clip, i)
    BY <1>1, <1>2, <1>10, SilentStop DEF StopAll
  <2> HIDE DEF D
  <2> QED
    BY <1>4, <2>1
<1>11. CASE RenderEnd
  <2>1. ~snapInProgress
    BY <1>11 DEF RenderEnd
  <2>2. PICK drawn : SetDecks([l \in LayerIds |-> IF l \in drawn THEN renderLayer(Deck(l))
                                                  ELSE Deck(l)])
    <3> DEFINE snapThrowers == {l \in LayerIds : snapInProgress /\ throwsOnSnap(l)}
               Snapped(l) == IF snapInProgress /\ reached(l, snapThrowers)
                             THEN triggerSchedulled(Deck(l)) ELSE Deck(l)
               drawThrowers == {l \in LayerIds : Snapped(l).active \in Missing}
               Drawn(l) == IF snapThrowers = {} /\ reached(l, drawThrowers)
                           THEN renderLayer(Snapped(l)) ELSE Snapped(l)
               drawn == {l \in LayerIds : snapThrowers = {} /\ reached(l, drawThrowers)}
    <3>1. SetDecks([l \in LayerIds |-> Drawn(l)])
      BY <1>11 DEF RenderEnd
    <3>2. \A l \in LayerIds : Snapped(l) = Deck(l)
      BY <2>1
    <3> HIDE DEF snapThrowers, Snapped, drawThrowers
    <3>3. [l \in LayerIds |-> Drawn(l)]
            = [l \in LayerIds |-> IF l \in drawn THEN renderLayer(Deck(l)) ELSE Deck(l)]
      BY <3>2
    <3> QED
      BY <3>1, <3>3
  <2> DEFINE D == [l \in LayerIds |-> IF l \in drawn THEN renderLayer(Deck(l)) ELSE Deck(l)]
  <2>3. \A l \in LayerIds : Silent(D[l].clip, i)
    BY <1>1, <1>2, SilentStop
  <2> HIDE DEF D
  <2> QED
    BY <1>4, <2>2, <2>3 DEF D
<1>12. CASE Cleanup
  BY <1>1, <1>12 DEF Cleanup, unloadVideo, Silent
<1>13. CASE CleanupFlag \/ CleanupClose \/ \E k \in Scene : MinutePasses(k)
  <2>1. CASE CleanupFlag
    BY <1>1, <2>1 DEF CleanupFlag, Silent
  <2>2. CASE CleanupClose
    BY <1>1, <2>2 DEF CleanupClose, Silent
  <2>3. ASSUME NEW k \in Scene, MinutePasses(k) PROVE Silent(clip', i)
    BY <1>1, <2>3 DEF MinutePasses, Silent
  <2> QED
    BY <1>13, <2>1, <2>2, <2>3
<1>14. CASE UNCHANGED clip
  BY <1>14
<1>15. CASE SwitchMetronome \/ SetTempo \/ Tap \/ RenderBegin \/ MetronomeThread
            \/ \E k \in Scene : CleanupCheck(k)
  BY <1>14, <1>15 DEF SwitchMetronome, SetTempo, Tap, RenderBegin, MetronomeThread,
                      BeatBegin, BeatCount, BeatTrigger, BeatSnapFlag, CleanupCheck, deckVars
<1> QED
  BY <1>6, <1>7, <1>8, <1>9, <1>10, <1>11, <1>12, <1>13, <1>15
     DEF Next, MainThread, FileManagerThread

(* While the metronome is on, only the snap branch of Engine::render       *)
(* starts a beat-snapped clip (VisualInstance::play, autoLoadAndAutoPlay-  *)
(* Video and retrigger leave it to the beat).                              *)
THEOREM SnappedAlwaysStartsOnSnap == Spec => SnappedStartsOnSnap
<1> DEFINE Started == \A i \in BeatSnap :
                          metronomeOn /\ ~Is(i, "rolling") /\ Is(i, "rolling")'
                              => renderPc = "read" /\ snapInProgress
<1>1. DeckInv /\ [Next]_vars => [Started]_vars
  <2> SUFFICES ASSUME DeckInv, Next, NEW i \in BeatSnap, metronomeOn,
                      "rolling" \notin clip[i], "rolling" \in clip'[i]
               PROVE  renderPc = "read" /\ snapInProgress
    BY Zenon DEF Is
  <2> QED
    BY SilentStep DEF Silent
<1>2. Init => DeckInv
  BY InitialDecks
<1> QED
  BY <1>1, <1>2, DeckStep, PTL DEF Spec, SnappedStartsOnSnap

-----------------------------------------------------------------------------
(* Types.                                                                  *)

(* The three flags stay Booleans.                                          *)
LEMMA FlagStep == FlagsOK /\ [Next]_vars => FlagsOK'
<1> SUFFICES ASSUME FlagsOK, [Next]_vars PROVE FlagsOK'
  OBVIOUS
<1> USE DEF FlagsOK
<1>1. CASE \/ \E l \in LayerIds, c \in Columns : TriggerVisual(l, c) \/ PlayVisual(l, c)
           \/ \E c \in Columns : TriggerColumn(c)
           \/ \E l \in LayerIds : StopLayer(l)
           \/ StopAll \/ Cleanup
  BY <1>1 DEF MainCall, TriggerVisual, PlayVisual, TriggerColumn, StopLayer, StopAll,
              Cleanup
<1>2. CASE SwitchMetronome \/ SetTempo \/ Tap \/ RenderBegin \/ RenderEnd
  BY <1>2 DEF SwitchMetronome, startMetronome, stopMetronome, SetTempo, Tap, RenderBegin,
              RenderEnd, beatVars
<1>3. CASE MetronomeThread
  BY <1>3 DEF MetronomeThread, BeatBegin, BeatCount, BeatTrigger, BeatSnapFlag
<1>4. CASE FileManagerThread \/ \E i \in Scene : MinutePasses(i)
  BY <1>4 DEF FileManagerThread, CleanupCheck, CleanupFlag, CleanupClose, MinutePasses,
              beatVars
<1>5. CASE UNCHANGED vars
  BY <1>5 DEF vars, beatVars
<1> QED
  BY <1>1, <1>2, <1>3, <1>4, <1>5 DEF Next, MainThread

(* The thread positions and the beat counter stay in range.                *)
LEMMA RangeStep == RangesOK /\ [Next]_vars => RangesOK'
<1> SUFFICES ASSUME RangesOK, [Next]_vars PROVE RangesOK'
  OBVIOUS
<1> USE DEF RangesOK
<1>1. CASE \/ \E l \in LayerIds, c \in Columns : TriggerVisual(l, c) \/ PlayVisual(l, c)
           \/ \E c \in Columns : TriggerColumn(c)
           \/ \E l \in LayerIds : StopLayer(l)
           \/ StopAll \/ Cleanup
  <2>1. MainCall
    BY <1>1 DEF TriggerVisual, PlayVisual, TriggerColumn, StopLayer, StopAll, Cleanup
  <2> QED
    BY <2>1 DEF MainCall, fileVars
<1>2. CASE SwitchMetronome \/ SetTempo \/ Tap \/ RenderBegin \/ RenderEnd
  BY <1>2 DEF SwitchMetronome, startMetronome, stopMetronome, SetTempo, Tap,
              restartMetronome, RenderBegin, RenderEnd, beatVars, fileVars
<1>3. CASE MetronomeThread
  BY <1>3, BeatAssumption
     DEF MetronomeThread, BeatBegin, BeatCount, BeatTrigger, BeatSnapFlag, nextCounter,
         fileVars
<1>4. CASE FileManagerThread \/ \E i \in Scene : MinutePasses(i)
  BY <1>4 DEF FileManagerThread, CleanupCheck, CleanupFlag, CleanupClose, MinutePasses,
              beatVars, fileVars, Pointer
<1>5. CASE UNCHANGED vars
  BY <1>5 DEF vars, beatVars, fileVars
<1> QED
  BY <1>1, <1>2, <1>3, <1>4, <1>5 DEF Next, MainThread

(* Layers only ever point to clips of the scene, and the beat counter      *)
(* stays within its limit.                                                 *)
THEOREM TypeCorrect == Spec => []TypeOK
<1>1. Init => DeckInv
  BY InitialDecks
<1>2. Init => FlagsOK
  BY DEF Init, FlagsOK
<1>3. Init => RangesOK
  BY BeatAssumption DEF Init, RangesOK, Pointer
<1>4. DeckInv => DecksTyped
  BY DEF DeckInv, DecksTyped, Pointer, Flags
<1> QED
  BY <1>1, <1>2, <1>3, <1>4, DeckStep, FlagStep, RangeStep, PTL DEF Spec, TypeOK
=============================================================================
