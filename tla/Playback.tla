------------------------------- MODULE Playback -------------------------------
(***************************************************************************)
(* Triggering, scheduling and stopping clips: Layer (Main/Layer.mm),       *)
(* VisualInstance (Visuals/VisualInstance.mm) and the operations of Engine *)
(* that drive them, with the beat-snap flags of EngineProperties.          *)
(*                                                                         *)
(* Three threads take part: the main thread (the host's Engine calls and   *)
(* render), the metronome thread (Engine::beat) and the thread that closes *)
(* idle video files (FileManager).  None of the flags they share is        *)
(* protected by a lock, and EngineProperties::getInstance() resets         *)
(* beatSnapInProgress on every call, from either thread.                   *)
(*                                                                         *)
(* A clip is the cell <<layer, column>> it occupies in the current scene.  *)
(* The engine is set up: it has layers, a scene and a buffer.              *)
(***************************************************************************)
EXTENDS Integers, FiniteSets

CONSTANTS
    NLayers,       \* number of layers
    Scene,         \* the cells of the current scene that hold a clip
    NColumns,      \* columns the host may name, filled or not
    Cameras,       \* clips that show a camera; the others are video files
    Missing,       \* video clips whose file cannot be opened
    BeatSnap,      \* clips with the beatSnap property
    Retrigger,     \* clips with the retrigger property (the default)
    CounterLimit,  \* 32 in EngineProperties::beat
    BeatsToSnap,   \* 4 in EngineProperties::setDefaults
    FileManagerRuns, \* the host runs a FileManager thread
    NULL           \* the null pointer

LayerIds == 0 .. NLayers - 1
Columns == 0 .. NColumns - 1

ASSUME SizeAssumption == NLayers \in Nat /\ NColumns \in Nat
ASSUME SceneAssumption == Scene \subseteq LayerIds \X Columns
ASSUME ClipAssumption ==
    /\ Cameras \subseteq Scene
    /\ Missing \subseteq Scene \ Cameras
    /\ BeatSnap \subseteq Scene
    /\ Retrigger \subseteq Scene
ASSUME NullAssumption == NULL \notin Scene
ASSUME FileManagerAssumption == FileManagerRuns \in BOOLEAN
ASSUME BeatAssumption == CounterLimit \in Nat /\ BeatsToSnap \in Nat \ {0}

VARIABLES
    active,          \* Layer::activeInstance, per layer
    scheduled,       \* Layer::schedulledInstance, per layer
    clip,            \* per clip: the player's and the properties' flags
    metronomeOn,     \* EngineProperties::metronomeOn
    clock,           \* the metronome thread: "off", "on" or "draining"
    beatsCounter,    \* EngineProperties::beatsCounter
    triggeringBeat,  \* EngineProperties::triggeringBeat
    snapInProgress,  \* EngineProperties::beatSnapInProgress
    beatPc,          \* where the metronome thread is inside Engine::beat
    renderPc,        \* where the main thread is inside Engine::render
    closing,         \* the clip FileManager is about to close, or NULL
    closeStep        \* where FileManager's thread is inside unloadVideo

deckVars == <<active, scheduled, clip>>
beatVars == <<beatsCounter, triggeringBeat, snapInProgress, beatPc>>
fileVars == <<closing, closeStep>>
vars == <<deckVars, metronomeOn, clock, beatVars, renderPc, fileVars>>

(* A clip is the set of its flags that are set: "loaded" and "rolling" are *)
(* the player's isLoaded() and isPlaying(), "playing" and "triggered" the  *)
(* properties isPlaying and isTriggered, and "idle" says that more than    *)
(* the minute of checkCloseCondition has passed since the clip was last    *)
(* opened or played.                                                       *)
Flag == {"loaded", "rolling", "playing", "triggered", "idle"}

Init ==
    /\ active = [l \in LayerIds |-> NULL]
    /\ scheduled = [l \in LayerIds |-> NULL]
    /\ clip = [i \in Scene |-> {}]
    /\ metronomeOn = FALSE
    /\ clock = "off"
    /\ beatsCounter = 0
    /\ triggeringBeat = FALSE
    /\ snapInProgress = FALSE
    /\ beatPc = "idle"
    /\ renderPc = "idle"
    /\ closing = NULL
    /\ closeStep = "idle"

-----------------------------------------------------------------------------
(* VisualInstance: each operator maps the flags r of clip i to their new   *)
(* value.                                                                  *)

waitsForBeat(i) == i \in BeatSnap /\ metronomeOn

(* loadVideo, which throws after clearing isPlaying when the file cannot be *)
(* opened: checkFileExists may return garbage (fileExists is not           *)
(* initialised), but then the player's load fails and throws as well.      *)
loadVideo(i, r) ==
    IF i \in Missing THEN r \ {"playing"}
    ELSE (r \ {"playing", "rolling", "idle"}) \cup {"loaded"}

play(i, forcePlay, r) ==
    LET reset == r \ {"triggered", "idle"}
        opened == IF "loaded" \in r THEN reset ELSE loadVideo(i, reset)
    IN  IF i \in Cameras THEN reset \cup {"playing"}
        ELSE IF "loaded" \notin opened THEN opened
        ELSE IF waitsForBeat(i) /\ ~forcePlay
             THEN opened \cup {"triggered", "playing"}
             ELSE opened \cup {"rolling", "playing"}

retrigger(i, r) ==
    IF waitsForBeat(i) THEN r \cup {"triggered"} ELSE r \ {"idle"}

\* Mutant: a stop that leaves the property isPlaying set.
stopFlagLeft(i, r) ==
    IF i \in Cameras \/ "loaded" \in r THEN r \ {"rolling"} ELSE r

stop(i, r) ==
    IF i \in Cameras \/ "loaded" \in r THEN r \ {"rolling", "playing"} ELSE r

\* Mutants: draw plays a clip without waiting for the beat, or opens the
\* file and does not play it.
autoPlayForced(i, r) ==
    IF i \in Cameras \/ i \in Missing \/ {"rolling", "playing"} \subseteq r THEN r
    ELSE play(i, TRUE, r)
autoLoadOnly(i, r) ==
    IF i \in Cameras \/ "loaded" \in r THEN r ELSE loadVideo(i, r)

autoLoadAndAutoPlayVideo(i, r) ==
    LET opened == IF "loaded" \in r THEN r ELSE loadVideo(i, r)
    IN  IF i \in Cameras THEN r
        ELSE IF "loaded" \notin opened \/ {"rolling", "playing"} \subseteq opened
             THEN opened
             ELSE play(i, FALSE, opened)

unloadVideo(r) == r \ {"playing", "loaded", "rolling"}

\* checkCloseCondition.
mayClose(r) == "rolling" \notin r /\ "idle" \in r

-----------------------------------------------------------------------------
(* Layer: each operator maps a deck (a layer's two pointers, and the       *)
(* clips) to its new value.                                                *)

Deck(l) == [active |-> active[l], scheduled |-> scheduled[l], clip |-> clip]

stopLayer(d) ==
    IF d.active = NULL
    THEN d
    ELSE [active |-> NULL, scheduled |-> NULL,
          clip |-> [d.clip EXCEPT ![d.active] = stop(d.active, @)]]

playVisualInstance(d, i) ==
    IF waitsForBeat(i) /\ ~triggeringBeat
    THEN [d EXCEPT !.scheduled = i]
    ELSE LET stopped == IF d.active \in {NULL, i} THEN d.clip
                        ELSE [d.clip EXCEPT ![d.active] = stop(d.active, @)]
             switched == IF i = d.active THEN d
                         ELSE [active |-> i, scheduled |-> NULL,
                               clip |-> [stopped EXCEPT ![i] = play(i, FALSE, @)]]
             threw == i # d.active /\ i \in Missing
         IN  IF i \in Retrigger /\ ~threw
             THEN [switched EXCEPT !.clip[i] = retrigger(i, @)]
             ELSE switched

\* Mutant: the scheduled clip starts beside the one it replaces.
activateBeside(d) ==
    [active |-> d.scheduled, scheduled |-> NULL,
     clip |-> [d.clip EXCEPT ![d.scheduled] = play(d.scheduled, TRUE, @)]]

activateSchedulledInstance(d) ==
    LET i == d.scheduled
        stopped == IF d.active # NULL /\ "rolling" \in d.clip[d.active]
                   THEN [d.clip EXCEPT ![d.active] = stop(d.active, @)]
                   ELSE d.clip
    IN  [active |-> i, scheduled |-> NULL,
         clip |-> [stopped EXCEPT ![i] = play(i, TRUE, @)]]

\* The body of Engine::triggerSchedulledVisualsOnAllLayers for one layer.
triggerSchedulled(d) ==
    IF d.scheduled # NULL THEN activateSchedulledInstance(d)
    ELSE IF d.active \in BeatSnap /\ "triggered" \in d.clip[d.active]
    THEN [d EXCEPT !.clip[d.active] = play(d.active, TRUE, @)]
    ELSE d

\* Layer::render, as far as it changes the active clip.
renderLayer(d) ==
    IF d.active = NULL THEN d
    ELSE [d EXCEPT !.clip[d.active] = autoLoadAndAutoPlayVideo(d.active, @)]

-----------------------------------------------------------------------------
(* Engine.  A loop over the layers is left by the exception of the first   *)
(* layer that cannot open its file: the layers after it are not reached.   *)

reached(l, throwers) == ~ \E k \in throwers : k < l

SetDecks(D) ==
    /\ active' = [l \in LayerIds |-> D[l].active]
    /\ scheduled' = [l \in LayerIds |-> D[l].scheduled]
    /\ clip' = [i \in Scene |-> D[i[1]].clip[i]]

\* The decks when only layer l changes.
OnLayer(l, d) == [k \in LayerIds |-> IF k = l THEN d ELSE Deck(k)]

\* Engine::setActiveVisualInstance on an existing layer; by the default of
\* SetProperties an empty cell stops the layer.
trigger(l, c) ==
    IF <<l, c>> \in Scene THEN playVisualInstance(Deck(l), <<l, c>>)
                          ELSE stopLayer(Deck(l))

(* Every main-thread operation below runs while no render is in progress   *)
(* and ends with beatSnapInProgress reset, if it looked at the properties. *)
MainCall ==
    /\ renderPc = "idle"
    /\ UNCHANGED <<clock, metronomeOn, beatsCounter, triggeringBeat, beatPc,
                   renderPc, fileVars>>

looksAtProperties(i) == i \in BeatSnap

TriggerVisual(l, c) ==
    /\ MainCall
    /\ SetDecks(OnLayer(l, trigger(l, c)))
    /\ snapInProgress' = (snapInProgress /\ ~looksAtProperties(<<l, c>>))

TriggerColumn(c) ==
    LET throwers == {l \in LayerIds : /\ <<l, c>> \in Missing
                                      /\ active[l] # <<l, c>>
                                      /\ ~(waitsForBeat(<<l, c>>) /\ ~triggeringBeat)}
        hit == {l \in LayerIds : reached(l, throwers)}
    IN  /\ MainCall
        /\ SetDecks([l \in LayerIds |-> IF l \in hit THEN trigger(l, c) ELSE Deck(l)])
        /\ snapInProgress' = (snapInProgress /\ ~ \E l \in hit : looksAtProperties(<<l, c>>))

(* Engine::play: setActiveVisualInstance and then play() once more on the  *)
(* instance, even when the layer only scheduled it.                        *)
PlayVisual(l, c) ==
    LET i == <<l, c>>
        first == trigger(l, c)
        second == [first EXCEPT !.clip[i] = play(i, FALSE, @)]
    IN  /\ MainCall
        /\ SetDecks(OnLayer(l, IF i \in Scene THEN second ELSE first))
        /\ snapInProgress' = (snapInProgress /\ ~looksAtProperties(i))

StopLayer(l) ==
    /\ MainCall
    /\ SetDecks(OnLayer(l, stopLayer(Deck(l))))
    /\ UNCHANGED snapInProgress

StopAll ==
    /\ MainCall
    /\ SetDecks([l \in LayerIds |-> stopLayer(Deck(l))])
    /\ UNCHANGED snapInProgress

\* Engine::cleanup called by the host: close the files nobody plays.
Cleanup ==
    /\ MainCall
    /\ clip' = [i \in Scene |-> IF mayClose(clip[i]) /\ i \notin Cameras
                                THEN unloadVideo(clip[i]) ELSE clip[i]]
    /\ UNCHANGED <<active, scheduled, snapInProgress>>

(* startMetronome and stopMetronome, with the thread as BeatClock has it:  *)
(* a stop may leave one beat to come, and a start is refused while the     *)
(* thread that was stopped has not ended (Metronome shows when).           *)
startMetronome ==
    /\ metronomeOn' = TRUE
    /\ clock' \in (IF clock = "off" THEN {"off", "on"} ELSE {clock})

stopMetronome ==
    /\ metronomeOn' = FALSE
    /\ clock' \in (IF clock = "on" THEN {"off", "draining"} ELSE {clock})

SwitchMetronome ==
    /\ renderPc = "idle"
    /\ startMetronome \/ stopMetronome
    /\ snapInProgress' = FALSE
    /\ UNCHANGED <<deckVars, beatsCounter, triggeringBeat, beatPc, renderPc, fileVars>>

(* resetMetronome and setBPM stop the thread, wait until it has ended and  *)
(* start it, also when the metronome was off; setBPM does nothing to it    *)
(* when the old tempo is a multiple of 256.                                *)
restartMetronome ==
    \/ UNCHANGED clock
    \/ clock # "draining" /\ beatPc = "idle" /\ clock' = "on"

SetTempo ==
    /\ renderPc = "idle"
    /\ restartMetronome
    /\ UNCHANGED <<deckVars, metronomeOn, beatVars, renderPc, fileVars>>

\* Engine::tap, whose store to taps[-1] overwrites the three flags.
Tap ==
    /\ renderPc = "idle"
    /\ restartMetronome
    /\ metronomeOn' \in BOOLEAN
    /\ triggeringBeat' \in BOOLEAN
    /\ snapInProgress' \in BOOLEAN
    /\ UNCHANGED <<deckVars, beatsCounter, beatPc, renderPc, fileVars>>

\* Engine::render, first half: getInstance() resets the flag render reads next.
RenderBegin ==
    /\ renderPc = "idle"
    /\ renderPc' = "read"
    /\ snapInProgress' = FALSE
    /\ UNCHANGED <<deckVars, metronomeOn, clock, beatsCounter, triggeringBeat,
                   beatPc, fileVars>>

throwsOnSnap(l) ==
    \/ scheduled[l] \in Missing
    \/ /\ scheduled[l] = NULL
       /\ active[l] \in Missing \cap BeatSnap
       /\ "triggered" \in clip[active[l]]

(* Second half: read the flag, trigger the scheduled clips if it is set,   *)
(* clear it (unless an exception skips that), and draw every layer.        *)
RenderEnd ==
    LET snapThrowers == {l \in LayerIds : snapInProgress /\ throwsOnSnap(l)}
        Snapped(l) == IF snapInProgress /\ reached(l, snapThrowers)
                      THEN triggerSchedulled(Deck(l)) ELSE Deck(l)
        drawThrowers == {l \in LayerIds : Snapped(l).active \in Missing}
        Drawn(l) == IF snapThrowers = {} /\ reached(l, drawThrowers)
                    THEN renderLayer(Snapped(l)) ELSE Snapped(l)
    IN  /\ renderPc = "read"
        /\ renderPc' = "idle"
        /\ SetDecks([l \in LayerIds |-> Drawn(l)])
        /\ snapInProgress' \in {FALSE, snapThrowers # {}}
        /\ UNCHANGED <<metronomeOn, clock, beatsCounter, triggeringBeat,
                       beatPc, fileVars>>

MainThread ==
    \/ \E l \in LayerIds, c \in Columns : TriggerVisual(l, c) \/ PlayVisual(l, c)
    \/ \E c \in Columns : TriggerColumn(c)
    \/ \E l \in LayerIds : StopLayer(l)
    \/ StopAll
    \/ Cleanup
    \/ SwitchMetronome
    \/ SetTempo
    \/ Tap
    \/ RenderBegin
    \/ RenderEnd

-----------------------------------------------------------------------------
(* Engine::beat on the metronome thread: getInstance() and then            *)
(* EngineProperties::beat, one store at a time.                            *)

nextCounter(n) == IF n + 1 > CounterLimit THEN 0 ELSE n + 1

BeatBegin ==
    /\ beatPc = "idle" /\ clock # "off"
    /\ beatPc' = "count"
    /\ clock' = IF clock = "draining" THEN "off" ELSE clock
    /\ snapInProgress' = FALSE
    /\ UNCHANGED <<deckVars, metronomeOn, beatsCounter, triggeringBeat,
                   renderPc, fileVars>>

BeatCount ==
    /\ beatPc = "count"
    /\ triggeringBeat' = FALSE
    /\ beatsCounter' = nextCounter(beatsCounter)
    /\ beatPc' = IF beatsCounter' % BeatsToSnap = 0 THEN "trigger" ELSE "idle"
    /\ UNCHANGED <<deckVars, metronomeOn, clock, snapInProgress, renderPc, fileVars>>

BeatTrigger ==
    /\ beatPc = "trigger"
    /\ triggeringBeat' = TRUE
    /\ beatPc' = "snap"
    /\ UNCHANGED <<deckVars, metronomeOn, clock, beatsCounter, snapInProgress,
                   renderPc, fileVars>>

BeatSnapFlag ==
    /\ beatPc = "snap"
    /\ snapInProgress' = TRUE
    /\ beatPc' = "idle"
    /\ UNCHANGED <<deckVars, metronomeOn, clock, beatsCounter, triggeringBeat,
                   renderPc, fileVars>>

MetronomeThread == BeatBegin \/ BeatCount \/ BeatTrigger \/ BeatSnapFlag

-----------------------------------------------------------------------------
(* FileManager's thread runs the same cleanup, unsynchronised with the     *)
(* main thread: the test of checkCloseCondition, the store to isPlaying    *)
(* and the close of the player are three steps.                            *)

CleanupCheck(i) ==
    /\ FileManagerRuns
    /\ closeStep = "idle"
    /\ mayClose(clip[i]) /\ i \notin Cameras
    /\ closing' = i
    /\ closeStep' = "flag"
    /\ UNCHANGED <<deckVars, metronomeOn, clock, beatVars, renderPc>>

CleanupFlag ==
    /\ closeStep = "flag"
    /\ clip' = [clip EXCEPT ![closing] = @ \ {"playing"}]
    /\ closeStep' = "close"
    /\ UNCHANGED <<active, scheduled, metronomeOn, clock, beatVars, renderPc, closing>>

CleanupClose ==
    /\ closeStep = "close"
    /\ clip' = [clip EXCEPT ![closing] = @ \ {"loaded", "rolling"}]
    /\ closing' = NULL
    /\ closeStep' = "idle"
    /\ UNCHANGED <<active, scheduled, metronomeOn, clock, beatVars, renderPc>>

FileManagerThread ==
    CleanupFlag \/ CleanupClose \/ \E i \in Scene : CleanupCheck(i)

\* A minute without a play goes by.
MinutePasses(i) ==
    /\ "idle" \notin clip[i]
    /\ clip' = [clip EXCEPT ![i] = @ \cup {"idle"}]
    /\ UNCHANGED <<active, scheduled, metronomeOn, clock, beatVars, renderPc, fileVars>>

Next ==
    \/ MainThread
    \/ MetronomeThread
    \/ FileManagerThread
    \/ \E i \in Scene : MinutePasses(i)

(* The host renders for ever, and the metronome thread is not starved.     *)
Fairness ==
    /\ WF_vars(RenderBegin)
    /\ WF_vars(RenderEnd)
    /\ WF_vars(MetronomeThread)
    /\ WF_vars(CleanupFlag \/ CleanupClose)

Spec == Init /\ [][Next]_vars
FairSpec == Spec /\ Fairness

-----------------------------------------------------------------------------
Pointer == Scene \cup {NULL}

DecksTyped ==
    /\ active \in [LayerIds -> Pointer]
    /\ scheduled \in [LayerIds -> Pointer]
    /\ clip \in [Scene -> SUBSET Flag]

FlagsOK ==
    /\ metronomeOn \in BOOLEAN
    /\ triggeringBeat \in BOOLEAN
    /\ snapInProgress \in BOOLEAN

RangesOK ==
    /\ clock \in {"off", "on", "draining"}
    /\ beatsCounter \in 0 .. CounterLimit
    /\ beatPc \in {"idle", "count", "trigger", "snap"}
    /\ renderPc \in {"idle", "read"}
    /\ closing \in Pointer
    /\ closeStep \in {"idle", "flag", "close"}

(* The pointers of a layer name clips of the scene or are null, the flags  *)
(* are Booleans, and the beat counter stays within the limit that          *)
(* EngineProperties::beat wraps at.                                        *)
TypeOK == DecksTyped /\ FlagsOK /\ RangesOK

Is(i, flag) == flag \in clip[i]

(* Only the clip a layer shows has a running player: whatever is played,   *)
(* scheduled, snapped, stopped, closed or fails to open, no clip keeps     *)
(* running behind its layer's back (Layer::playVisualInstance stops the    *)
(* old clip before it forgets it).                                         *)
OnlyActiveRolls == \A i \in Scene : Is(i, "rolling") => active[i[1]] = i

(* The isPlaying property the clients see agrees with the player: a        *)
(* running player is reported, and a clip reported as playing has its file *)
(* open and is running or waits for a beat.  Cleanups on the main thread   *)
(* keep this; a FileManager thread may tear the two apart for a moment.    *)
PlayingFlagTruthful ==
    ~FileManagerRuns =>
        \A i \in Scene :
            /\ Is(i, "rolling") => Is(i, "loaded") /\ Is(i, "playing")
            /\ Is(i, "playing") /\ i \notin Cameras =>
                  Is(i, "loaded") /\ (Is(i, "rolling") \/ Is(i, "triggered"))

(* While the metronome is on, the player of a beat-snapped clip is started *)
(* by the snap branch of Engine::render and by nothing else: not by play,  *)
(* a retrigger, a column trigger or the automatic play of draw.            *)
SnappedStartsOnSnap ==
    [][\A i \in BeatSnap :
          metronomeOn /\ ~Is(i, "rolling") /\ Is(i, "rolling")'
              => renderPc = "read" /\ snapInProgress]_vars

(* A clip that a layer shows ends up running even if FileManager closes it *)
(* between its trigger and the next frame: draw opens and plays it again.  *)
(* Excepted are clips that wait for a beat, and layers behind one whose    *)
(* missing file makes every render throw.                                  *)
ActiveRuns ==
    \A i \in Scene \ (Cameras \cup Missing \cup BeatSnap) :
        active[i[1]] = i ~>
            \/ Is(i, "rolling")
            \/ active[i[1]] # i
            \/ \E k \in LayerIds : k < i[1] /\ active[k] \in Missing

(* VisualInstance.mm:138: with snap and metronome on, retrigger will "just *)
(* set it to trigger on the next beat snap".  While the clock beats, a     *)
(* triggered clip is eventually started.                                   *)
TriggeredStartsOnBeat ==
    \A i \in BeatSnap \ Cameras :
        active[i[1]] = i /\ Is(i, "triggered") /\ clock = "on" ~>
            ~Is(i, "triggered") \/ active[i[1]] # i \/ clock # "on"

(* Layer.h:350: Layers::stopAll "Stops all playing visual instances": no   *)
(* clip is reported as playing after Engine::stop has stopped every layer. *)
StopAllStops == [][StopAll => \A i \in Scene : ~Is(i, "playing")']_vars
=============================================================================
