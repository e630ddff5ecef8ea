------------------------------ MODULE Metronome ------------------------------
(***************************************************************************)
(* The metronome thread and the host's calls that control it: class        *)
(* metronome (Misc/Metronome.mm) and the beat and tempo operations of      *)
(* Engine (Engine.mm, "beats and metronome functions").                    *)
(*                                                                         *)
(* Two threads: the host's main thread, which makes one Engine call at a   *)
(* time and blocks inside waitForThread, and the thread ofThread starts.   *)
(* ofThread itself is openFrameworks code; it is modelled from the way     *)
(* Metronome.mm uses it.  The host is assumed to have registered its beat  *)
(* callback (Engine::registerAppBeatCallback) before it starts the clock.  *)
(***************************************************************************)
EXTENDS Integers

CONSTANTS BPMs,      \* the tempos the host may ask for
          MaxTaps    \* bound on the number of Engine::tap calls

ASSUME BPMsAssumption == BPMs \subseteq Nat \ {0}
ASSUME MaxTapsAssumption == MaxTaps \in Nat

VARIABLES
    threadRunning,   \* ofThread's flag, what isThreadRunning() reads
    threadDone,      \* ofThread's flag, set when the thread has left run()
    pc,              \* where the metronome thread is
    beatCount,       \* position in the bar
    longBeatCount,   \* position in the phrase
    BPM,             \* the tempo
    metronomeOn,     \* EngineProperties::metronomeOn
    call,            \* the blocking call the main thread is inside, or "idle"
    pending,         \* the tempo that call will set
    tapIndex,        \* EngineProperties::currentTapIndex
    taps,            \* number of taps so far
    tapResult,       \* what the last EngineProperties::tap returned
    fault            \* the process was killed by the division in setBPM

threadVars == <<threadRunning, threadDone, pc>>
countVars == <<beatCount, longBeatCount>>
tapVars == <<tapIndex, taps, tapResult>>
vars == <<threadVars, countVars, BPM, metronomeOn, call, pending, tapVars, fault>>

-----------------------------------------------------------------------------
\* metronome's constructor; EngineProperties is a zero-initialised static.
Init ==
    /\ threadRunning = FALSE
    /\ threadDone = TRUE
    /\ pc = "none"
    /\ beatCount = 1
    /\ longBeatCount = 1
    /\ BPM = 120
    /\ metronomeOn = FALSE
    /\ call = "idle"
    /\ pending = 0
    /\ tapIndex = -1
    /\ taps = 0
    /\ tapResult = 0
    /\ fault = FALSE

-----------------------------------------------------------------------------
(* ofThread: a start is refused while the previous thread has not ended,   *)
(* and a stop only clears the flag the loop tests.                         *)

startThread ==
    IF threadRunning \/ ~threadDone
    THEN UNCHANGED threadVars
    ELSE /\ threadRunning' = TRUE
         /\ threadDone' = FALSE
         /\ pc' = "test"

stopThread ==
    /\ threadRunning' = FALSE
    /\ UNCHANGED <<threadDone, pc>>

-----------------------------------------------------------------------------
(* The metronome thread: while (isThreadRunning()) { lock; count; beat;    *)
(* unlock; sleep }.                                                        *)

\* Mutant: a loop that never looks at the flag.
ThreadTestBlind ==
    /\ pc = "test"
    /\ pc' = "beat"
    /\ UNCHANGED <<threadRunning, threadDone, countVars, BPM, metronomeOn,
                   call, pending, tapVars, fault>>

ThreadTest ==
    /\ pc = "test"
    /\ pc' = IF threadRunning THEN "beat" ELSE "exit"
    /\ UNCHANGED <<threadRunning, threadDone, countVars, BPM, metronomeOn,
                   call, pending, tapVars, fault>>

\* Mutant: a phrase of 63 beats.
nextLongBeatEarly(n) == IF n < 63 THEN n + 1 ELSE 1

nextBeat(n) == IF n < 4 THEN n + 1 ELSE 1
nextLongBeat(n) == IF n < 64 THEN n + 1 ELSE 1

ThreadBeat ==
    /\ pc = "beat"
    /\ pc' = "sleep"
    /\ beatCount' = nextBeat(beatCount)
    /\ longBeatCount' = nextLongBeat(longBeatCount)
    /\ UNCHANGED <<threadRunning, threadDone, BPM, metronomeOn, call, pending,
                   tapVars, fault>>

\* Mutant: a sleep that only a stop interrupts.
ThreadWakeOnStop ==
    /\ pc = "sleep"
    /\ ~threadRunning
    /\ pc' = "test"
    /\ UNCHANGED <<threadRunning, threadDone, countVars, BPM, metronomeOn,
                   call, pending, tapVars, fault>>

ThreadWake ==
    /\ pc = "sleep"
    /\ pc' = "test"
    /\ UNCHANGED <<threadRunning, threadDone, countVars, BPM, metronomeOn,
                   call, pending, tapVars, fault>>

\* The end of ofThread::run, after threadedFunction has returned.
ThreadExit ==
    /\ pc = "exit"
    /\ pc' = "none"
    /\ threadRunning' = FALSE
    /\ threadDone' = TRUE
    /\ UNCHANGED <<countVars, BPM, metronomeOn, call, pending, tapVars, fault>>

MetronomeThread ==
    /\ ~fault
    /\ ThreadTest \/ ThreadBeat \/ ThreadWake \/ ThreadExit

-----------------------------------------------------------------------------
(* The main thread.                                                        *)

Idle == call = "idle" /\ ~fault

StartMetronome ==
    /\ Idle
    /\ startThread
    /\ metronomeOn' = TRUE
    /\ UNCHANGED <<countVars, BPM, call, pending, tapVars, fault>>

StopMetronome ==
    /\ Idle
    /\ stopThread
    /\ metronomeOn' = FALSE
    /\ UNCHANGED <<countVars, BPM, call, pending, tapVars, fault>>

\* Mutant: a reset that waits for a thread it has not stopped.
ResetMetronomeUnstopped ==
    /\ Idle
    /\ call' = "reset"
    /\ UNCHANGED <<threadVars, countVars, BPM, metronomeOn, pending, tapVars, fault>>

\* stop(); waitForThread(); start();
ResetMetronome ==
    /\ Idle
    /\ stopThread
    /\ call' = "reset"
    /\ UNCHANGED <<countVars, BPM, metronomeOn, pending, tapVars, fault>>

\* Mutant: a reset that does not start the thread again.
ResetDoneStopped ==
    /\ call = "reset" /\ ~fault
    /\ threadDone
    /\ call' = "idle"
    /\ UNCHANGED <<threadVars, countVars, BPM, metronomeOn, pending, tapVars, fault>>

ResetDone ==
    /\ call = "reset" /\ ~fault
    /\ threadDone
    /\ startThread
    /\ call' = "idle"
    /\ UNCHANGED <<countVars, BPM, metronomeOn, pending, tapVars, fault>>

(* metronome::setBPM divides 60000 by the tempo.  For a tempo of 0 the     *)
(* integer division kills the process on x86 and yields 0 on arm64.        *)
assignBPM(b) ==
    /\ BPM' = b
    /\ fault' \in (IF b = 0 THEN BOOLEAN ELSE {FALSE})

(* Engine::setBPM.  The test "metroOn" is the tempo, truncated to the 8    *)
(* bits of a Boolean, and not the metronomeOn flag: the thread is stopped, *)
(* waited for and started unless the old tempo is a multiple of 256.       *)
beginSetBPM(b) ==
    IF BPM % 256 # 0
    THEN /\ stopThread
         /\ call' = "bpm"
         /\ pending' = b
         /\ UNCHANGED <<BPM, fault>>
    ELSE /\ assignBPM(b)
         /\ UNCHANGED <<threadVars, call, pending>>

SetBPM(b) ==
    /\ Idle
    /\ beginSetBPM(b)
    /\ UNCHANGED <<countVars, metronomeOn, tapVars>>

SetBPMDone ==
    /\ call = "bpm" /\ ~fault
    /\ threadDone
    /\ assignBPM(pending)
    /\ IF fault' THEN UNCHANGED threadVars ELSE startThread
    /\ call' = "idle"
    /\ pending' = 0
    /\ UNCHANGED <<countVars, metronomeOn, tapVars>>

\* EngineProperties::incrementTap.
incrementTap(i) == IF i > -1 THEN i + 1 ELSE i

(* EngineProperties::tap followed by Engine::tap's setBPM (a new tempo     *)
(* would be set twice, to the same effect).  The store to taps[-1] falls   *)
(* on the three flags that precede the array, metronomeOn among them, so   *)
(* the flag holds whatever byte of the clock lands on it.                  *)
Tap ==
    /\ Idle
    /\ taps < MaxTaps
    /\ taps' = taps + 1
    /\ LET index == incrementTap(tapIndex) IN
       /\ tapIndex' = IF index = 3 THEN -1 ELSE index
       /\ metronomeOn' \in (IF index = -1 THEN BOOLEAN ELSE {metronomeOn})
       /\ \E b \in (IF index = 3 THEN BPMs ELSE {0}) :
             /\ tapResult' = b
             /\ beginSetBPM(b)
    /\ UNCHANGED countVars

MainThread ==
    \/ StartMetronome
    \/ StopMetronome
    \/ ResetMetronome
    \/ ResetDone
    \/ \E b \in BPMs : SetBPM(b)
    \/ SetBPMDone
    \/ Tap

Next == MetronomeThread \/ MainThread

(* The scheduler runs both threads: the metronome thread is never starved, *)
(* and a main thread whose wait is over returns from it.  Nothing obliges  *)
(* the host to make a call.                                                *)
Fairness ==
    /\ WF_vars(MetronomeThread)
    /\ WF_vars(ResetDone)
    /\ WF_vars(SetBPMDone)

Spec == Init /\ [][Next]_vars
FairSpec == Spec /\ Fairness

-----------------------------------------------------------------------------
FlagsOK ==
    /\ threadRunning \in BOOLEAN
    /\ threadDone \in BOOLEAN
    /\ metronomeOn \in BOOLEAN
    /\ fault \in BOOLEAN

RangesOK ==
    /\ pc \in {"none", "test", "beat", "sleep", "exit"}
    /\ call \in {"idle", "reset", "bpm"}
    /\ beatCount \in 1..4
    /\ longBeatCount \in 1..64
    /\ BPM \in Nat
    /\ pending \in Nat
    /\ tapIndex \in -1..2
    /\ taps \in Nat
    /\ tapResult \in Nat

(* Every variable holds a value of its C++ type; the thread position, the  *)
(* call in progress, the counters and the tap index stay in range.         *)
TypeOK == FlagsOK /\ RangesOK

(* A blocked caller can always be released: while the main thread sits in  *)
(* waitForThread (resetMetronome, setBPM) nobody has set the flag that     *)
(* keeps the metronome loop going, and ofThread's two flags agree with     *)
(* where the thread is, so the loop is on its way out.                     *)
WaitIsSafe ==
    /\ call # "idle" => ~threadRunning
    /\ threadDone <=> pc = "none"
    /\ threadDone => ~threadRunning

(* The bar counter and the phrase counter never drift apart, whatever the  *)
(* stops, restarts and tempo changes between beats (threadedFunction       *)
(* advances both under one lock and 4 divides 64).                         *)
CountersInPhase == (longBeatCount - beatCount) % 4 = 0

(* The clock BeatClock describes: no beat is counted while the metronome   *)
(* is off, and after a stop at most the beat already under way.            *)
clockMode ==
    IF threadRunning THEN "on"
    ELSE IF pc = "beat" THEN "draining"
    ELSE "off"

Clock == INSTANCE BeatClock
           WITH mode <- clockMode, bar <- beatCount, phrase <- longBeatCount

ImplementsBeatClock == Clock!Spec

(* Engine::resetMetronome and Engine::setBPM end with the thread running,  *)
(* unless the process died in the division: the wait inside them ends.     *)
BlockingCallsRestart == (call # "idle") ~> (threadRunning \/ fault)

(* A stopped metronome thread ends, so that a later start is not refused   *)
(* for ever (metronome::stop only clears the loop's flag).                 *)
StopEnds == ~threadRunning ~> (threadDone \/ fault)

(* While its flag stays set the thread keeps beating (threadedFunction     *)
(* never leaves its loop by itself).                                       *)
RunningBeats == threadRunning ~> (pc = "beat" \/ ~threadRunning \/ fault)

(* EngineProperties.h:188 says of tap() that it returns "the new bpm when  *)
(* the last tap is done": of four taps in a row the fourth yields a tempo. *)
FourTapsGiveBPM == taps = 4 => tapResult # 0
=============================================================================
