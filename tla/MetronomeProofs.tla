--------------------------- MODULE MetronomeProofs ---------------------------
(***************************************************************************)
(* What holds of the metronome for every set of tempos and any number of   *)
(* taps: its types, that a blocked caller is released, that its counters   *)
(* stay in phase, and that it implements BeatClock.                        *)
(***************************************************************************)
EXTENDS Metronome, TLAPS

USE DEF threadVars, countVars, tapVars

(* No step of either thread stores anything but a truth value in a flag.   *)
LEMMA FlagStep == FlagsOK /\ [Next]_vars => FlagsOK'
<1> SUFFICES ASSUME FlagsOK, [Next]_vars PROVE FlagsOK'
  OBVIOUS
<1> USE DEF FlagsOK, startThread, stopThread
<1>1. CASE MetronomeThread
  BY <1>1 DEF MetronomeThread, ThreadTest, ThreadBeat, ThreadWake, ThreadExit
<1>2. CASE StartMetronome
  BY <1>2 DEF StartMetronome
<1>3. CASE StopMetronome
  BY <1>3 DEF StopMetronome
<1>4. CASE ResetMetronome
  BY <1>4 DEF ResetMetronome
<1>5. CASE ResetDone
  BY <1>5 DEF ResetDone
<1>6. ASSUME NEW b \in BPMs, SetBPM(b) PROVE FlagsOK'
  BY <1>6 DEF SetBPM, beginSetBPM, assignBPM
<1>7. CASE SetBPMDone
  BY <1>7 DEF SetBPMDone, assignBPM
<1>8. CASE Tap
  <2>1. metronomeOn' \in BOOLEAN
    BY <1>8 DEF Tap
  <2>2. PICK b : beginSetBPM(b)
    BY <1>8 DEF Tap
  <2> QED
    BY <2>1, <2>2 DEF beginSetBPM, assignBPM
<1>9. CASE UNCHANGED vars
  BY <1>9 DEF vars
<1> QED
  BY <1>1, <1>2, <1>3, <1>4, <1>5, <1>6, <1>7, <1>8, <1>9 DEF Next, MainThread

(* What the non-blocking part of Engine::setBPM leaves in the tempo, in    *)
(* the pending tempo and in the two positions.                             *)
LEMMA BeginSetBPM ==
    ASSUME NEW b, beginSetBPM(b)
    PROVE  /\ BPM' \in {BPM, b}
           /\ pending' \in {pending, b}
           /\ call' \in {call, "bpm"}
           /\ pc' = pc
<1>1. CASE BPM % 256 # 0
  BY <1>1 DEF beginSetBPM, stopThread
<1>2. CASE ~(BPM % 256 # 0)
  BY <1>2 DEF beginSetBPM, assignBPM
<1> QED
  BY <1>1, <1>2

(* Every step keeps the positions, counters and tempos in range.           *)
LEMMA RangeStep == RangesOK /\ [Next]_vars => RangesOK'
<1> SUFFICES ASSUME RangesOK, [Next]_vars PROVE RangesOK'
  OBVIOUS
<1> USE DEF RangesOK, startThread, stopThread
<1>1. CASE MetronomeThread
  BY <1>1 DEF MetronomeThread, ThreadTest, ThreadBeat, ThreadWake, ThreadExit,
         nextBeat, nextLongBeat
<1>2. CASE StartMetronome
  BY <1>2 DEF StartMetronome
<1>3. CASE StopMetronome
  BY <1>3 DEF StopMetronome
<1>4. CASE ResetMetronome
  BY <1>4 DEF ResetMetronome
<1>5. CASE ResetDone
  BY <1>5 DEF ResetDone
<1>6. ASSUME NEW b \in BPMs, SetBPM(b) PROVE RangesOK'
  <2>1. b \in Nat /\ beginSetBPM(b)
    BY <1>6, BPMsAssumption DEF SetBPM
  <2> QED
    BY <1>6, <2>1, BeginSetBPM DEF SetBPM
<1>7. CASE SetBPMDone
  BY <1>7 DEF SetBPMDone, assignBPM
<1>8. CASE Tap
  <2>1. PICK b \in BPMs \cup {0} : tapResult' = b /\ beginSetBPM(b)
    BY <1>8 DEF Tap
  <2>2. b \in Nat
    BY BPMsAssumption
  <2>3. tapIndex' \in -1..2 /\ taps' \in Nat
    BY <1>8 DEF Tap, incrementTap
  <2> QED
    BY <1>8, <2>1, <2>2, <2>3, BeginSetBPM DEF Tap
<1>9. CASE UNCHANGED vars
  BY <1>9 DEF vars
<1> QED
  BY <1>1, <1>2, <1>3, <1>4, <1>5, <1>6, <1>7, <1>8, <1>9 DEF Next, MainThread

(* Types are kept for ever: the metronome, the blocking calls of Engine    *)
(* and the tap counter never leave the ranges of their declarations.       *)
THEOREM TypeCorrect == Spec => []TypeOK
<1>1. Init => FlagsOK
  BY DEF Init, FlagsOK
<1>2. Init => RangesOK
  BY DEF Init, RangesOK
<1> QED
  BY <1>1, <1>2, FlagStep, RangeStep, PTL DEF Spec, TypeOK

(* A thread blocked in waitForThread waits for a loop that is on its way   *)
(* out, whatever the interleaving of starts, stops, resets and tempo       *)
(* changes (metronome::resetMetronome, Engine::setBPM).                    *)
LEMMA WaitStep == TypeOK /\ WaitIsSafe /\ [Next]_vars => WaitIsSafe'
<1> SUFFICES ASSUME TypeOK, WaitIsSafe, [Next]_vars PROVE WaitIsSafe'
  OBVIOUS
<1> USE DEF TypeOK, FlagsOK, RangesOK, WaitIsSafe, Idle, startThread, stopThread
<1>1. CASE MetronomeThread
  BY <1>1 DEF MetronomeThread, ThreadTest, ThreadBeat, ThreadWake, ThreadExit
<1>2. CASE StartMetronome
  BY <1>2 DEF StartMetronome
<1>3. CASE StopMetronome
  BY <1>3 DEF StopMetronome
<1>4. CASE ResetMetronome
  BY <1>4 DEF ResetMetronome
<1>5. CASE ResetDone
  BY <1>5 DEF ResetDone
<1>6. ASSUME NEW b \in BPMs, SetBPM(b) PROVE WaitIsSafe'
  BY <1>6 DEF SetBPM, beginSetBPM
<1>7. CASE SetBPMDone
  BY <1>7 DEF SetBPMDone
<1>8. CASE Tap
  BY <1>8 DEF Tap, beginSetBPM
<1>9. CASE UNCHANGED vars
  BY <1>9 DEF vars
<1> QED
  BY <1>1, <1>2, <1>3, <1>4, <1>5, <1>6, <1>7, <1>8, <1>9 DEF Next, MainThread

(* The wait inside Engine::resetMetronome and Engine::setBPM is safe in    *)
(* every reachable state.                                                  *)
THEOREM WaitSafety == Spec => []WaitIsSafe
<1>1. Init => WaitIsSafe
  BY DEF Init, WaitIsSafe
<1> QED
  BY <1>1, WaitStep, TypeCorrect, PTL DEF Spec

(* Only ThreadBeat touches the two counters.                               *)
LEMMA OnlyBeatCounts == [Next]_vars => ThreadBeat \/ UNCHANGED countVars
<1> SUFFICES ASSUME [Next]_vars PROVE ThreadBeat \/ UNCHANGED countVars
  OBVIOUS
<1>1. CASE MetronomeThread
  BY <1>1 DEF MetronomeThread, ThreadTest, ThreadWake, ThreadExit
<1>2. CASE MainThread
  BY <1>2 DEF MainThread, StartMetronome, StopMetronome, ResetMetronome,
              ResetDone, SetBPM, SetBPMDone, Tap
<1>3. CASE UNCHANGED vars
  BY <1>3 DEF vars
<1> QED
  BY <1>1, <1>2, <1>3 DEF Next

(* The bar and the phrase position agree modulo the bar's length in every  *)
(* reachable state (metronome::threadedFunction).                          *)
THEOREM PhaseCorrect == Spec => []CountersInPhase
<1>1. Init => CountersInPhase
  BY DEF Init, CountersInPhase
<1>2. TypeOK /\ CountersInPhase /\ [Next]_vars => CountersInPhase'
  <2> SUFFICES ASSUME TypeOK, CountersInPhase, [Next]_vars
               PROVE  CountersInPhase'
    OBVIOUS
  <2>1. CASE ThreadBeat
    BY <2>1 DEF ThreadBeat, nextBeat, nextLongBeat, CountersInPhase, TypeOK, RangesOK
  <2>2. CASE UNCHANGED countVars
    BY <2>2 DEF CountersInPhase
  <2> QED
    BY <2>1, <2>2, OnlyBeatCounts
<1> QED
  BY <1>1, <1>2, TypeCorrect, PTL DEF Spec

(* Every step of the metronome is a step of the abstract clock or changes  *)
(* nothing the clock shows.                                                *)
LEMMA ClockStep ==
    TypeOK /\ WaitIsSafe /\ [Next]_vars => [Clock!Next]_(Clock!vars)
<1> SUFFICES ASSUME TypeOK, WaitIsSafe, [Next]_vars
             PROVE  [Clock!Next]_(Clock!vars)
  OBVIOUS
<1> USE DEF TypeOK, FlagsOK, RangesOK, WaitIsSafe, clockMode, Clock!vars, Idle, startThread, stopThread
<1>1. CASE ThreadBeat
  <2>1. Clock!Tick
    BY <1>1 DEF ThreadBeat, nextBeat, nextLongBeat, Clock!Tick, Clock!NextBar, Clock!NextPhrase
  <2> QED
    BY <2>1 DEF Clock!Next
<1>2. CASE ThreadTest \/ ThreadWake \/ ThreadExit
  BY <1>2 DEF ThreadTest, ThreadWake, ThreadExit, Clock!Next, Clock!Stop
<1>3. CASE StartMetronome
  BY <1>3 DEF StartMetronome, Clock!Next, Clock!Start
<1>4. CASE StopMetronome
  BY <1>4 DEF StopMetronome, Clock!Next, Clock!Stop
<1>5. CASE ResetMetronome
  BY <1>5 DEF ResetMetronome, Clock!Next, Clock!Stop
<1>6. CASE ResetDone
  BY <1>6 DEF ResetDone, Clock!Next, Clock!Start
<1>7. ASSUME NEW b \in BPMs, SetBPM(b) PROVE [Clock!Next]_(Clock!vars)
  BY <1>7 DEF SetBPM, beginSetBPM, Clock!Next, Clock!Stop
<1>8. CASE SetBPMDone
  BY <1>8 DEF SetBPMDone, Clock!Next, Clock!Start
<1>9. CASE Tap
  BY <1>9 DEF Tap, beginSetBPM, Clock!Next, Clock!Stop
<1>10. CASE UNCHANGED vars
  BY <1>10 DEF vars
<1> QED
  BY <1>1, <1>2, <1>3, <1>4, <1>5, <1>6, <1>7, <1>8, <1>9, <1>10
     DEF Next, MainThread, MetronomeThread

(* The threaded metronome, with its flag-only stop and its refused starts, *)
(* implements the abstract clock: silent when off, at most one late beat.  *)
THEOREM Implementation == Spec => ImplementsBeatClock
<1>1. Init => Clock!Init
  BY DEF Init, Clock!Init, clockMode
<1> QED
  BY <1>1, ClockStep, TypeCorrect, WaitSafety, PTL
     DEF Spec, ImplementsBeatClock, Clock!Spec
=============================================================================
