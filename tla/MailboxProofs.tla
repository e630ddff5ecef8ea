----------------------------- MODULE MailboxProofs -----------------------------
(***************************************************************************)
(* The mailbox for any number of senders and commands.  The invariant says *)
(* who may touch what: the writer is one command ahead of w exactly while  *)
(* it has the mutex; c is w unless the reader sleeps; a passive reader has *)
(* nothing prefetched; and the wake-up it is owed exists exactly once.     *)
(***************************************************************************)
EXTENDS Mailbox, TLAPS

\* The pointers keep their order.
Ordered ==
    /\ front <= r
    /\ r <= w
    /\ w <= f

\* The mutex is held by the one thread that is between write and flush.
Locked ==
    /\ \A s \in Senders : pc[s] \in {"flush", "asleep"} <=> lock = s
    /\ lock = None => f = w
    /\ lock # None => f = w + 1 /\ cell[f] = lock

\* The shared pointer.
Shared ==
    /\ c # NULL => c = w
    /\ c = NULL => front = w /\ mode = "passive"

\* What the reader knows in each of its states.
Reading ==
    /\ mode = "passive" => r = front
    /\ rpc = "read" => mode = "active"
    /\ rpc \in {"wait", "signalled"} => mode = "passive"
    /\ rpc = "signalled" => signals = 1
    /\ rpc = "get" => mode = "active" /\ front = r /\ front < w

\* The wake-up: owed to a passive reader with commands, and only to it.
Waking ==
    /\ signals \in {0, 1}
    /\ signals = 1 => /\ mode = "passive"
                      /\ front < w
                      /\ \A s \in Senders : pc[s] # "signal"
    /\ \A s \in Senders : pc[s] = "signal" =>
          /\ mode = "passive"
          /\ front < w
          /\ \A t \in Senders : pc[t] = "signal" => t = s
    /\ mode = "passive" /\ c # NULL => signals = 1 \/ \E s \in Senders : pc[s] = "signal"

Inv ==
    /\ TypeOK
    /\ Ordered
    /\ Locked
    /\ Shared
    /\ Reading
    /\ Waking
    /\ AsleepUntilStored
    /\ WokenFindsCommand

-----------------------------------------------------------------------------
\* The constructor's pipe is asleep and the invariant holds of it.
LEMMA InitInv == Init => Inv
  BY MailboxAssumption DEF Init, Inv, TypeOK, Ordered, Locked, Shared, Reading, Waking,
     AsleepUntilStored, WokenFindsCommand, NULL, Position

\* A thread takes the mutex and writes.
LEMMA WriteInv ==
    ASSUME Inv, NEW s \in Senders, Write(s)
    PROVE  Inv'
  <1>. USE MailboxAssumption DEF Inv, TypeOK, NULL, Position
  <1>1. TypeOK'
    BY DEF Write, readerVars
  <1>2. Ordered'
    BY DEF Write, readerVars, Ordered
  <1>3. Locked'
    BY DEF Write, Locked
  <1>4. Shared'
    BY DEF Write, readerVars, Shared
  <1>5. Reading'
    BY DEF Write, readerVars, Reading
  <1>6. Waking'
    BY DEF Write, readerVars, Waking
  <1>7. AsleepUntilStored'
    BY DEF Write, AsleepUntilStored
  <1>8. WokenFindsCommand'
    BY DEF Write, readerVars, WokenFindsCommand
  <1>. QED BY <1>1, <1>2, <1>3, <1>4, <1>5, <1>6, <1>7, <1>8 DEF Inv

\* The compare-and-swap: c is w, or the reader sleeps.
LEMMA FlushInv ==
    ASSUME Inv, NEW s \in Senders, Flush(s)
    PROVE  Inv'
  <1>. USE MailboxAssumption DEF Inv, TypeOK, NULL, Position
  <1>1. TypeOK'
    BY DEF Flush, readerVars
  <1>2. Ordered'
    BY DEF Flush, readerVars, Ordered
  <1>3. Locked'
    BY DEF Flush, Locked
  <1>4. Shared'
    BY DEF Flush, readerVars, Shared
  <1>5. Reading'
    BY DEF Flush, readerVars, Locked, Reading
  <1>6. Waking'
    BY DEF Flush, readerVars, Locked, Waking
  <1>7. AsleepUntilStored'
    BY DEF Flush, Shared, AsleepUntilStored
  <1>8. WokenFindsCommand'
    BY DEF Flush, readerVars, WokenFindsCommand
  <1>. QED BY <1>1, <1>2, <1>3, <1>4, <1>5, <1>6, <1>7, <1>8 DEF Inv

\* The plain store to a sleeping reader makes the one wake-up due.
LEMMA FlushAsleepInv ==
    ASSUME Inv, NEW s \in Senders, FlushAsleep(s)
    PROVE  Inv'
  <1>. USE MailboxAssumption DEF Inv, TypeOK, NULL, Position
  <1>1. TypeOK'
    BY DEF FlushAsleep, readerVars
  <1>2. Ordered'
    BY DEF FlushAsleep, readerVars, Ordered
  <1>3. Locked'
    BY DEF FlushAsleep, Locked
  <1>4. Shared'
    BY DEF FlushAsleep, Shared
  <1>5. Reading'
    BY DEF FlushAsleep, readerVars, Locked, Shared, AsleepUntilStored, Reading
  <1>6. Waking'
    BY DEF FlushAsleep, readerVars, Locked, Shared, AsleepUntilStored, Waking
  <1>7. AsleepUntilStored'
    BY DEF FlushAsleep, Locked, AsleepUntilStored
  <1>8. WokenFindsCommand'
    BY DEF FlushAsleep, readerVars, WokenFindsCommand
  <1>. QED BY <1>1, <1>2, <1>3, <1>4, <1>5, <1>6, <1>7, <1>8 DEF Inv

\* The wake-up that was due is there.
LEMMA SignalInv ==
    ASSUME Inv, NEW s \in Senders, Signal(s)
    PROVE  Inv'
  <1>. USE MailboxAssumption DEF Inv, TypeOK, NULL, Position
  <1>1. TypeOK'
    BY DEF Signal, readerVars
  <1>2. Ordered'
    BY DEF Signal, readerVars, Ordered
  <1>3. Locked'
    BY DEF Signal, Locked
  <1>4. Shared'
    BY DEF Signal, readerVars, Shared
  <1>5. Reading'
    BY DEF Signal, readerVars, Reading, Waking
  <1>6. Waking'
    BY DEF Signal, readerVars, Waking
  <1>7. AsleepUntilStored'
    BY DEF Signal, AsleepUntilStored
  <1>8. WokenFindsCommand'
    BY DEF Signal, readerVars, WokenFindsCommand
  <1>. QED BY <1>1, <1>2, <1>3, <1>4, <1>5, <1>6, <1>7, <1>8 DEF Inv

\* recv starts from the active flag.
LEMMA RecvCalledInv ==
    ASSUME Inv, RecvCalled
    PROVE  Inv'
  <1>. USE MailboxAssumption DEF Inv, TypeOK, NULL, Position
  <1>1. TypeOK'
    BY DEF RecvCalled, senderVars
  <1>2. Ordered'
    BY DEF RecvCalled, senderVars, Ordered
  <1>3. Locked'
    BY DEF RecvCalled, senderVars, Locked
  <1>4. Shared'
    BY DEF RecvCalled, senderVars, Shared
  <1>5. Reading'
    BY DEF RecvCalled, Reading
  <1>6. Waking'
    BY DEF RecvCalled, senderVars, Waking
  <1>7. AsleepUntilStored'
    BY DEF RecvCalled, senderVars, AsleepUntilStored
  <1>8. WokenFindsCommand'
    BY DEF RecvCalled, WokenFindsCommand
  <1>. QED BY <1>1, <1>2, <1>3, <1>4, <1>5, <1>6, <1>7, <1>8 DEF Inv

\* An active reader takes a command that was flushed.
LEMMA ReadCommandInv ==
    ASSUME Inv, ReadCommand
    PROVE  Inv'
  <1>. USE MailboxAssumption DEF Inv, TypeOK, NULL, Position
  <1>1. TypeOK'
    BY DEF ReadCommand, checkRead, nothingThere, prefetched, pop, senderVars, Ordered, Shared
  <1>2. Ordered'
    BY DEF ReadCommand, checkRead, nothingThere, prefetched, pop, senderVars, Ordered, Shared
  <1>3. Locked'
    BY DEF ReadCommand, senderVars, Locked
  <1>4. Shared'
    BY DEF ReadCommand, checkRead, nothingThere, senderVars, Shared, Reading
  <1>5. Reading'
    BY DEF ReadCommand, Reading
  <1>6. Waking'
    BY DEF ReadCommand, senderVars, Reading, Waking
  <1>7. AsleepUntilStored'
    BY DEF ReadCommand, checkRead, senderVars, AsleepUntilStored
  <1>8. WokenFindsCommand'
    BY DEF ReadCommand, WokenFindsCommand
  <1>. QED BY <1>1, <1>2, <1>3, <1>4, <1>5, <1>6, <1>7, <1>8 DEF Inv

\* An active reader without commands puts the pipe to sleep.
LEMMA ReadNothingInv ==
    ASSUME Inv, ReadNothing
    PROVE  Inv'
  <1>. USE MailboxAssumption DEF Inv, TypeOK, NULL, Position
  <1>1. TypeOK'
    BY DEF ReadNothing, checkRead, senderVars, Shared, Reading
  <1>2. Ordered'
    BY DEF ReadNothing, checkRead, senderVars, Ordered, Shared, Reading
  <1>3. Locked'
    BY DEF ReadNothing, senderVars, Locked
  <1>4. Shared'
    BY DEF ReadNothing, checkRead, senderVars, Shared
  <1>5. Reading'
    BY DEF ReadNothing, checkRead, nothingThere, Shared, Reading
  <1>6. Waking'
    BY DEF ReadNothing, checkRead, nothingThere, senderVars, Waking
  <1>7. AsleepUntilStored'
    BY DEF ReadNothing, checkRead, nothingThere, AsleepUntilStored
  <1>8. WokenFindsCommand'
    BY DEF ReadNothing, WokenFindsCommand
  <1>. QED BY <1>1, <1>2, <1>3, <1>4, <1>5, <1>6, <1>7, <1>8 DEF Inv

\* The reader sees its signal.
LEMMA WaitSignalledInv ==
    ASSUME Inv, WaitSignalled
    PROVE  Inv'
  <1>. USE MailboxAssumption DEF Inv, TypeOK, NULL, Position
  <1>1. TypeOK'
    BY DEF WaitSignalled, senderVars
  <1>2. Ordered'
    BY DEF WaitSignalled, senderVars, Ordered
  <1>3. Locked'
    BY DEF WaitSignalled, senderVars, Locked
  <1>4. Shared'
    BY DEF WaitSignalled, senderVars, Shared
  <1>5. Reading'
    BY DEF WaitSignalled, Reading, Waking
  <1>6. Waking'
    BY DEF WaitSignalled, senderVars, Waking
  <1>7. AsleepUntilStored'
    BY DEF WaitSignalled, senderVars, AsleepUntilStored
  <1>8. WokenFindsCommand'
    BY DEF WaitSignalled, WokenFindsCommand
  <1>. QED BY <1>1, <1>2, <1>3, <1>4, <1>5, <1>6, <1>7, <1>8 DEF Inv

\* The wait ends without one.
LEMMA WaitTimesOutInv ==
    ASSUME Inv, WaitTimesOut
    PROVE  Inv'
  <1>. USE MailboxAssumption DEF Inv, TypeOK, NULL, Position
  <1>1. TypeOK'
    BY DEF WaitTimesOut, senderVars
  <1>2. Ordered'
    BY DEF WaitTimesOut, senderVars, Ordered
  <1>3. Locked'
    BY DEF WaitTimesOut, senderVars, Locked
  <1>4. Shared'
    BY DEF WaitTimesOut, senderVars, Shared
  <1>5. Reading'
    BY DEF WaitTimesOut, Reading
  <1>6. Waking'
    BY DEF WaitTimesOut, senderVars, Waking
  <1>7. AsleepUntilStored'
    BY DEF WaitTimesOut, senderVars, AsleepUntilStored
  <1>8. WokenFindsCommand'
    BY DEF WaitTimesOut, senderVars, WokenFindsCommand
  <1>. QED BY <1>1, <1>2, <1>3, <1>4, <1>5, <1>6, <1>7, <1>8 DEF Inv

\* The signal is taken and the reader is active.
LEMMA RecvSignalInv ==
    ASSUME Inv, RecvSignal
    PROVE  Inv'
  <1>. USE MailboxAssumption DEF Inv, TypeOK, NULL, Position
  <1>1. TypeOK'
    BY DEF RecvSignal, senderVars, Reading
  <1>2. Ordered'
    BY DEF RecvSignal, senderVars, Ordered
  <1>3. Locked'
    BY DEF RecvSignal, senderVars, Locked
  <1>4. Shared'
    BY DEF RecvSignal, senderVars, Shared, Reading, Waking
  <1>5. Reading'
    BY DEF RecvSignal, senderVars, Reading, Waking
  <1>6. Waking'
    BY DEF RecvSignal, senderVars, Reading, Waking
  <1>7. AsleepUntilStored'
    BY DEF RecvSignal, senderVars, AsleepUntilStored
  <1>8. WokenFindsCommand'
    BY DEF RecvSignal, WokenFindsCommand
  <1>. QED BY <1>1, <1>2, <1>3, <1>4, <1>5, <1>6, <1>7, <1>8 DEF Inv

\* A woken reader finds a command.
LEMMA GetCommandInv ==
    ASSUME Inv, GetCommand
    PROVE  Inv'
  <1>. USE MailboxAssumption DEF Inv, TypeOK, NULL, Position
  <1>1. TypeOK'
    BY DEF GetCommand, checkRead, pop, senderVars, Shared, Reading
  <1>2. Ordered'
    BY DEF GetCommand, checkRead, prefetched, pop, senderVars, Ordered, Shared, Reading
  <1>3. Locked'
    BY DEF GetCommand, senderVars, Locked
  <1>4. Shared'
    BY DEF GetCommand, checkRead, senderVars, Shared, Reading
  <1>5. Reading'
    BY DEF GetCommand, Reading
  <1>6. Waking'
    BY DEF GetCommand, senderVars, Reading, Waking
  <1>7. AsleepUntilStored'
    BY DEF GetCommand, checkRead, senderVars, AsleepUntilStored
  <1>8. WokenFindsCommand'
    BY DEF GetCommand, nothingThere, Shared, Reading, WokenFindsCommand
  <1>. QED BY <1>1, <1>2, <1>3, <1>4, <1>5, <1>6, <1>7, <1>8 DEF Inv

-----------------------------------------------------------------------------
\* Every step of a sender or of the reader keeps the invariant.
LEMMA NextInv == Inv /\ [Next]_vars => Inv'
  <1>. SUFFICES ASSUME Inv, [Next]_vars PROVE Inv'
    OBVIOUS
  <1>1. CASE Reader
    BY <1>1, RecvCalledInv, ReadCommandInv, ReadNothingInv, WaitSignalledInv, RecvSignalInv,
       GetCommandInv DEF Reader
  <1>2. CASE WaitTimesOut
    BY <1>2, WaitTimesOutInv
  <1>3. ASSUME NEW s \in Senders, Write(s) \/ Send(s) PROVE Inv'
    BY <1>3, WriteInv, FlushInv, FlushAsleepInv, SignalInv DEF Send
  <1>4. CASE UNCHANGED vars
    BY <1>4 DEF vars, senderVars, readerVars, Inv, TypeOK, Ordered, Locked, Shared, Reading,
       Waking, AsleepUntilStored, WokenFindsCommand
  <1>. QED BY <1>1, <1>2, <1>3, <1>4 DEF Next

\* The invariant holds of every execution.
THEOREM InvHolds == Spec => []Inv
  BY InitInv, NextInv, PTL DEF Spec

\* Type correctness, r never being NULL included, as ypipe.hpp says of its lifetime.
THEOREM TypeCorrect == Spec => []TypeOK
  <1>1. Inv => TypeOK
    BY DEF Inv
  <1>. QED BY <1>1, InvHolds, PTL

(* mailbox_t::recv's assertion holds: whoever is woken finds a command.    *)
THEOREM AssertionHolds == Spec => []WokenFindsCommand
  <1>1. Inv => WokenFindsCommand
    BY DEF Inv
  <1>. QED BY <1>1, InvHolds, PTL

(* ypipe_t::flush's plain store only happens while the reader sleeps.      *)
THEOREM StoreIsSafe == Spec => []AsleepUntilStored
  <1>1. Inv => AsleepUntilStored
    BY DEF Inv
  <1>. QED BY <1>1, InvHolds, PTL

(* No wake-up is lost or doubled between mailbox_t::send and recv.         *)
THEOREM NoWakeUpLost == Spec => []WakeUpDue
  <1>1. Inv => WakeUpDue
    BY MailboxAssumption DEF Inv, TypeOK, Waking, Shared, WakeUpDue
  <1>. QED BY <1>1, InvHolds, PTL

(* A mailbox whose commands were all read may be destroyed: no thread is   *)
(* left that has yet to use its signaler.                                  *)
THEOREM DestructionSafe == Spec => []DrainedIsQuiet
  <1>1. ASSUME Inv, NEW s \in Senders, pc[s] = "signal" PROVE front # w
    <2>1. front < w
      BY <1>1 DEF Inv, Waking
    <2>2. front \in Int /\ w \in Int
      BY <1>1, MailboxAssumption DEF Inv, TypeOK
    <2>. QED BY <2>1, <2>2
  <1>2. Inv => DrainedIsQuiet
    BY <1>1 DEF DrainedIsQuiet
  <1>. QED BY <1>2, InvHolds, PTL

-----------------------------------------------------------------------------
\* A flush, of either kind, posts the command that is in the cell past w.
LEMMA FlushPosts ==
    ASSUME Inv, NEW s \in Senders, lock = s, w' = f, UNCHANGED <<cell, front, got>>
    PROVE  Abstract!Post(s)
  <1>1. w \in Nat /\ w < MaxCommands /\ w' = w + 1 /\ w + 1 \in Position /\ cell[w + 1] = s
    BY MailboxAssumption DEF Inv, TypeOK, Locked, Position
  <1>2. [n \in Position |-> IF n <= w THEN cell[n] ELSE None]'
          = [[n \in Position |-> IF n <= w THEN cell[n] ELSE None] EXCEPT ![w + 1] = s]
    <2>1. ASSUME NEW n \in Position
          PROVE  (IF n <= w' THEN cell'[n] ELSE None)
                    = IF n = w + 1 THEN s ELSE IF n <= w THEN cell[n] ELSE None
      BY <1>1, MailboxAssumption DEF Position
    <2>. QED BY <1>1, <2>1
  <1>. QED BY <1>1, <1>2 DEF Abstract!Post

\* What leaves w, front, got and the flushed cells alone is not seen in the queue.
LEMMA Unseen ==
    ASSUME Inv, UNCHANGED <<w, front, got>>,
           \A n \in Position : n <= w => cell'[n] = cell[n]
    PROVE  UNCHANGED Abstract!vars
  BY DEF Abstract!vars

\* A reader that pops finds a command that was posted.
LEMMA PopTakes ==
    ASSUME Inv, pop, front < w, UNCHANGED <<cell, w>>
    PROVE  Abstract!Take
  <1>1. front + 1 \in Position /\ front + 1 <= w
    BY MailboxAssumption DEF Inv, TypeOK, Position
  <1>. QED BY <1>1 DEF pop, Abstract!Take

\* The empty mailbox is the empty queue.
LEMMA InitRefines == Init => Abstract!Init
  BY MailboxAssumption DEF Init, Abstract!Init, Position, Abstract!Position

\* Every step is a post, a take or not seen.
LEMMA NextRefines ==
    ASSUME Inv, [Next]_vars
    PROVE  Abstract!Next \/ UNCHANGED Abstract!vars
  <1>1. ASSUME NEW s \in Senders, Write(s) PROVE UNCHANGED Abstract!vars
    <2>1. \A n \in Position : n <= w => cell'[n] = cell[n]
      BY <1>1, MailboxAssumption DEF Inv, TypeOK, Locked, Write, Position
    <2>. QED BY <1>1, <2>1, Unseen DEF Write, readerVars
  <1>2. ASSUME NEW s \in Senders, Flush(s) PROVE Abstract!Post(s) \/ UNCHANGED Abstract!vars
    <2>1. CASE c = w
      BY <1>2, <2>1, FlushPosts DEF Flush, readerVars, Inv, Locked
    <2>2. CASE c # w
      BY <1>2, <2>2, Unseen DEF Flush, readerVars
    <2>. QED BY <2>1, <2>2
  <1>3. ASSUME NEW s \in Senders, FlushAsleep(s) PROVE Abstract!Post(s)
    BY <1>3, FlushPosts DEF FlushAsleep, readerVars, Inv, Locked
  <1>4. ASSUME NEW s \in Senders, Signal(s) PROVE UNCHANGED Abstract!vars
    BY <1>4, Unseen DEF Signal, readerVars
  <1>5. ASSUME ReadCommand PROVE Abstract!Take
    <2>1. front < w
      BY <1>5, MailboxAssumption DEF ReadCommand, nothingThere, prefetched, Inv, TypeOK, Ordered,
         Shared, NULL
    <2>. QED BY <1>5, <2>1, PopTakes DEF ReadCommand, senderVars
  <1>6. ASSUME GetCommand PROVE Abstract!Take
    <2>1. front < w /\ ~nothingThere
      BY <1>6, MailboxAssumption DEF GetCommand, nothingThere, prefetched, Inv, TypeOK, Shared,
         Reading, NULL
    <2>. QED BY <1>6, <2>1, PopTakes DEF GetCommand, senderVars
  <1>7. CASE RecvCalled \/ ReadNothing \/ WaitSignalled \/ RecvSignal \/ WaitTimesOut
    BY <1>7, Unseen DEF RecvCalled, ReadNothing, WaitSignalled, RecvSignal, WaitTimesOut,
       senderVars
  <1>8. CASE UNCHANGED vars
    BY <1>8, Unseen DEF vars, senderVars, readerVars
  <1>. QED BY <1>1, <1>2, <1>3, <1>4, <1>5, <1>6, <1>7, <1>8 DEF Next, Reader, Send, Abstract!Next

(* mailbox_t implements the queue it promises, for any number of threads   *)
(* and commands: every command is received once, in the order of posting.  *)
THEOREM MailboxIsQueue == Spec => ImplementsQueue
  <1>1. Inv /\ [Next]_vars => [Abstract!Next]_(Abstract!vars)
    BY NextRefines
  <1>. QED BY <1>1, InitRefines, InvHolds, PTL DEF Spec, ImplementsQueue, Abstract!Spec
=============================================================================
