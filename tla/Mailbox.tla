-------------------------------- MODULE Mailbox --------------------------------
(***************************************************************************)
(* libzmq's mailbox_t: the way every thread of the library (the client's   *)
(* and the server's user threads, I/O threads, the reaper) tells another   *)
(* one to do something.  Many senders, serialised by a mutex; one reader;  *)
(* between them the lock-free queue ypipe_t, in which the two sides share  *)
(* one pointer, and a signaler that the reader sleeps on.                  *)
(*                                                                         *)
(* The pointers of the pipe are the numbers of the cells they point to: a  *)
(* cell is never reused while a pointer to it is left.  Each access to the *)
(* shared pointer c is one step; back, f and w belong to the thread that   *)
(* has the mutex, front, r and the active flag to the reader.              *)
(***************************************************************************)
EXTENDS Integers

CONSTANTS
    Senders,       \* threads that send
    None,          \* no thread
    MaxCommands    \* bound: commands sent in total

ASSUME MailboxAssumption ==
    /\ None \notin Senders
    /\ MaxCommands \in Nat

NULL == -1
Position == 1 .. MaxCommands

VARIABLES
    cell,      \* yqueue_t: who wrote the n-th command
    f,         \* _f, and back: past the last command written
    w,         \* _w: past the last command flushed
    c,         \* _c: the same, for the reader, or NULL when it sleeps
    front,     \* _queue.front(): commands read
    r,         \* _r: past the last command prefetched
    mode,      \* mailbox_t::_active
    signals,   \* signals in _signaler
    lock,      \* who has _sync
    pc,        \* each sender: "idle", "flush", "asleep" or "signal"
    rpc,       \* the reader: "out", "read", "wait", "signalled" or "get"
    got,       \* the command the last recv returned
    failed     \* history: the assertion of recv that failed, if any

senderVars == <<cell, f, w, lock, pc>>
readerVars == <<front, r, mode, rpc, got, failed>>
vars == <<senderVars, readerVars, c, signals>>

\* The constructor's check_read has put the pipe to sleep.
Init ==
    /\ cell = [n \in Position |-> None]
    /\ f = 0
    /\ w = 0
    /\ c = NULL
    /\ front = 0
    /\ r = 0
    /\ mode = "passive"
    /\ signals = 0
    /\ lock = None
    /\ pc = [s \in Senders |-> "idle"]
    /\ rpc = "out"
    /\ got = None
    /\ failed = "no"

-----------------------------------------------------------------------------
(* send.                                                                   *)

\* The mutex is taken and the command written; f is the writer's own.
Write(s) ==
    /\ pc[s] = "idle"
    /\ lock = None
    /\ f < MaxCommands
    /\ lock' = s
    /\ cell' = [cell EXCEPT ![f + 1] = s]
    /\ f' = f + 1
    /\ pc' = [pc EXCEPT ![s] = "flush"]
    /\ UNCHANGED <<w, readerVars, c, signals>>

\* Mutant: the reader is woken whether it sleeps or not.
FlushAlwaysSignals(s) ==
    /\ pc[s] = "flush"
    /\ c' = f
    /\ w' = f
    /\ lock' = None
    /\ pc' = [pc EXCEPT ![s] = "signal"]
    /\ UNCHANGED <<cell, f, readerVars, signals>>

\* flush: the compare-and-swap of c from w to f, ...
Flush(s) ==
    /\ pc[s] = "flush"
    /\ IF c = w
       THEN /\ c' = f
            /\ w' = f
            /\ lock' = None
            /\ pc' = [pc EXCEPT ![s] = "idle"]
       ELSE /\ pc' = [pc EXCEPT ![s] = "asleep"]
            /\ UNCHANGED <<c, w, lock>>
    /\ UNCHANGED <<cell, f, readerVars, signals>>

\* Mutant: the result of flush is ignored.
FlushAsleepSilent(s) ==
    /\ pc[s] = "asleep"
    /\ c' = f
    /\ w' = f
    /\ lock' = None
    /\ pc' = [pc EXCEPT ![s] = "idle"]
    /\ UNCHANGED <<cell, f, readerVars, signals>>

\* ... which failed: the reader sleeps, and a plain store is enough.
FlushAsleep(s) ==
    /\ pc[s] = "asleep"
    /\ c' = f
    /\ w' = f
    /\ lock' = None
    /\ pc' = [pc EXCEPT ![s] = "signal"]
    /\ UNCHANGED <<cell, f, readerVars, signals>>

\* The mutex is free again when the reader is woken.
Signal(s) ==
    /\ pc[s] = "signal"
    /\ signals' = signals + 1
    /\ pc' = [pc EXCEPT ![s] = "idle"]
    /\ UNCHANGED <<cell, f, w, lock, readerVars, c>>

-----------------------------------------------------------------------------
(* recv.                                                                   *)

RecvCalled ==
    /\ rpc = "out"
    /\ rpc' = IF mode = "active" THEN "read" ELSE "wait"
    /\ UNCHANGED <<senderVars, front, r, mode, got, failed, c, signals>>

(* check_read: what was prefetched, or the compare-and-swap of c from      *)
(* front to NULL, which returns what c was.                                *)
prefetched == front # r /\ r # NULL

\* Mutant: an awake reader always has something to read.
nothingThereAsleep == ~prefetched /\ c = NULL

nothingThere == ~prefetched /\ (c = front \/ c = NULL)

checkRead ==
    /\ r' = IF prefetched THEN r ELSE c
    /\ c' = IF ~prefetched /\ c = front THEN NULL ELSE c

pop ==
    /\ got' = cell[front + 1]
    /\ front' = front + 1

\* Active, recv returns a command or goes to sleep.
ReadCommand ==
    /\ rpc = "read"
    /\ checkRead
    /\ ~nothingThere
    /\ pop
    /\ rpc' = "out"
    /\ UNCHANGED <<senderVars, mode, failed, signals>>

ReadNothing ==
    /\ rpc = "read"
    /\ checkRead
    /\ nothingThere
    /\ mode' = "passive"
    /\ rpc' = "wait"
    /\ UNCHANGED <<senderVars, front, got, failed, signals>>

\* The signaler's wait: a signal is there, or the time is up (or EINTR).
WaitSignalled ==
    /\ rpc = "wait"
    /\ signals > 0
    /\ rpc' = "signalled"
    /\ UNCHANGED <<senderVars, front, r, mode, got, failed, c, signals>>

WaitTimesOut ==
    /\ rpc = "wait"
    /\ rpc' = "out"
    /\ UNCHANGED <<senderVars, front, r, mode, got, failed, c, signals>>

\* Mutant: the signal is seen and stays.
RecvSignalLeft ==
    /\ rpc = "signalled"
    /\ mode' = "active"
    /\ rpc' = "get"
    /\ UNCHANGED <<senderVars, front, r, got, failed, c, signals>>

RecvSignal ==
    /\ rpc = "signalled"
    /\ signals' = signals - 1
    /\ mode' = "active"
    /\ rpc' = "get"
    /\ UNCHANGED <<senderVars, front, r, got, failed, c>>

\* recv asserts that a command is there.
GetCommand ==
    /\ rpc = "get"
    /\ checkRead
    /\ IF nothingThere THEN failed' = "recv" /\ UNCHANGED <<front, got>>
                       ELSE pop /\ UNCHANGED failed
    /\ rpc' = "out"
    /\ UNCHANGED <<senderVars, mode, signals>>

-----------------------------------------------------------------------------
Reader ==
    RecvCalled \/ ReadCommand \/ ReadNothing \/ WaitSignalled \/ RecvSignal \/ GetCommand

Send(s) == Flush(s) \/ FlushAsleep(s) \/ Signal(s)

Next ==
    \/ Reader
    \/ WaitTimesOut
    \/ \E s \in Senders : Write(s) \/ Send(s)

Spec == Init /\ [][Next]_vars

(* A thread that is in send goes on.  The reader calls recv again and      *)
(* again, as the loop of an I/O thread does, and a signal that stays is    *)
(* seen by one of the calls: SF, for a time-out may come in between.       *)
Fairness ==
    /\ \A s \in Senders : WF_vars(Send(s))
    /\ WF_vars(RecvCalled \/ ReadCommand \/ ReadNothing \/ RecvSignal \/ GetCommand)
    /\ SF_vars(WaitSignalled)

FairSpec == Spec /\ Fairness

-----------------------------------------------------------------------------
TypeOK ==
    /\ cell \in [Position -> Senders \cup {None}]
    /\ f \in 0 .. MaxCommands
    /\ w \in 0 .. MaxCommands
    /\ c \in 0 .. MaxCommands \cup {NULL}
    /\ front \in 0 .. MaxCommands
    /\ r \in 0 .. MaxCommands
    /\ mode \in {"active", "passive"}
    /\ signals \in Nat
    /\ lock \in Senders \cup {None}
    /\ pc \in [Senders -> {"idle", "flush", "asleep", "signal"}]
    /\ rpc \in {"out", "read", "wait", "signalled", "get"}
    /\ got \in Senders \cup {None}
    /\ failed \in {"no", "recv"}

(* The assertion in mailbox_t::recv never fails: a signal is never there   *)
(* without a command, however sends and time-outs interleave.              *)
WokenFindsCommand == failed = "no"

(* ypipe_t::flush: the compare-and-swap fails only because the reader      *)
(* sleeps, and the reader leaves c alone until it is woken, so that the    *)
(* plain store that follows overwrites nothing.                            *)
AsleepUntilStored == \A s \in Senders : pc[s] = "asleep" => c = NULL

(* No wake-up is lost: while a sleeping reader has a command to read, its  *)
(* one signal is there or a thread is about to send it - and never two.    *)
WakeUpDue ==
    /\ signals <= 1
    /\ mode = "passive" /\ front < w =>
          signals = 1 \/ \E s \in Senders : pc[s] = "signal"

(* A mailbox whose commands have all been read is used by no thread that   *)
(* has left the mutex: ~mailbox_t only waits for the mutex, and a thread   *)
(* that still had a signal to send would use a signaler that is gone.      *)
DrainedIsQuiet == front = w => \A s \in Senders : pc[s] # "signal"

\* The commands that are posted: those up to w.
Abstract == INSTANCE CommandQueue WITH
    posted <- [n \in Position |-> IF n <= w THEN cell[n] ELSE None],
    count <- w,
    taken <- front

(* The mailbox is a queue: every command is received once, after it was    *)
(* posted and in the order of the posts.                                   *)
ImplementsQueue == Abstract!Spec

(* Every command that was written is received.                             *)
CommandsReceived == \A n \in Position : f >= n ~> front >= n
=============================================================================
