----------------------------- MODULE CommandQueue -----------------------------
(***************************************************************************)
(* What libzmq's mailbox promises its users: commands posted by any thread *)
(* are taken by the one reader in the order they were posted, each once.   *)
(***************************************************************************)
EXTENDS Integers

CONSTANTS
    Senders,       \* threads that post
    None,          \* no command
    MaxCommands    \* bound: commands posted

VARIABLES
    posted,   \* the sender of the n-th command, once it is posted
    count,    \* commands posted
    taken,    \* commands taken
    got       \* the command that was taken last
vars == <<posted, count, taken, got>>

Position == 1 .. MaxCommands

Init ==
    /\ posted = [n \in Position |-> None]
    /\ count = 0
    /\ taken = 0
    /\ got = None

Post(s) ==
    /\ count < MaxCommands
    /\ posted' = [posted EXCEPT ![count + 1] = s]
    /\ count' = count + 1
    /\ UNCHANGED <<taken, got>>

Take ==
    /\ taken < count
    /\ got' = posted[taken + 1]
    /\ taken' = taken + 1
    /\ UNCHANGED <<posted, count>>

Next == Take \/ \E s \in Senders : Post(s)

Spec == Init /\ [][Next]_vars
=============================================================================
