-------------------------------- MODULE ZmqPipe --------------------------------
(***************************************************************************)
(* libzmq's pipe_t: the two ends of a pipe between a socket and a session, *)
(* each in a thread of its own, with the messages that pass each way, the  *)
(* flow control between them, and the handshake by which both are          *)
(* deallocated.  Every request of the IPC client and every close of its    *)
(* socket goes through one.                                                *)
(*                                                                         *)
(* The ends share two lock-free queues (module Mailbox looks inside one)   *)
(* and send each other commands, which arrive in order.  A call of an      *)
(* end's owner and the handling of a command are single steps: an end is   *)
(* only used by its thread, and a queue is written and read by one each.   *)
(*                                                                         *)
(* A message is the number of it among those its end wrote; it has one     *)
(* part or several, of which all but the last are the negated number.      *)
(* Hiccups (subscriber sockets and ZMQ_IMMEDIATE only), conflation and     *)
(* changes of the water marks are left out: the REQ and REP sockets of the *)
(* IPC client and server use none of them.  The routing id that a session  *)
(* writes to a REP socket in front of everything else is left out too: it  *)
(* is a message that neither write nor read counts, and that the socket    *)
(* takes off the pipe when it is attached.                                 *)
(***************************************************************************)
EXTENDS Integers, Sequences

CONSTANTS
    Hwm,           \* the high water mark of each end's outgoing messages
    MaxMessages,   \* bound: messages each end writes
    MaxParts       \* bound: unfinished parts in a queue

End == {"socket", "session"}
peer(e) == IF e = "socket" THEN "session" ELSE "socket"

ASSUME PipeAssumption ==
    /\ Hwm \in [End -> Nat]
    /\ MaxMessages \in [End -> Nat]
    /\ MaxParts \in [End -> Nat]

Delimiter == 0

VARIABLES
    state,         \* _state, and "gone" once deallocated
    delay,         \* _delay
    inActive,      \* _in_active
    outActive,     \* _out_active
    outPipe,       \* _out_pipe is not NULL
    queue,         \* the queue each end reads, below
    msgsRead,      \* _msgs_read
    msgsWritten,   \* _msgs_written
    peersRead,     \* _peers_msgs_read
    inbox,         \* commands on their way to each end
    got,           \* history: the message whose last part was read last
    hurried        \* history: the owner gave up what was still to be read

flowVars == <<msgsRead, msgsWritten, peersRead>>
historyVars == <<got, hurried>>
vars == <<state, delay, inActive, outActive, outPipe, queue, flowVars, inbox, historyVars>>

(* ypipe_t: what the reader can see, what is complete and not yet flushed, *)
(* the parts of an unfinished message, and whether the reader sleeps.      *)
emptyQueue == [ready |-> <<>>, written |-> <<>>, parts |-> <<>>, asleep |-> FALSE]

Init ==
    /\ state = [e \in End |-> "active"]
    /\ delay \in [End -> BOOLEAN]   \* set_nodelay, when the pipe is attached
    /\ inActive = [e \in End |-> TRUE]
    /\ outActive = [e \in End |-> TRUE]
    /\ outPipe = [e \in End |-> TRUE]
    /\ queue = [e \in End |-> emptyQueue]
    /\ msgsRead = [e \in End |-> 0]
    /\ msgsWritten = [e \in End |-> 0]
    /\ peersRead = [e \in End |-> 0]
    /\ inbox = [e \in End |-> <<>>]
    /\ got = [e \in End |-> 0]
    /\ hurried = [e \in End |-> FALSE]

-----------------------------------------------------------------------------
(* The queue (ypipe_t) and the commands.                                   *)

putPart(q, item) == [q EXCEPT !.parts = Append(@, item)]

putLast(q, item) == [q EXCEPT !.written = @ \o q.parts \o <<item>>, !.parts = <<>>]

\* Mutant: what was written of an unfinished message stays.
rollbackKept(q) == [q EXCEPT !.written = @ \o q.parts, !.parts = <<>>]

rollback(q) == [q EXCEPT !.parts = <<>>]

flush(q) ==
    IF q.written = <<>> THEN q
    ELSE [q EXCEPT !.ready = @ \o q.written, !.written = <<>>, !.asleep = FALSE]

\* flush found the reader asleep.
wakes(q) == q.written # <<>> /\ q.asleep

command(type) == [type |-> type, read |-> 0]

sent(e, commands) == [inbox EXCEPT ![peer(e)] = @ \o commands]

-----------------------------------------------------------------------------
(* Writing.                                                                *)

\* Mutant: one message more than the high water mark fits.
fullLate(e) == Hwm[e] > 0 /\ msgsWritten[e] - peersRead[e] > Hwm[e]

full(e) == Hwm[e] > 0 /\ msgsWritten[e] - peersRead[e] >= Hwm[e]

CheckWriteFails(e) ==
    /\ outActive[e] /\ state[e] = "active"
    /\ full(e)
    /\ outActive' = [outActive EXCEPT ![e] = FALSE]
    /\ UNCHANGED <<state, delay, inActive, outPipe, queue, flowVars, inbox, historyVars>>

Write(e, more) ==
    /\ outActive[e] /\ state[e] = "active"
    /\ ~full(e)
    /\ msgsWritten[e] < MaxMessages[e]
    /\ IF more
       THEN /\ Len(queue[peer(e)].parts) < MaxParts[e]
            /\ queue' = [queue EXCEPT ![peer(e)] = putPart(@, -(msgsWritten[e] + 1))]
            /\ UNCHANGED msgsWritten
       ELSE /\ queue' = [queue EXCEPT ![peer(e)] = putLast(@, msgsWritten[e] + 1)]
            /\ msgsWritten' = [msgsWritten EXCEPT ![e] = @ + 1]
    /\ UNCHANGED <<state, delay, inActive, outActive, outPipe, msgsRead, peersRead, inbox,
                   historyVars>>

Rollback(e) ==
    /\ state[e] # "gone"
    /\ outPipe[e]
    /\ queue' = [queue EXCEPT ![peer(e)] = rollback(@)]
    /\ UNCHANGED <<state, delay, inActive, outActive, outPipe, flowVars, inbox, historyVars>>

\* Mutant: the reader is not woken.
FlushSilent(e) ==
    /\ state[e] \notin {"gone", "term_ack_sent"}
    /\ outPipe[e]
    /\ queue' = [queue EXCEPT ![peer(e)] = flush(@)]
    /\ UNCHANGED <<state, delay, inActive, outActive, outPipe, flowVars, inbox, historyVars>>

Flush(e) ==
    /\ state[e] \notin {"gone", "term_ack_sent"}
    /\ outPipe[e]
    /\ queue[peer(e)].written # <<>>
    /\ queue' = [queue EXCEPT ![peer(e)] = flush(@)]
    /\ inbox' = IF wakes(queue[peer(e)]) THEN sent(e, <<command("activate_read")>>) ELSE inbox
    /\ UNCHANGED <<state, delay, inActive, outActive, outPipe, flowVars, historyVars>>

-----------------------------------------------------------------------------
(* Reading.                                                                *)

mayRead(e) == inActive[e] /\ state[e] \in {"active", "waiting_for_delimiter"}

(* process_delimiter: the last step of the termination that the peer asked *)
(* for, or the announcement of one.                                        *)
processDelimiter(e) ==
    IF state[e] = "active"
    THEN /\ state' = [state EXCEPT ![e] = "delimiter_received"]
         /\ queue' = [queue EXCEPT ![e].ready = Tail(@)]
         /\ UNCHANGED <<outPipe, inbox>>
    ELSE /\ state' = [state EXCEPT ![e] = "term_ack_sent"]
         /\ queue' = [queue EXCEPT ![e].ready = Tail(@), ![peer(e)] = rollback(@)]
         /\ outPipe' = [outPipe EXCEPT ![e] = FALSE]
         /\ inbox' = sent(e, <<command("pipe_term_ack")>>)

\* check_read and read find nothing, or the delimiter.
ReadNothing(e) ==
    /\ mayRead(e)
    /\ queue[e].ready = <<>>
    /\ inActive' = [inActive EXCEPT ![e] = FALSE]
    /\ queue' = [queue EXCEPT ![e].asleep = TRUE]
    /\ UNCHANGED <<state, delay, outActive, outPipe, flowVars, inbox, historyVars>>

ReadDelimiter(e) ==
    /\ mayRead(e)
    /\ queue[e].ready # <<>>
    /\ Head(queue[e].ready) = Delimiter
    /\ processDelimiter(e)
    /\ UNCHANGED <<delay, inActive, outActive, flowVars, historyVars>>

\* compute_lwm, of the mark that limits the writer.
lwm(e) == (Hwm[peer(e)] + 1) \div 2

tellsWriter(e, n) == lwm(e) > 0 /\ n % lwm(e) = 0

\* Mutant: every part counts as a message.
ReadCountsParts(e) ==
    /\ mayRead(e)
    /\ queue[e].ready # <<>>
    /\ Head(queue[e].ready) # Delimiter
    /\ LET n == msgsRead[e] + 1
       IN  /\ msgsRead' = [msgsRead EXCEPT ![e] = n]
           /\ got' = [got EXCEPT ![e] = n]
           /\ inbox' = IF tellsWriter(e, n)
                       THEN sent(e, <<[type |-> "activate_write", read |-> n]>>) ELSE inbox
    /\ queue' = [queue EXCEPT ![e].ready = Tail(@)]
    /\ UNCHANGED <<state, delay, inActive, outActive, outPipe, msgsWritten, peersRead, hurried>>

(* read counts complete messages and tells the writer at every multiple of *)
(* the low water mark - after each part that is read, the unfinished ones  *)
(* included.                                                               *)
Read(e) ==
    /\ mayRead(e)
    /\ queue[e].ready # <<>>
    /\ Head(queue[e].ready) # Delimiter
    /\ LET item == Head(queue[e].ready)
           n == IF item > 0 THEN msgsRead[e] + 1 ELSE msgsRead[e]
       IN  /\ msgsRead' = [msgsRead EXCEPT ![e] = n]
           /\ got' = IF item > 0 THEN [got EXCEPT ![e] = item] ELSE got
           /\ inbox' = IF tellsWriter(e, n)
                       THEN sent(e, <<[type |-> "activate_write", read |-> n]>>) ELSE inbox
    /\ queue' = [queue EXCEPT ![e].ready = Tail(@)]
    /\ UNCHANGED <<state, delay, inActive, outActive, outPipe, msgsWritten, peersRead, hurried>>

-----------------------------------------------------------------------------
(* Termination.                                                            *)

stopsWriting(e) == outActive' = [outActive EXCEPT ![e] = FALSE]

\* Mutant: unflushed messages are dropped with the unfinished ones.
delimitedEmpty(q) == flush(putLast(rollback([q EXCEPT !.written = <<>>]), Delimiter))

\* What terminate leaves in a queue that is still there.
delimited(q) == flush(putLast(rollback(q), Delimiter))

\* The command that wakes a sleeping reader of it.
wakeUp(q) == IF wakes(putLast(rollback(q), Delimiter)) THEN <<command("activate_read")>> ELSE <<>>

\* terminate: the peer is asked to stop ...
TerminateAsks(e, d) ==
    /\ state[e] \in {"active", "delimiter_received"}
    /\ state' = [state EXCEPT ![e] = "term_req_sent1"]
    /\ delay' = [delay EXCEPT ![e] = d]
    /\ stopsWriting(e)
    /\ queue' = [queue EXCEPT ![peer(e)] = delimited(@)]
    /\ inbox' = sent(e, <<command("pipe_term")>> \o wakeUp(queue[peer(e)]))
    /\ UNCHANGED <<inActive, outPipe, flowVars, historyVars>>

\* ... or has asked already, and what is left to read is given up ...
TerminateHurries(e) ==
    /\ state[e] = "waiting_for_delimiter"
    /\ state' = [state EXCEPT ![e] = "term_ack_sent"]
    /\ delay' = [delay EXCEPT ![e] = FALSE]
    /\ stopsWriting(e)
    /\ outPipe' = [outPipe EXCEPT ![e] = FALSE]
    /\ queue' = [queue EXCEPT ![peer(e)] = rollback(@)]
    /\ inbox' = sent(e, <<command("pipe_term_ack")>>)
    /\ hurried' = [hurried EXCEPT ![e] = TRUE]
    /\ UNCHANGED <<inActive, flowVars, got>>

(* ... or is still read; a delimiter goes the other way, to nobody (and    *)
(* again with each further call; one is enough here).                      *)
TerminateWaits(e) ==
    /\ state[e] = "waiting_for_delimiter"
    /\ \A k \in 1 .. Len(queue[peer(e)].ready) : queue[peer(e)].ready[k] # Delimiter
    /\ delay' = [delay EXCEPT ![e] = TRUE]
    /\ stopsWriting(e)
    /\ queue' = [queue EXCEPT ![peer(e)] = delimited(@)]
    /\ inbox' = sent(e, wakeUp(queue[peer(e)]))
    /\ UNCHANGED <<state, inActive, outPipe, flowVars, historyVars>>

\* In the other states only the delay is noted, and has no use any more.
Terminate(e) ==
    \/ \E d \in BOOLEAN : TerminateAsks(e, d)
    \/ TerminateHurries(e)
    \/ TerminateWaits(e)

-----------------------------------------------------------------------------
(* Commands.                                                               *)

arrives(e, type) == inbox[e] # <<>> /\ Head(inbox[e]).type = type
handled(e) == [inbox EXCEPT ![e] = Tail(@)]
handledAndSent(e, type) ==
    [inbox EXCEPT ![e] = Tail(@), ![peer(e)] = Append(@, command(type))]

ProcessActivateRead(e) ==
    /\ arrives(e, "activate_read")
    /\ inActive' = [inActive EXCEPT
          ![e] = @ \/ state[e] \in {"active", "waiting_for_delimiter"}]
    /\ inbox' = handled(e)
    /\ UNCHANGED <<state, delay, outActive, outPipe, queue, flowVars, historyVars>>

\* Mutant: the count is noted and the writer stays stopped.
ProcessActivateWriteDeaf(e) ==
    /\ arrives(e, "activate_write")
    /\ peersRead' = [peersRead EXCEPT ![e] = Head(inbox[e]).read]
    /\ inbox' = handled(e)
    /\ UNCHANGED <<state, delay, inActive, outActive, outPipe, queue, msgsRead, msgsWritten,
                   historyVars>>

ProcessActivateWrite(e) ==
    /\ arrives(e, "activate_write")
    /\ peersRead' = [peersRead EXCEPT ![e] = Head(inbox[e]).read]
    /\ outActive' = [outActive EXCEPT ![e] = @ \/ state[e] = "active"]
    /\ inbox' = handled(e)
    /\ UNCHANGED <<state, delay, inActive, outPipe, queue, msgsRead, msgsWritten, historyVars>>

\* process_pipe_term in the three states it asserts.
TermWhileActive(e) ==
    /\ state[e] = "active"
    /\ delay[e]
    /\ state' = [state EXCEPT ![e] = "waiting_for_delimiter"]
    /\ inbox' = handled(e)
    /\ UNCHANGED <<outPipe, hurried>>

TermWithoutDelay(e) ==
    /\ state[e] = "active"
    /\ ~delay[e]
    /\ state' = [state EXCEPT ![e] = "term_ack_sent"]
    /\ outPipe' = [outPipe EXCEPT ![e] = FALSE]
    /\ inbox' = handledAndSent(e, "pipe_term_ack")
    /\ hurried' = [hurried EXCEPT ![e] = TRUE]

\* Mutant: the end that asked as well goes on without an acknowledgement.
TermAcknowledgedSilent(e) ==
    /\ state[e] \in {"delimiter_received", "term_req_sent1"}
    /\ state' = [state EXCEPT ![e] = IF @ = "term_req_sent1" THEN "term_req_sent2"
                                                             ELSE "term_ack_sent"]
    /\ outPipe' = [outPipe EXCEPT ![e] = FALSE]
    /\ inbox' = handled(e)
    /\ UNCHANGED hurried

\* Mutant: the end that asked as well does not remember that it was asked.
TermAcknowledgedForgets(e) ==
    /\ state[e] \in {"delimiter_received", "term_req_sent1"}
    /\ state' = [state EXCEPT ![e] = IF @ = "term_req_sent1" THEN @ ELSE "term_ack_sent"]
    /\ outPipe' = [outPipe EXCEPT ![e] = FALSE]
    /\ inbox' = handledAndSent(e, "pipe_term_ack")
    /\ UNCHANGED hurried

TermAcknowledged(e) ==
    /\ state[e] \in {"delimiter_received", "term_req_sent1"}
    /\ state' = [state EXCEPT ![e] = IF @ = "term_req_sent1" THEN "term_req_sent2"
                                                             ELSE "term_ack_sent"]
    /\ outPipe' = [outPipe EXCEPT ![e] = FALSE]
    /\ inbox' = handledAndSent(e, "pipe_term_ack")
    /\ UNCHANGED hurried

ProcessPipeTerm(e) ==
    /\ arrives(e, "pipe_term")
    /\ TermWhileActive(e) \/ TermWithoutDelay(e) \/ TermAcknowledged(e)
    /\ UNCHANGED <<delay, inActive, outActive, queue, flowVars, got>>

(* process_pipe_term_ack: the end and the queue it reads are deallocated.  *)
ProcessPipeTermAck(e) ==
    /\ arrives(e, "pipe_term_ack")
    /\ state' = [state EXCEPT ![e] = "gone"]
    /\ outPipe' = [outPipe EXCEPT ![e] = IF state[e] = "term_req_sent1" THEN FALSE ELSE @]
    /\ inbox' = IF state[e] = "term_req_sent1" THEN handledAndSent(e, "pipe_term_ack")
                                               ELSE handled(e)
    /\ UNCHANGED <<delay, inActive, outActive, queue, flowVars, got, hurried>>

-----------------------------------------------------------------------------
Owner(e) ==
    \/ CheckWriteFails(e)
    \/ \E more \in BOOLEAN : Write(e, more)
    \/ Rollback(e)
    \/ Flush(e)
    \/ Terminate(e)

\* check_read, which leaves a message where it is.
CheckRead(e) == ReadNothing(e) \/ ReadDelimiter(e)

Reader(e) == CheckRead(e) \/ Read(e)

Process(e) ==
    \/ ProcessActivateRead(e)
    \/ ProcessActivateWrite(e)
    \/ ProcessPipeTerm(e)
    \/ ProcessPipeTermAck(e)

Next == \E e \in End : Owner(e) \/ Reader(e) \/ Process(e)

Spec == Init /\ [][Next]_vars

(* Commands are handled (module Mailbox) and what was written is flushed.  *)
(* A session looks at its pipe whether it has an engine or not: when it is *)
(* activated, when it loses the engine and when it is told to terminate.   *)
(* That an end reads messages is not assumed: a session without an engine  *)
(* does not, nor does a socket from which nobody receives.                 *)
Fairness ==
    /\ \A e \in End : WF_vars(Process(e)) /\ WF_vars(Flush(e))
    /\ WF_vars(CheckRead("session"))

FairSpec == Spec /\ Fairness

-----------------------------------------------------------------------------
TypeOK ==
    /\ state \in [End -> {"active", "delimiter_received", "waiting_for_delimiter",
                          "term_ack_sent", "term_req_sent1", "term_req_sent2", "gone"}]
    /\ \A v \in {delay, inActive, outActive, outPipe, hurried} : v \in [End -> BOOLEAN]
    /\ \A e \in End : /\ msgsWritten[e] \in 0 .. MaxMessages[e]
                      /\ peersRead[e] \in 0 .. msgsWritten[e]
                      /\ msgsRead[e] \in 0 .. msgsWritten[peer(e)]

(* The states that process_pipe_term and process_pipe_term_ack assert are  *)
(* those in which the commands arrive, whichever end terminates first,     *)
(* with or without delay, or both at once.                                 *)
AssertionsHold ==
    \A e \in End :
        /\ arrives(e, "pipe_term") =>
              state[e] \in {"active", "delimiter_received", "term_req_sent1"}
        /\ arrives(e, "pipe_term_ack") =>
              state[e] \in {"term_req_sent1", "term_req_sent2", "term_ack_sent"}

(* A deallocated end is out of use: no command is on its way to it, and    *)
(* its peer has let go of the queue that went with it.                     *)
GoneIsUnused ==
    \A e \in End : state[e] = "gone" =>
        inbox[e] = <<>> /\ (state[peer(e)] # "gone" => ~outPipe[peer(e)])

(* Termination is safe: commands find the state they expect and nothing    *)
(* that was deallocated is used.                                           *)
TerminationSafe == AssertionsHold /\ GoneIsUnused

told(e, type) == \E k \in 1 .. Len(inbox[e]) : inbox[e][k].type = type

(* No wake-up is lost: an end that stopped reading and has something to    *)
(* read is being told so (pipe_t::flush, process_activate_read).           *)
ReaderIsWoken ==
    \A e \in End :
        ~inActive[e] /\ state[e] \in {"active", "waiting_for_delimiter"}
           /\ queue[e].ready # <<>> => told(e, "activate_read")

(* An end that stopped writing because the pipe was full is being told     *)
(* when its messages have been read, whatever part of them the low water   *)
(* mark lets the reader report (pipe_t::read, process_activate_write).     *)
WriterIsTold ==
    \A e \in End :
        ~outActive[e] /\ state[e] = "active" /\ msgsRead[peer(e)] = msgsWritten[e]
           => told(e, "activate_write")

(* Neither a reader nor a writer that stopped is left without the command  *)
(* that makes it go on.                                                    *)
WakeUpsDue == ReaderIsWoken /\ WriterIsTold

(* No more messages are between the ends than the high water mark allows,  *)
(* although the writer knows late and roughly what was read.               *)
QueueWithinMark ==
    \A e \in End : Hwm[e] > 0 => msgsWritten[e] - msgsRead[peer(e)] <= Hwm[e]

(* A message that was started can be finished: the water mark never comes  *)
(* between its parts (check_write is called for each of them).             *)
StartedCanFinish ==
    \A e \in End : state[e] = "active" /\ queue[peer(e)].parts # <<>>
                      => outActive[e] /\ ~full(e)

(* The high water mark limits messages, and messages only.                 *)
WithinMarks == QueueWithinMark /\ StartedCanFinish

(* Messages are read whole, once and in order: the numbers read have no    *)
(* gap, and what is flushed never ends inside of a message, not even where *)
(* terminate wrote its delimiter.                                          *)
WholeAndInOrder ==
    \A e \in End :
        /\ got[e] = msgsRead[e]
        /\ LET all == queue[e].ready \o queue[e].written
           IN  \A k \in 1 .. Len(all) : all[k] < 0 =>
                  k < Len(all) /\ all[k + 1] \in {all[k], -all[k]}

(* pipe.hpp: with delay "the pending messages will be processed before     *)
(* actual shutdown".  An end that acknowledges the termination its peer    *)
(* asked for has read every message the peer finished, flushed or not,     *)
(* unless its owner gave them up.                                          *)
PendingDelivered ==
    \A e \in End : state[e] = "term_ack_sent" /\ ~hurried[e]
                      => msgsRead[e] = msgsWritten[peer(e)]

allGone == \A x \in End : state[x] = "gone"

(* An end that waits for the delimiter with something in front of it: for  *)
(* a session that is a message; a socket does not even look.               *)
waitsForReader(e) ==
    /\ state[e] = "waiting_for_delimiter"
    /\ e = "session" => queue[e].ready # <<>> /\ Head(queue[e].ready) # Delimiter

(* pipe.hpp: the owner "will be notified about actual deallocation": both  *)
(* ends go once either was told to terminate - unless one waits for ever,  *)
(* with delay, for what only a reader could take, and nobody reads from    *)
(* it.  Whichever ends are read, no other wait is without end, and an end  *)
(* that is read never is the one that waits.                               *)
TerminationEnds ==
    \A read \in SUBSET End :
        (\A x \in read : WF_vars(Reader(x))) =>
            []((\E e \in End : state[e] = "term_req_sent1") =>
                  <>allGone \/ \E x \in End \ read : <>[]waitsForReader(x))

(* A writer that met the high water mark and has a reader writes again, or *)
(* the pipe ends.                                                          *)
WriterResumes ==
    \A e \in End :
        WF_vars(Reader(peer(e))) =>
            (~outActive[e] /\ state[e] = "active" ~> outActive[e] \/ state[e] # "active")
=============================================================================
