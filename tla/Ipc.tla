---------------------------------- MODULE Ipc ----------------------------------
(***************************************************************************)
(* The client's and the server's ends of the ZeroMQ channel:               *)
(* Apps/Client/IPC.h driven by the client's toggle and button, the client's*)
(* list of log lines, Apps/Server/Protocols/IPC.h polled once per frame,   *)
(* the REQ and REP sockets under them (libzmq's req.cpp and rep.cpp) and   *)
(* the client's session between its pipe and its connection                *)
(* (session_base.cpp).                                                     *)
(*                                                                         *)
(* A request is the number under which its send was accepted.  A socket's  *)
(* outbound pipe accepts a request at once, whether or not a server is     *)
(* there.  It is a message of two parts, the empty bottom of req_t::xsend  *)
(* and the body, which libzmq's I/O thread pulls one by one once there is  *)
(* a connection; the socket is a local one, and a connection breaks when   *)
(* the server at its other end stops, which the client learns later.  The  *)
(* client's only thread is its user interface: while zmq_ctx_destroy waits *)
(* (the default linger is -1) the client does nothing else.  A server may  *)
(* stop and be started again; what reached it and was not read is lost.    *)
(***************************************************************************)
EXTENDS Integers, Sequences

CONSTANTS
    Clients,            \* client processes
    NumberOfMessages,   \* Logs::numberOfMessages
    MaxConnections,     \* bound: connections a client makes
    MaxRequests         \* bound: requests accepted in total

ASSUME BoundsAssumption ==
    /\ NumberOfMessages \in Nat \ {0}
    /\ MaxConnections \in Nat
    /\ MaxRequests \in Nat

VARIABLES
    open,          \* IPC::isConnected: the socket and its context exist
    receiving,     \* req_t::_receiving_reply of the client's socket
    outbox,        \* requests in the socket's pipe, until their last part is pulled
    link,          \* the session's engine: "none", "up", or "dead" and not noticed yet
    half,          \* the request whose bottom alone was pulled, or 0 (_incomplete_in)
    waiting,       \* why the client is blocked in zmq_ctx_destroy, if it is
    logs,          \* Logs::logs
    connections,   \* history: sockets a client made
    asked,         \* history: requests accepted from a client
    last,          \* the latest request accepted
    transit,       \* requests on the wire to the server that runs
    up,            \* a server process runs
    inbox,         \* requests in the pipes of the server's socket
    sendingReply,  \* rep_t::_sending_reply
    throttled,     \* less than timeInterval since lastSent
    handled,       \* history: requests read by a server
    lost,          \* history: requests that nobody has any more
    taken,         \* history: requests pulled for the server that runs
    orphaned       \* history: requests pulled for a server that has stopped

socketVars == <<open, receiving, waiting, logs, connections, asked, last>>
sessionVars == <<outbox, link, half>>
historyVars == <<handled, lost, taken, orphaned>>
serverVars == <<up, inbox, sendingReply, throttled>>
vars == <<socketVars, sessionVars, transit, serverVars, historyVars>>

\* The client's object is value-initialised and its toggle starts off.
Init ==
    /\ open = [c \in Clients |-> FALSE]
    /\ receiving = [c \in Clients |-> FALSE]
    /\ outbox = [c \in Clients |-> {}]
    /\ link = [c \in Clients |-> "none"]
    /\ half = [c \in Clients |-> 0]
    /\ waiting = [c \in Clients |-> "no"]
    /\ logs = [c \in Clients |-> <<>>]
    /\ connections = [c \in Clients |-> 0]
    /\ asked = [c \in Clients |-> 0]
    /\ last = 0
    /\ transit = {}
    /\ up = FALSE
    /\ inbox = {}
    /\ sendingReply = FALSE
    /\ throttled = TRUE
    /\ handled = {}
    /\ lost = {}
    /\ taken = {}
    /\ orphaned = {}

-----------------------------------------------------------------------------
(* The client.                                                             *)

Line == {"Connecting", "Connected", "Closing", "Attempt", "Sent", "Sent -1"}

\* Mutant: a full list takes no new line, instead of dropping the oldest.
logFull(l, line) == IF Len(l) >= NumberOfMessages THEN l ELSE Append(l, line)

log(l, line) ==
    IF Len(l) >= NumberOfMessages THEN Tail(Append(l, line)) ELSE Append(l, line)

\* A new context and socket; connecting queues, so that it cannot fail.
newSocket(c) ==
    /\ open' = [open EXCEPT ![c] = TRUE]
    /\ receiving' = [receiving EXCEPT ![c] = FALSE]
    /\ connections' = [connections EXCEPT ![c] = @ + 1]

(* connect: an existing connection is closed first, which blocks while its *)
(* request is not on the wire.  (The client's toggle alternates and never  *)
(* connects twice; the class allows it.)                                   *)
Connect(c) ==
    /\ waiting[c] = "no"
    /\ connections[c] < MaxConnections
    /\ IF open[c]
       THEN /\ waiting' = [waiting EXCEPT ![c] = "connect"]
            /\ logs' = [logs EXCEPT ![c] = log(@, "Closing")]
            /\ UNCHANGED <<open, receiving, connections>>
       ELSE /\ newSocket(c)
            /\ logs' = [logs EXCEPT ![c] = log(log(@, "Connecting"), "Connected")]
            /\ UNCHANGED waiting
    /\ UNCHANGED <<asked, last, sessionVars, transit, serverVars, historyVars>>

\* close() returns at once without a context.
Close(c) ==
    /\ waiting[c] = "no"
    /\ open[c]
    /\ waiting' = [waiting EXCEPT ![c] = "close"]
    /\ logs' = [logs EXCEPT ![c] = log(@, "Closing")]
    /\ UNCHANGED <<open, receiving, connections, asked, last, sessionVars, transit,
                   serverVars, historyVars>>

(* zmq_ctx_destroy returns once nothing is left to send; session and       *)
(* connection go, the pointers are cleared and connect goes on, if it was  *)
(* connect that closed.                                                    *)

noSession(c) ==
    /\ link' = [link EXCEPT ![c] = "none"]
    /\ half' = [half EXCEPT ![c] = 0]

reopen(c) ==
    /\ newSocket(c)
    /\ logs' = [logs EXCEPT ![c] = log(log(@, "Connecting"), "Connected")]

shut(c) ==
    /\ open' = [open EXCEPT ![c] = FALSE]
    /\ receiving' = [receiving EXCEPT ![c] = FALSE]
    /\ UNCHANGED <<connections, logs>>

\* Mutant: the context goes with the request still in its pipe (linger 0).
ClosedDropping(c) ==
    /\ waiting[c] # "no"
    /\ lost' = lost \cup outbox[c]
    /\ outbox' = [outbox EXCEPT ![c] = {}]
    /\ waiting' = [waiting EXCEPT ![c] = "no"]
    /\ IF waiting[c] = "connect" THEN reopen(c) ELSE shut(c)
    /\ noSession(c)
    /\ UNCHANGED <<asked, last, transit, serverVars, handled, taken, orphaned>>

Closed(c) ==
    /\ waiting[c] # "no"
    /\ outbox[c] = {}
    /\ waiting' = [waiting EXCEPT ![c] = "no"]
    /\ IF waiting[c] = "connect" THEN reopen(c) ELSE shut(c)
    /\ noSession(c)
    /\ UNCHANGED <<outbox, asked, last, transit, serverVars, historyVars>>

(* send: the REQ socket takes one request and then refuses (EFSM) until a  *)
(* reply is received, which nothing in the client ever does.               *)

\* Mutant: a REQ socket that does not insist on its turn.
SendRelaxed(c) ==
    /\ waiting[c] = "no" /\ open[c]
    /\ last < MaxRequests
    /\ last' = last + 1
    /\ outbox' = [outbox EXCEPT ![c] = @ \cup {last + 1}]
    /\ asked' = [asked EXCEPT ![c] = @ + 1]
    /\ receiving' = [receiving EXCEPT ![c] = TRUE]
    /\ logs' = [logs EXCEPT ![c] = log(log(@, "Attempt"), "Sent")]
    /\ UNCHANGED <<open, waiting, connections, link, half, transit, serverVars, historyVars>>

Send(c) ==
    /\ waiting[c] = "no"
    /\ open[c]
    /\ \/ /\ receiving[c]
          /\ logs' = [logs EXCEPT ![c] = log(log(@, "Attempt"), "Sent -1")]
          /\ UNCHANGED <<receiving, outbox, asked, last>>
       \/ /\ ~receiving[c]
          /\ last < MaxRequests
          /\ last' = last + 1
          /\ outbox' = [outbox EXCEPT ![c] = @ \cup {last + 1}]
          /\ asked' = [asked EXCEPT ![c] = @ + 1]
          /\ receiving' = [receiving EXCEPT ![c] = TRUE]
          /\ logs' = [logs EXCEPT ![c] = log(log(@, "Attempt"), "Sent")]
    /\ UNCHANGED <<open, waiting, connections, link, half, transit, serverVars, historyVars>>

-----------------------------------------------------------------------------
(* The client's session in libzmq's I/O thread.                            *)

\* A connection is made, the first one or another after an error.
Attach(c) ==
    /\ open[c] /\ up
    /\ link[c] = "none"
    /\ link' = [link EXCEPT ![c] = "up"]
    /\ UNCHANGED <<socketVars, outbox, half, transit, serverVars, historyVars>>

(* The engine pulls the parts of a request and writes them.  (One pass of  *)
(* it pulls both, unless its batch is full in between.)                    *)
PullBottom(c) ==
    /\ link[c] \in {"up", "dead"} /\ half[c] = 0
    /\ \E r \in outbox[c] :
          /\ half' = [half EXCEPT ![c] = r]
          /\ taken' = IF link[c] = "up" THEN taken \cup {r} ELSE taken
          /\ orphaned' = IF link[c] = "up" THEN orphaned ELSE orphaned \cup {r}
    /\ UNCHANGED <<socketVars, outbox, link, transit, serverVars, handled, lost>>

PullBody(c) ==
    /\ link[c] \in {"up", "dead"} /\ half[c] # 0
    /\ half' = [half EXCEPT ![c] = 0]
    /\ outbox' = [outbox EXCEPT ![c] = @ \ {half[c]}]
    /\ transit' = IF link[c] = "up" THEN transit \cup {half[c]} ELSE transit
    /\ lost' = IF link[c] = "up" THEN lost ELSE lost \cup {half[c]}
    /\ UNCHANGED <<socketVars, link, serverVars, handled, taken, orphaned>>

\* Mutant: the session does not start to connect again.
EngineErrorGivesUp(c) ==
    /\ link[c] = "dead"
    /\ link' = [link EXCEPT ![c] = "given up"]
    /\ half' = [half EXCEPT ![c] = 0]
    /\ outbox' = [outbox EXCEPT ![c] = @ \ {half[c]}]
    /\ lost' = IF half[c] = 0 THEN lost ELSE lost \cup {half[c]}
    /\ UNCHANGED <<socketVars, transit, serverVars, handled, taken, orphaned>>

(* engine_error: clean_pipes pulls and discards the rest of a request that *)
(* was begun; reconnect.  A request not begun stays for the next engine.   *)
EngineError(c) ==
    /\ link[c] = "dead"
    /\ link' = [link EXCEPT ![c] = "none"]
    /\ half' = [half EXCEPT ![c] = 0]
    /\ outbox' = [outbox EXCEPT ![c] = @ \ {half[c]}]
    /\ lost' = IF half[c] = 0 THEN lost ELSE lost \cup {half[c]}
    /\ UNCHANGED <<socketVars, transit, serverVars, handled, taken, orphaned>>

\* The server's session pushes a request that arrived into its socket's pipe.
Deliver ==
    /\ up
    /\ \E r \in transit :
          /\ transit' = transit \ {r}
          /\ inbox' = inbox \cup {r}
    /\ UNCHANGED <<socketVars, sessionVars, up, sendingReply, throttled, historyVars>>

-----------------------------------------------------------------------------
(* The server.                                                             *)

\* init: a fresh REP socket; lastSent is 0 and so is the elapsed time.
ServerStart ==
    /\ ~up
    /\ up' = TRUE
    /\ sendingReply' = FALSE
    /\ throttled' = TRUE
    /\ UNCHANGED <<socketVars, sessionVars, transit, inbox, historyVars>>

\* The process ends, and with it its connections and its socket's pipes.
ServerStop ==
    /\ up
    /\ up' = FALSE
    /\ lost' = lost \cup inbox \cup transit
    /\ inbox' = {}
    /\ transit' = {}
    /\ link' = [c \in Clients |-> IF link[c] = "up" THEN "dead" ELSE link[c]]
    /\ orphaned' = orphaned \cup taken
    /\ taken' = {}
    /\ UNCHANGED <<socketVars, outbox, half, sendingReply, throttled, handled>>

\* timeInterval has passed since lastSent.
IntervalPasses ==
    /\ up /\ throttled
    /\ throttled' = FALSE
    /\ UNCHANGED <<socketVars, sessionVars, transit, up, inbox, sendingReply, historyVars>>

(* update: throttled, it returns; a REP socket that owes a reply (EFSM) or *)
(* has nothing to read (EAGAIN) makes it return as well.  A request that   *)
(* is read is logged; the handler is not called and no reply is sent.      *)
Update ==
    /\ up
    /\ ~throttled
    /\ ~sendingReply
    /\ \E r \in inbox :
          /\ inbox' = inbox \ {r}
          /\ handled' = handled \cup {r}
    /\ sendingReply' = TRUE
    /\ throttled' = TRUE
    /\ UNCHANGED <<socketVars, sessionVars, transit, up, lost, taken, orphaned>>

Next ==
    \/ \E c \in Clients :
          \/ Connect(c) \/ Close(c) \/ Closed(c) \/ Send(c)
          \/ Attach(c) \/ PullBottom(c) \/ PullBody(c) \/ EngineError(c)
    \/ Deliver
    \/ ServerStart
    \/ ServerStop
    \/ IntervalPasses
    \/ Update

Spec == Init /\ [][Next]_vars

(* libzmq's threads run: they connect again while there is a server to     *)
(* connect to, pull, notice a broken connection and deliver.               *)
(* zmq_ctx_destroy returns when it can, time passes and the server's       *)
(* frames keep coming.  Users and servers' lives are free.                 *)
Fairness ==
    /\ \A c \in Clients : /\ WF_vars(Attach(c))
                          /\ WF_vars(PullBottom(c) \/ PullBody(c))
                          /\ WF_vars(EngineError(c))
                          /\ WF_vars(Closed(c))
    /\ WF_vars(Deliver)
    /\ WF_vars(IntervalPasses)
    /\ WF_vars(Update)

FairSpec == Spec /\ Fairness

-----------------------------------------------------------------------------
FlagsOK ==
    /\ open \in [Clients -> BOOLEAN]
    /\ receiving \in [Clients -> BOOLEAN]
    /\ up \in BOOLEAN
    /\ sendingReply \in BOOLEAN
    /\ throttled \in BOOLEAN

RangesOK ==
    /\ outbox \in [Clients -> SUBSET (1 .. last)]
    /\ link \in [Clients -> {"none", "up", "dead"}]
    /\ half \in [Clients -> 0 .. last]
    /\ waiting \in [Clients -> {"no", "close", "connect"}]
    /\ connections \in [Clients -> Nat]
    /\ asked \in [Clients -> Nat]
    /\ last \in 0 .. MaxRequests
    /\ transit \cup inbox \cup handled \cup lost \cup taken \cup orphaned \subseteq 1 .. last

(* Types, and the bound of the client's list of log lines (Logs::log drops *)
(* the oldest line of a full list).                                        *)
TypeOK ==
    /\ FlagsOK
    /\ RangesOK
    /\ \A c \in Clients : Len(logs[c]) <= NumberOfMessages

\* Where request r is.
inOutbox(r) == \E c \in Clients : r \in outbox[c]

\* It is in exactly one place between the client and a server.
Accounted ==
    /\ \A r \in 1 .. last :
          /\ inOutbox(r) \/ r \in transit \/ r \in inbox \/ r \in handled \/ r \in lost
          /\ inOutbox(r) => r \notin transit \cup inbox \cup handled \cup lost
          /\ r \in transit => r \notin inbox \cup handled \cup lost
          /\ r \in inbox => r \notin handled \cup lost
          /\ r \in handled => r \notin lost
    /\ \A c, d \in Clients : c # d => outbox[c] \cap outbox[d] = {}

\* No connection begins in the middle of a request.
BegunOnThisLink == \A c \in Clients : half[c] # 0 => half[c] \in outbox[c] /\ link[c] # "none"

(* A request whose send succeeded is lost only with the server it was      *)
(* pulled for: it is never dropped while it waits in the client's pipe,    *)
(* whatever is closed, reconnected, broken or restarted in between, never  *)
(* sent twice, and never continued on another connection (close waits for  *)
(* the pipe to empty; clean_pipes discards what was begun and no more).    *)
RequestsConserved == Accounted /\ BegunOnThisLink /\ lost \subseteq orphaned

(* A connection carries one request, ever: no reply reaches the client, so *)
(* its REQ socket refuses every further send until the user reconnects.    *)
OneRequestPerConnection == \A c \in Clients : asked[c] <= connections[c]

(* The newest line of the client's log tells the state of its connection   *)
(* after every operation: what was sent is awaiting its reply, a refused   *)
(* send met a waiting socket, and a closed or closing connection says so.  *)
LogTellsState ==
    \A c \in Clients : logs[c] # <<>> =>
        LET line == logs[c][Len(logs[c])]
        IN  /\ line \in {"Sent", "Sent -1"} => open[c] /\ receiving[c]
            /\ line = "Connected" => open[c] /\ ~receiving[c]
            /\ line = "Closing" => ~open[c] \/ waiting[c] # "no"

(* Closing ends: a client that waits in zmq_ctx_destroy gets its user      *)
(* interface back, with a server or without - unless its request stays in  *)
(* the pipe for ever because servers are away again and again (IPC.h       *)
(* close, connect; the default linger).                                    *)
CloseEnds ==
    \A c \in Clients :
        [](waiting[c] # "no" =>
              <>(waiting[c] = "no") \/ ([]<>~up /\ <>[](outbox[c] # {})))

(* ComProtocol.h:26 says of update that it "Handles currently incoming     *)
(* messages": with a server that stays, a request that reached it is read. *)
EveryRequestRead ==
    <>[]up => \A r \in 1 .. MaxRequests : r \in inbox ~> r \in handled \cup lost
=============================================================================
