------------------------------- MODULE TcpServer -------------------------------
(***************************************************************************)
(* The server's JSON-over-TCP channel: Apps/Server/Protocols/TCP.h on the  *)
(* main thread, polled once per frame, and the accepting thread of         *)
(* ofxTCPServer with the connections' buffers of ofxTCPClient under it.    *)
(*                                                                         *)
(* The two threads share the table of connections (slots), one lock per    *)
(* call: every access below is one step, and the main thread holds nothing *)
(* from one call to the next.  A request is the n-th line its sender wrote;*)
(* all that matters of it here is what the handler makes of it (kind):     *)
(*   "object"     answered,                                                *)
(*   "malformed"  not JSON, no action, data of the wrong type: answered    *)
(*                with the text of the exception,                          *)
(*   "array"      JSON but not an object: skipped without an answer,       *)
(*   "fatal"      ends the process: an unknown action (a thrown pointer no *)
(*                clause catches) or a layer or clip that is not there.    *)
(***************************************************************************)
EXTENDS Integers, Sequences

CONSTANTS
    Conns,          \* connections that peers may make
    NoConn,         \* no connection
    MaxClients,     \* TCP_MAX_CLIENTS
    Kinds,          \* the kinds of request each peer sends
    Patient,        \* connections whose peer waits for each answer before it asks again
    Slow,           \* connections that may have no room for a whole answer
    MaxRequests,    \* bound: requests of a peer
    Loads           \* bound: the peers that may come together, with their requests

ASSUME ServerAssumption ==
    /\ NoConn \notin Conns
    /\ MaxClients \in Nat \ {0}
    /\ Kinds \in [Conns -> SUBSET {"object", "malformed", "array", "fatal"}]
    /\ Patient \subseteq Conns
    /\ Slow \subseteq Conns
    /\ MaxRequests \in Nat
    /\ \A l \in Loads : DOMAIN l \subseteq Conns /\ \A c \in DOMAIN l : l[c] \in 0 .. MaxRequests

VARIABLES
    load,        \* the peers that come, and how much each will ask; it never changes
    peer,        \* the other end: "new", "open" or "closed"
    sent,        \* how many requests the peer wrote
    wire,        \* its requests in the socket's receive buffer
    tmpStr,      \* complete requests in ofxTCPClient::tmpStr
    delimited,   \* the connection was given the server's delimiter
    accepted,    \* connections the server has taken
    slots,       \* ofxTCPServer::TCPConnections
    idCount,     \* ofxTCPServer::idCount
    apc,         \* the accepting thread: "scan", "accept", "leaving" or "ended"
    acceptId,    \* its slot
    pc,          \* the main thread: "init", "idle", "check", "receive", "reply"
    i,           \* TCPProtocol::update's loop counter
    held,        \* the request update is working on
    throttled,   \* less than timeInterval since lastSent
    replies,     \* what each peer was sent: the requests answered, in order
    cut,         \* the last thing a peer was sent is the beginning of an answer
    alive        \* the process runs

peerVars == <<load, peer, sent>>
bufferVars == <<wire, tmpStr>>
acceptVars == <<delimited, accepted, idCount, apc, acceptId>>
mainVars == <<pc, i, held, throttled, replies, cut, alive>>
vars == <<peerVars, bufferVars, acceptVars, slots, mainVars>>

Slot == 0 .. MaxClients - 1
Request == [from : Conns, n : Nat, kind : {"object", "malformed", "array", "fatal"}]
NoRequest == [from |-> NoConn]

Init ==
    /\ load \in Loads
    /\ peer = [c \in Conns |-> "new"]
    /\ sent = [c \in Conns |-> 0]
    /\ wire = [c \in Conns |-> <<>>]
    /\ tmpStr = [c \in Conns |-> <<>>]
    /\ delimited = [c \in Conns |-> FALSE]
    /\ accepted = {}
    /\ slots = [s \in Slot |-> NoConn]
    /\ idCount = 0
    /\ apc = "scan"
    /\ acceptId = 0
    /\ pc = "init"
    /\ i = 0
    /\ held = NoRequest
    /\ throttled = TRUE
    /\ replies = [c \in Conns |-> <<>>]
    /\ cut = [c \in Conns |-> FALSE]
    /\ alive = TRUE

-----------------------------------------------------------------------------
(* The peers.                                                              *)

PeerConnects(c) ==
    /\ peer[c] = "new"
    /\ c \in DOMAIN load
    /\ peer' = [peer EXCEPT ![c] = "open"]
    /\ UNCHANGED <<load, sent, bufferVars, acceptVars, slots, mainVars>>

PeerSends(c, k) ==
    /\ peer[c] = "open"
    /\ sent[c] < load[c]
    /\ c \in Patient => Len(replies[c]) = sent[c]
    /\ sent' = [sent EXCEPT ![c] = @ + 1]
    /\ wire' = [wire EXCEPT ![c] = Append(@, [from |-> c, n |-> sent[c] + 1, kind |-> k])]
    /\ UNCHANGED <<load, peer, tmpStr, acceptVars, slots, mainVars>>

PeerCloses(c) ==
    /\ peer[c] = "open"
    /\ peer' = [peer EXCEPT ![c] = "closed"]
    /\ UNCHANGED <<load, sent, bufferVars, acceptVars, slots, mainVars>>

-----------------------------------------------------------------------------
(* CheckIsConnected peeks: a closed peer shows as such once all it wrote   *)
(* has been read from the socket.                                          *)

isConnected(c) == peer[c] = "open" \/ wire[c] # <<>>

isClientConnected(s) == slots[s] # NoConn /\ isConnected(slots[s])

(* The accepting thread looks for the first slot without a live client,    *)
(* one locked look at a time.  If all are taken it leaves its loop, and    *)
(* what follows the loop drops every connection: first the count, without  *)
(* the lock, then the table.                                               *)
ScanSlot ==
    /\ apc = "scan"
    /\ IF acceptId < MaxClients /\ acceptId <= idCount /\ isClientConnected(acceptId)
       THEN /\ acceptId' = acceptId + 1
            /\ UNCHANGED <<apc, idCount, slots>>
       ELSE IF acceptId = MaxClients
       THEN /\ apc' = "leaving"
            /\ idCount' = 0
            /\ UNCHANGED <<acceptId, slots>>
       ELSE /\ apc' = "accept"
            /\ UNCHANGED <<acceptId, idCount, slots>>
    /\ UNCHANGED <<peerVars, bufferVars, delimited, accepted, mainVars>>

DropClients ==
    /\ apc = "leaving"
    /\ apc' = "ended"
    /\ slots' = [s \in Slot |-> NoConn]
    /\ UNCHANGED <<acceptId, idCount, peerVars, bufferVars, delimited, accepted, mainVars>>

(* Accept returns a connection: it replaces what the slot held and takes   *)
(* the delimiter the server has at this moment.                            *)

\* Mutant: the count of slots in use is forgotten.
AcceptUncounted(c) ==
    /\ apc = "accept"
    /\ peer[c] # "new" /\ c \notin accepted
    /\ accepted' = accepted \cup {c}
    /\ slots' = [slots EXCEPT ![acceptId] = c]
    /\ delimited' = [delimited EXCEPT ![c] = pc # "init"]
    /\ apc' = "scan"
    /\ acceptId' = 0
    /\ UNCHANGED <<idCount, peerVars, bufferVars, mainVars>>

\* Mutant: the new client goes into the first slot, not the free one.
AcceptFirst(c) ==
    /\ apc = "accept"
    /\ peer[c] # "new" /\ c \notin accepted
    /\ accepted' = accepted \cup {c}
    /\ slots' = [slots EXCEPT ![0] = c]
    /\ delimited' = [delimited EXCEPT ![c] = pc # "init"]
    /\ idCount' = IF acceptId = idCount THEN idCount + 1 ELSE idCount
    /\ apc' = "scan"
    /\ acceptId' = 0
    /\ UNCHANGED <<peerVars, bufferVars, mainVars>>

Accept(c) ==
    /\ apc = "accept"
    /\ peer[c] # "new" /\ c \notin accepted
    /\ accepted' = accepted \cup {c}
    /\ slots' = [slots EXCEPT ![acceptId] = c]
    /\ delimited' = [delimited EXCEPT ![c] = pc # "init"]
    /\ idCount' = IF acceptId = idCount THEN idCount + 1 ELSE idCount
    /\ apc' = "scan"
    /\ acceptId' = 0
    /\ UNCHANGED <<peerVars, bufferVars, mainVars>>

-----------------------------------------------------------------------------
(* The main thread.                                                        *)

\* init: setup returns when the thread listens; then the delimiter is set.
SetDelimiter ==
    /\ pc = "init"
    /\ apc # "scan" \/ accepted # {}
    /\ pc' = "idle"
    /\ UNCHANGED <<peerVars, bufferVars, acceptVars, slots, i, held, throttled, replies, cut, alive>>

IntervalPasses ==
    /\ throttled /\ pc = "idle"
    /\ throttled' = FALSE
    /\ UNCHANGED <<peerVars, bufferVars, acceptVars, slots, pc, i, held, replies, cut, alive>>

Update ==
    /\ pc = "idle"
    /\ ~throttled
    /\ pc' = "check"
    /\ i' = 0
    /\ UNCHANGED <<peerVars, bufferVars, acceptVars, slots, held, throttled, replies, cut,
                   alive>>

\* The loop's test, and isClientConnected.
Check ==
    /\ pc = "check"
    /\ IF i >= idCount
       THEN pc' = "idle" /\ throttled' = TRUE /\ UNCHANGED i
       ELSE IF isClientConnected(i)
       THEN pc' = "receive" /\ UNCHANGED <<i, throttled>>
       ELSE i' = i + 1 /\ UNCHANGED <<pc, throttled>>
    /\ UNCHANGED <<peerVars, bufferVars, acceptVars, slots, held, replies, cut, alive>>

nextSlot == pc' = "check" /\ i' = i + 1 /\ held' = NoRequest

(* receive: nothing is returned unless the socket has unread bytes, even   *)
(* when tmpStr holds a complete request.  Otherwise the socket is read if  *)
(* tmpStr holds none - as much of it as the buffer takes - and the first   *)
(* line of tmpStr is the result.  A connection that was taken before the   *)
(* delimiter was set never finds the end of a line.  (For a slot that the  *)
(* accepting thread cleared, receive makes up a text, whose answer has     *)
(* nobody to go to.)                                                       *)

ReceiveGone ==
    /\ ~isClientConnected(i)
    /\ slots' = [slots EXCEPT ![i] = NoConn]
    /\ nextSlot
    /\ UNCHANGED bufferVars

ReceiveNothing ==
    /\ isClientConnected(i)
    /\ wire[slots[i]] = <<>>
    /\ nextSlot
    /\ UNCHANGED <<slots, bufferVars>>

ReceiveUndelimited ==
    /\ isClientConnected(i)
    /\ wire[slots[i]] # <<>>
    /\ ~delimited[slots[i]]
    /\ wire' = [wire EXCEPT ![slots[i]] = <<>>]
    /\ nextSlot
    /\ UNCHANGED <<slots, tmpStr>>

ReceiveBuffered ==
    /\ isClientConnected(i)
    /\ wire[slots[i]] # <<>>
    /\ tmpStr[slots[i]] # <<>>
    /\ held' = Head(tmpStr[slots[i]])
    /\ tmpStr' = [tmpStr EXCEPT ![slots[i]] = Tail(@)]
    /\ pc' = "reply"
    /\ UNCHANGED <<slots, wire, i>>

\* Mutant: the newest line is taken first.
ReceiveFreshLast ==
    LET c == slots[i]
    IN  /\ isClientConnected(i)
        /\ wire[c] # <<>>
        /\ delimited[c]
        /\ tmpStr[c] = <<>>
        /\ held' = wire[c][Len(wire[c])]
        /\ wire' = [wire EXCEPT ![c] = SubSeq(@, 1, Len(@) - 1)]
        /\ pc' = "reply"
        /\ UNCHANGED <<slots, tmpStr, i>>

ReceiveFresh ==
    LET c == slots[i]
    IN  /\ isClientConnected(i)
        /\ wire[c] # <<>>
        /\ delimited[c]
        /\ tmpStr[c] = <<>>
        /\ \E n \in 1 .. Len(wire[c]) :
              /\ tmpStr' = [tmpStr EXCEPT ![c] = SubSeq(wire[c], 2, n)]
              /\ wire' = [wire EXCEPT ![c] = SubSeq(@, n + 1, Len(@))]
        /\ held' = Head(wire[c])
        /\ pc' = "reply"
        /\ UNCHANGED <<slots, i>>

Receive ==
    /\ pc = "receive"
    /\ \/ ReceiveGone
       \/ ReceiveNothing
       \/ ReceiveUndelimited
       \/ ReceiveBuffered
       \/ ReceiveFresh
    /\ UNCHANGED <<peerVars, acceptVars, throttled, replies, cut, alive>>

(* send(i): to whoever has the slot by now.  The answer goes out behind    *)
(* what there is of an earlier one: after the beginning of one it only     *)
(* ends a line that means nothing.  A socket without room takes nothing or *)
(* the beginning, SendAll fails, and no one sends the rest: only a short   *)
(* count, which SendAll never returns, is kept for later.  A peer that     *)
(* left gets nothing and its slot is emptied.                              *)
sendWhole(d, r) ==
    /\ replies' = IF cut[d] THEN replies ELSE [replies EXCEPT ![d] = Append(@, r)]
    /\ cut' = [cut EXCEPT ![d] = FALSE]

sendFails(d) ==
    /\ d \in Slow
    /\ cut' \in {cut, [cut EXCEPT ![d] = TRUE]}
    /\ UNCHANGED replies

send(r) ==
    LET d == slots[i]
    IN  \/ /\ d = NoConn
           /\ UNCHANGED <<slots, replies, cut>>
        \/ /\ d # NoConn /\ peer[d] = "open"
           /\ sendWhole(d, r) \/ sendFails(d)
           /\ UNCHANGED slots
        \/ /\ d # NoConn /\ peer[d] # "open"
           /\ slots' = IF isConnected(d) THEN slots ELSE [slots EXCEPT ![i] = NoConn]
           /\ UNCHANGED <<replies, cut>>

\* The handler, its exceptions, and the answer.

\* Mutant: the catch clause lets the exception of a malformed request through.
ReplyUncaught ==
    /\ pc = "reply"
    /\ \/ /\ held.kind = "object"
          /\ send(held)
          /\ nextSlot
          /\ UNCHANGED alive
       \/ /\ held.kind = "array"
          /\ nextSlot
          /\ UNCHANGED <<slots, replies, cut, alive>>
       \/ /\ held.kind \in {"malformed", "fatal"}
          /\ nextSlot
          /\ UNCHANGED <<slots, replies, cut, alive>>
    /\ UNCHANGED <<peerVars, bufferVars, acceptVars, throttled>>

\* Mutant: the answer goes to every client.
ReplyToAll ==
    /\ pc = "reply"
    /\ nextSlot
    /\ replies' = [c \in Conns |-> IF peer[c] = "open" THEN Append(replies[c], held)
                                                       ELSE replies[c]]
    /\ UNCHANGED <<slots, cut, alive, peerVars, bufferVars, acceptVars, throttled>>

Reply ==
    /\ pc = "reply"
    /\ \/ /\ held.kind \in {"object", "malformed"}
          /\ send(held)
          /\ nextSlot
          /\ UNCHANGED alive
       \/ /\ held.kind = "array"
          /\ nextSlot
          /\ UNCHANGED <<slots, replies, cut, alive>>
       \/ /\ held.kind = "fatal"
          /\ alive' = FALSE
          /\ UNCHANGED <<pc, i, held, slots, replies, cut>>
    /\ UNCHANGED <<peerVars, bufferVars, acceptVars, throttled>>

-----------------------------------------------------------------------------
Next ==
    /\ alive
    /\ \/ \E c \in Conns : \/ PeerConnects(c)
                           \/ PeerCloses(c)
                           \/ Accept(c)
                           \/ \E k \in Kinds[c] : PeerSends(c, k)
       \/ ScanSlot
       \/ DropClients
       \/ SetDelimiter
       \/ IntervalPasses
       \/ Update
       \/ Check
       \/ Receive
       \/ Reply

Spec == Init /\ [][Next]_vars

(* The two threads run, time passes and the frames keep coming; the peers  *)
(* do as they like.                                                        *)
Fairness ==
    /\ \A c \in Conns : WF_vars(alive /\ Accept(c))
    /\ WF_vars(alive /\ (ScanSlot \/ DropClients))
    /\ WF_vars(alive /\ (SetDelimiter \/ IntervalPasses \/ Update \/ Check \/ Receive \/ Reply))

FairSpec == Spec /\ Fairness

-----------------------------------------------------------------------------
FlagsOK ==
    /\ delimited \in [Conns -> BOOLEAN]
    /\ cut \in [Conns -> BOOLEAN]
    /\ throttled \in BOOLEAN
    /\ alive \in BOOLEAN

TableOK ==
    /\ peer \in [Conns -> {"new", "open", "closed"}]
    /\ accepted \subseteq Conns
    /\ slots \in [Slot -> Conns \cup {NoConn}]
    /\ idCount \in 0 .. MaxClients
    /\ apc \in {"scan", "accept", "leaving", "ended"}
    /\ acceptId \in 0 .. MaxClients
    /\ pc \in {"init", "idle", "check", "receive", "reply"}
    /\ i \in 0 .. MaxClients

BuffersOK ==
    /\ sent \in [Conns -> Nat]
    /\ wire \in [Conns -> Seq(Request)]
    /\ tmpStr \in [Conns -> Seq(Request)]
    /\ held \in Request \cup {NoRequest}
    /\ replies \in [Conns -> Seq(Request)]

\* Types: the count and the indices of the table stay within the limit.
TypeOK == FlagsOK /\ TableOK /\ BuffersOK

(* update visits every client: a slot that is in use lies below idCount,   *)
(* the end of update's loop, whatever order clients come, go and are       *)
(* replaced in, until the server gives its clients up.                     *)
EveryClientVisited == apc # "leaving" => \A s \in Slot : slots[s] # NoConn => s < idCount

(* The slot that the accepting thread chose before it blocked in accept is *)
(* still free when a client arrives: no live client is replaced, though    *)
(* nothing is locked in between.                                           *)
AcceptKeepsClients ==
    [][\A s \in Slot : /\ slots[s] # NoConn /\ peer[slots[s]] = "open"
                       /\ apc' # "ended"
                       => slots'[s] = slots[s]]_vars

(* A peer only ever gets an answer to another peer's request when that one *)
(* has closed its connection: the slot may change hands between receive    *)
(* and send, but not under a live client.                                  *)
StrayOnlyFromClosed ==
    \A c \in Conns : \A k \in 1 .. Len(replies[c]) :
        replies[c][k].from # c => peer[replies[c][k].from] = "closed"

(* No request is answered twice, and a peer's own requests are answered in *)
(* the order it wrote them, through the socket's buffer and tmpStr.        *)
AnsweredOnceInOrder ==
    \A c, d \in Conns : \A j \in 1 .. Len(replies[c]), k \in 1 .. Len(replies[d]) :
        /\ replies[c][j] = replies[d][k] => c = d /\ j = k
        /\ c = d /\ j < k /\ replies[c][j].from = replies[c][k].from
              => replies[c][j].n < replies[c][k].n

answered(c, n) == \E k \in 1 .. Len(replies[c]) : replies[c][k].from = c /\ replies[c][k].n = n

\* The peer was sent the answer to someone else's request.
misled(c) == \E k \in 1 .. Len(replies[c]) : replies[c][k].from # c

\* The n-th request of a peer is on its way, and is one that is answered.
asks(c, n) ==
    \E k \in 1 .. Len(wire[c]) : wire[c][k].n = n /\ wire[c][k].kind \in {"object", "malformed"}

\* The handler threw what update does not catch (Messages.cpp:49).
killed == ~alive /\ held.kind = "fatal"

(* A peer that waits for each answer before it asks again gets every one   *)
(* of them, errors included, whatever other peers do, as long as it stays, *)
(* takes what it is sent, was accepted after the delimiter was set, was    *)
(* not misled by a stray answer into asking too early, and the server has  *)
(* not hit its limit of clients or met an action it does not know.         *)
PatientPeerAnswered ==
    \A c \in Patient \ Slow : \A n \in 1 .. MaxRequests :
        asks(c, n) ~> \/ answered(c, n)
                      \/ peer[c] = "closed"
                      \/ c \in accepted /\ ~delimited[c]
                      \/ misled(c)
                      \/ apc \in {"leaving", "ended"}
                      \/ killed

(* ComProtocol.h:26 says of update that it "Handles currently incoming     *)
(* messages", and the comments in ofxTCPClient::receive that a complete    *)
(* message already in the buffer is processed: a request of a peer that    *)
(* stays is answered, also when it was written together with others.       *)
RequestsAnswered ==
    \A c \in Conns : \A n \in 1 .. MaxRequests :
        sent[c] >= n ~> answered(c, n) \/ peer[c] = "closed" \/ (c \in accepted /\ ~delimited[c])

(* Messages.hpp:17 says that the handler "Replies to the user": a reply    *)
(* reaches no one but the peer that asked.                                 *)
ReplyReachesAsker ==
    \A c \in Conns : \A k \in 1 .. Len(replies[c]) : replies[c][k].from = c

(* At the limit ofxTCPServer logs "no longer accepting connections" - the  *)
(* clients it has are kept.                                                *)
LimitKeepsClients ==
    [][\A s \in Slot : slots[s] # NoConn /\ peer[slots[s]] = "open"
                          => slots'[s] = slots[s]]_vars

(* TCP.h:60 turns what the handler throws, "Action not supported" among    *)
(* it (Messages.cpp:49), into an answer: no request ends the server.       *)
ServerSurvives == alive
=============================================================================
