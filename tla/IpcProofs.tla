------------------------------- MODULE IpcProofs -------------------------------
(***************************************************************************)
(* The IPC channel for any number of clients, connections, requests and    *)
(* log lines.  Besides the types the invariant says that a socket that may *)
(* send has sent less than there were connections, and that a client that  *)
(* waits in zmq_ctx_destroy has its socket and has logged that it closes;  *)
(* and that what is on the wire, in the server's pipe or half pulled was   *)
(* pulled for the server that runs or, on a dead link, for one that has    *)
(* stopped.                                                                *)
(***************************************************************************)
EXTENDS Ipc, SequenceTheorems, TLAPS

newest(l) == l[Len(l)]

\* A list that Logs may hold, and one whose newest line is the one given.
Bounded(l) == l \in Seq(Line) /\ Len(l) <= NumberOfMessages
EndsIn(l, line) == Bounded(l) /\ l # <<>> /\ newest(l) = line

LogsOK ==
    /\ logs \in [Clients -> Seq(Line)]
    /\ \A c \in Clients : Len(logs[c]) <= NumberOfMessages

Turns ==
    /\ \A c \in Clients : asked[c] <= connections[c]
    /\ \A c \in Clients : open[c] /\ ~receiving[c] => asked[c] < connections[c]

Closing ==
    \A c \in Clients : waiting[c] # "no" =>
        open[c] /\ logs[c] # <<>> /\ newest(logs[c]) = "Closing"

Carried ==
    /\ transit \cup inbox \subseteq taken
    /\ \A c \in Clients : half[c] # 0 /\ link[c] = "up" => half[c] \in taken
    /\ \A c \in Clients : half[c] # 0 /\ link[c] = "dead" => half[c] \in orphaned

Inv ==
    /\ FlagsOK
    /\ RangesOK
    /\ LogsOK
    /\ Turns
    /\ Closing
    /\ LogTellsState
    /\ Carried
    /\ RequestsConserved

-----------------------------------------------------------------------------
\* What the client writes to its log.
LEMMA LinesOK ==
    /\ "Connecting" \in Line /\ "Connected" \in Line /\ "Closing" \in Line
    /\ "Attempt" \in Line /\ "Sent" \in Line /\ "Sent -1" \in Line
  BY DEF Line

\* Logs::log keeps its bound, and the line it was given is the newest.
LEMMA LogLine ==
    ASSUME NEW l \in Seq(Line), Len(l) <= NumberOfMessages, NEW line \in Line
    PROVE  /\ log(l, line) \in Seq(Line)
           /\ Len(log(l, line)) <= NumberOfMessages
           /\ log(l, line) # <<>>
           /\ newest(log(l, line)) = line
  <1>. DEFINE longer == Append(l, line)
  <1>1. /\ longer \in Seq(Line)
        /\ longer # <<>>
        /\ Len(longer) = Len(l) + 1
        /\ longer[Len(longer)] = line
    BY AppendProperties
  <1>2. CASE Len(l) >= NumberOfMessages
    <2>1. /\ Tail(longer) \in Seq(Line)
          /\ Len(Tail(longer)) = Len(l)
          /\ \A k \in 1 .. Len(Tail(longer)) : Tail(longer)[k] = longer[k + 1]
      BY <1>1, HeadTailProperties
    <2>2. Len(l) \in Nat \ {0}
      BY <1>2, BoundsAssumption
    <2>3. Tail(longer)[Len(l)] = line
      BY <1>1, <2>1, <2>2
    <2>4. Tail(longer) # <<>>
      BY <2>1, <2>2
    <2>. QED BY <1>2, <2>1, <2>3, <2>4 DEF log, newest
  <1>3. CASE ~(Len(l) >= NumberOfMessages)
    BY <1>1, <1>3, BoundsAssumption DEF log, newest
  <1>. QED BY <1>2, <1>3

\* The calls of the client: one line, or two in a row.
LEMMA Logged ==
    ASSUME NEW l, Bounded(l)
    PROVE  /\ EndsIn(log(l, "Closing"), "Closing")
           /\ EndsIn(log(log(l, "Connecting"), "Connected"), "Connected")
           /\ EndsIn(log(log(l, "Attempt"), "Sent -1"), "Sent -1")
           /\ EndsIn(log(log(l, "Attempt"), "Sent"), "Sent")
  <1>1. \A m : Bounded(m) => \A line \in Line : EndsIn(log(m, line), line)
    BY LogLine DEF Bounded, EndsIn
  <1>2. \A m, line : EndsIn(m, line) => Bounded(m)
    BY DEF EndsIn
  <1>. QED BY <1>1, <1>2, LinesOK, Zenon

(* A call of client c whose last line tells the state that c is in then.   *)
LEMMA LogStep ==
    ASSUME Inv, NEW c \in Clients, NEW l \in Seq(Line), NEW line \in Line,
           Len(l) <= NumberOfMessages, l # <<>>, newest(l) = line,
           logs' = [logs EXCEPT ![c] = l],
           \A d \in Clients \ {c} : /\ open'[d] = open[d]
                                    /\ receiving'[d] = receiving[d]
                                    /\ waiting'[d] = waiting[d],
           line \in {"Sent", "Sent -1"} => open'[c] /\ receiving'[c],
           line = "Connected" => open'[c] /\ ~receiving'[c],
           line = "Closing" => ~open'[c] \/ waiting'[c] # "no",
           waiting'[c] # "no" => open'[c] /\ line = "Closing"
    PROVE  LogsOK' /\ Closing' /\ LogTellsState'
  <1>1. logs'[c] = l /\ \A d \in Clients \ {c} : logs'[d] = logs[d]
    BY DEF Inv, LogsOK
  <1>2. LogsOK'
    BY <1>1 DEF Inv, LogsOK
  <1>3. Closing'
    BY <1>1 DEF Inv, Closing
  <1>4. LogTellsState'
    <2>. DEFINE tells(d) ==
             logs[d] # <<>> =>
                 /\ newest(logs[d]) \in {"Sent", "Sent -1"} => open[d] /\ receiving[d]
                 /\ newest(logs[d]) = "Connected" => open[d] /\ ~receiving[d]
                 /\ newest(logs[d]) = "Closing" => ~open[d] \/ waiting[d] # "no"
    <2>1. \A d \in Clients : tells(d)
      BY DEF Inv, LogTellsState, newest
    <2>2. \A d \in Clients \ {c} : tells(d)'
      <3>. SUFFICES ASSUME NEW d \in Clients \ {c} PROVE tells(d)'
        OBVIOUS
      <3>1. /\ logs'[d] = logs[d] /\ open'[d] = open[d]
            /\ receiving'[d] = receiving[d] /\ waiting'[d] = waiting[d]
        BY <1>1
      <3>. QED BY <2>1, <3>1 DEF newest
    <2>3. tells(c)'
      BY <1>1 DEF newest
    <2>. QED BY <2>2, <2>3 DEF LogTellsState, newest
  <1>. QED BY <1>2, <1>3, <1>4

\* Nothing is open, asked or logged at the start.
LEMMA InitInv == Init => Inv
  <1>. SUFFICES ASSUME Init PROVE Inv
    OBVIOUS
  <1>1. FlagsOK
    BY DEF Init, FlagsOK
  <1>2. RangesOK /\ Turns /\ Carried /\ RequestsConserved
    BY BoundsAssumption
    DEF Init, RangesOK, Turns, Carried, RequestsConserved, Accounted, BegunOnThisLink, inOutbox
  <1>3. LogsOK /\ Closing /\ LogTellsState
    BY BoundsAssumption DEF Init, LogsOK, Closing, LogTellsState
  <1>. QED BY <1>1, <1>2, <1>3 DEF Inv

\* A step that moves no request.
LEMMA RequestsUnmoved ==
    ASSUME Inv,
           UNCHANGED <<outbox, link, half, transit, inbox, last>>,
           UNCHANGED <<handled, lost, taken, orphaned>>
    PROVE  Carried' /\ RequestsConserved'
  BY DEF Inv, Carried, RequestsConserved, Accounted, BegunOnThisLink, inOutbox

\* connect opens a socket, or starts to close the one there is.
LEMMA ConnectInv ==
    ASSUME Inv, NEW c \in Clients, Connect(c)
    PROVE  Inv'
  <1>1. FlagsOK'
    BY DEF Inv, Connect, newSocket, serverVars, FlagsOK
  <1>2. RangesOK'
    BY DEF Inv, Connect, newSocket, sessionVars, serverVars, historyVars, RangesOK
  <1>3. Turns'
    BY DEF Inv, Connect, newSocket, Turns, RangesOK, FlagsOK
  <1>4. LogsOK' /\ Closing' /\ LogTellsState'
    <2>1. Bounded(logs[c])
      BY DEF Inv, LogsOK, Bounded
    <2>2. CASE open[c]
      <3>. DEFINE l == log(logs[c], "Closing")
      <3>1. EndsIn(l, "Closing")
        BY <2>1, Logged
      <3>. HIDE DEF l
      <3>. QED BY <2>2, <3>1, LogStep
           DEF EndsIn, Bounded, Connect, Line, Inv, FlagsOK, RangesOK, l
    <2>3. CASE ~open[c]
      <3>. DEFINE l == log(log(logs[c], "Connecting"), "Connected")
      <3>1. EndsIn(l, "Connected")
        BY <2>1, Logged
      <3>. HIDE DEF l
      <3>. QED BY <2>3, <3>1, LogStep
           DEF EndsIn, Bounded, Connect, newSocket, Line, Inv, FlagsOK, RangesOK, l
    <2>. QED BY <2>2, <2>3
  <1>5. Carried' /\ RequestsConserved'
    BY RequestsUnmoved DEF Connect, sessionVars, serverVars, historyVars
  <1>. QED BY <1>1, <1>2, <1>3, <1>4, <1>5 DEF Inv

\* close starts to wait for the pipe.
LEMMA CloseInv ==
    ASSUME Inv, NEW c \in Clients, Close(c)
    PROVE  Inv'
  <1>1. FlagsOK'
    BY DEF Inv, Close, serverVars, FlagsOK
  <1>2. RangesOK'
    BY DEF Inv, Close, sessionVars, serverVars, historyVars, RangesOK
  <1>3. Turns'
    BY DEF Inv, Close, Turns
  <1>4. LogsOK' /\ Closing' /\ LogTellsState'
    <2>1. Bounded(logs[c])
      BY DEF Inv, LogsOK, Bounded
    <2>. DEFINE l == log(logs[c], "Closing")
    <2>2. EndsIn(l, "Closing")
      BY <2>1, Logged
    <2>. HIDE DEF l
    <2>. QED BY <2>2, LogStep
           DEF EndsIn, Bounded, Close, Line, Inv, RangesOK, l
  <1>5. Carried' /\ RequestsConserved'
    BY RequestsUnmoved DEF Close, sessionVars, serverVars, historyVars
  <1>. QED BY <1>1, <1>2, <1>3, <1>4, <1>5 DEF Inv

\* The wait is over: the socket is gone, or made anew.
LEMMA ClosedInv ==
    ASSUME Inv, NEW c \in Clients, Closed(c)
    PROVE  Inv'
  <1>1. FlagsOK'
    BY DEF Inv, Closed, newSocket, reopen, shut, serverVars, FlagsOK
  <1>2. RangesOK'
    BY DEF Inv, Closed, newSocket, reopen, shut, noSession, serverVars, historyVars, RangesOK
  <1>3. Turns'
    BY DEF Inv, Closed, newSocket, reopen, shut, Turns, RangesOK, FlagsOK
  <1>4. LogsOK' /\ Closing' /\ LogTellsState'
    <2>1. Bounded(logs[c])
      BY DEF Inv, LogsOK, Bounded
    <2>2. CASE waiting[c] = "connect"
      <3>. DEFINE l == log(log(logs[c], "Connecting"), "Connected")
      <3>1. EndsIn(l, "Connected")
        BY <2>1, Logged
      <3>. HIDE DEF l
      <3>. QED BY <2>2, <3>1, LogStep
           DEF EndsIn, Bounded, Closed, newSocket, reopen, Line, Inv, FlagsOK, RangesOK, l
    <2>3. CASE waiting[c] # "connect"
      <3>1. newest(logs[c]) = "Closing"
        BY DEF Closed, Inv, Closing
      <3>2. LogsOK' /\ Closing'
        BY <2>3 DEF Closed, shut, Inv, LogsOK, Closing, FlagsOK, RangesOK
      <3>3. LogTellsState'
        <4>1. /\ open' = [open EXCEPT ![c] = FALSE]
              /\ receiving' = [receiving EXCEPT ![c] = FALSE]
              /\ waiting' = [waiting EXCEPT ![c] = "no"]
              /\ logs' = logs
          BY <2>3 DEF Closed, shut
        <4>2. \A d \in Clients \ {c} : /\ open'[d] = open[d] /\ receiving'[d] = receiving[d]
                                       /\ waiting'[d] = waiting[d]
          BY <4>1 DEF Inv, FlagsOK, RangesOK
        <4>3. ~open'[c]
          BY <4>1 DEF Inv, FlagsOK
        <4>. QED BY <3>1, <4>1, <4>2, <4>3 DEF Inv, LogTellsState, newest
      <3>. QED BY <3>2, <3>3
    <2>. QED BY <2>2, <2>3
  <1>5. Carried' /\ BegunOnThisLink'
    BY DEF Inv, Closed, noSession, serverVars, historyVars, Carried, RequestsConserved,
           BegunOnThisLink, RangesOK
  <1>6. Accounted' /\ (lost \subseteq orphaned)'
    BY DEF Inv, Closed, serverVars, historyVars, RequestsConserved, Accounted, inOutbox
  <1>. QED BY <1>1, <1>2, <1>3, <1>4, <1>5, <1>6 DEF Inv, RequestsConserved

\* The REQ socket takes the one request of its connection, or refuses.
LEMMA SendInv ==
    ASSUME Inv, NEW c \in Clients, Send(c)
    PROVE  Inv'
  <1>1. FlagsOK'
    BY DEF Inv, Send, serverVars, FlagsOK
  <1>2. LogsOK' /\ Closing' /\ LogTellsState'
    <2>1. Bounded(logs[c])
      BY DEF Inv, LogsOK, Bounded
    <2>2. CASE receiving[c]
      <3>. DEFINE l == log(log(logs[c], "Attempt"), "Sent -1")
      <3>1. EndsIn(l, "Sent -1")
        BY <2>1, Logged
      <3>. HIDE DEF l
      <3>. QED BY <2>2, <3>1, LogStep
           DEF EndsIn, Bounded, Send, Line, Inv, FlagsOK, RangesOK, l
    <2>3. CASE ~receiving[c]
      <3>. DEFINE l == log(log(logs[c], "Attempt"), "Sent")
      <3>1. EndsIn(l, "Sent")
        BY <2>1, Logged
      <3>. HIDE DEF l
      <3>. QED BY <2>3, <3>1, LogStep
           DEF EndsIn, Bounded, Send, Line, Inv, FlagsOK, RangesOK, l
    <2>. QED BY <2>2, <2>3
  <1>3. CASE receiving[c]
    <2>1. Carried' /\ RequestsConserved'
      BY <1>3, RequestsUnmoved DEF Send, serverVars, historyVars
    <2>2. RangesOK' /\ Turns'
      BY <1>3 DEF Inv, Send, serverVars, historyVars, RangesOK, Turns
    <2>. QED BY <1>1, <1>2, <2>1, <2>2 DEF Inv
  <1>4. CASE ~receiving[c]
    <2>1. /\ last < MaxRequests
          /\ last' = last + 1
          /\ outbox' = [outbox EXCEPT ![c] = @ \cup {last + 1}]
          /\ asked' = [asked EXCEPT ![c] = @ + 1]
          /\ receiving' = [receiving EXCEPT ![c] = TRUE]
          /\ UNCHANGED <<open, waiting, connections, link, half, transit, inbox>>
          /\ UNCHANGED <<handled, lost, taken, orphaned>>
      BY <1>4, Zenon DEF Send, serverVars, historyVars
    <2>2. last' \in 0 .. MaxRequests
      BY <2>1, BoundsAssumption DEF Inv, RangesOK
    <2>3. RangesOK'
      BY <2>1, <2>2, BoundsAssumption DEF Inv, RangesOK
    <2>4. asked[c] < connections[c]
      BY <1>4 DEF Inv, Turns, Send
    <2>5. Turns'
      BY <2>1, <2>4 DEF Inv, Turns, RangesOK, FlagsOK
    <2>6. Carried' /\ BegunOnThisLink'
      BY <2>1 DEF Inv, Carried, RequestsConserved, BegunOnThisLink, RangesOK
    <2>7. Accounted' /\ (lost \subseteq orphaned)'
      BY <2>1 DEF Inv, RequestsConserved, Accounted, inOutbox, RangesOK
    <2>. QED BY <1>1, <1>2, <2>3, <2>5, <2>6, <2>7 DEF Inv, RequestsConserved
  <1>. QED BY <1>3, <1>4

(* A step that leaves the clients' state alone leaves the log and the      *)
(* turns of their sockets alone.                                           *)
LEMMA ClientsUnchanged ==
    ASSUME Inv, UNCHANGED <<open, receiving, waiting, logs, connections, asked>>
    PROVE  LogsOK' /\ Turns' /\ Closing' /\ LogTellsState'
  <1>1. LogsOK'
    BY DEF Inv, LogsOK
  <1>2. Turns'
    BY DEF Inv, Turns
  <1>3. Closing'
    BY DEF Inv, Closing
  <1>4. LogTellsState'
    BY DEF Inv, LogTellsState
  <1>. QED BY <1>1, <1>2, <1>3, <1>4

\* The session gets a connection; nothing is begun on it yet.
LEMMA AttachInv ==
    ASSUME Inv, NEW c \in Clients, Attach(c)
    PROVE  Inv'
  <1>1. LogsOK' /\ Turns' /\ Closing' /\ LogTellsState'
    BY ClientsUnchanged DEF Attach, socketVars
  <1>2. FlagsOK' /\ RangesOK'
    BY DEF Inv, Attach, socketVars, serverVars, historyVars, FlagsOK, RangesOK
  <1>3. half[c] = 0
    BY DEF Inv, RequestsConserved, BegunOnThisLink, Attach
  <1>4. Carried' /\ BegunOnThisLink'
    BY <1>3 DEF Inv, Attach, serverVars, historyVars, Carried, RequestsConserved,
                BegunOnThisLink, RangesOK
  <1>5. Accounted' /\ (lost \subseteq orphaned)'
    BY DEF Inv, Attach, socketVars, serverVars, historyVars, RequestsConserved, Accounted,
           inOutbox
  <1>. QED BY <1>1, <1>2, <1>4, <1>5 DEF Inv, RequestsConserved

\* The bottom of a request is pulled: the request is meant for this link's server.
LEMMA PullBottomInv ==
    ASSUME Inv, NEW c \in Clients, PullBottom(c)
    PROVE  Inv'
  <1>1. LogsOK' /\ Turns' /\ Closing' /\ LogTellsState'
    BY ClientsUnchanged DEF PullBottom, socketVars
  <1>2. PICK r \in outbox[c] :
            /\ half' = [half EXCEPT ![c] = r]
            /\ taken' = IF link[c] = "up" THEN taken \cup {r} ELSE taken
            /\ orphaned' = IF link[c] = "up" THEN orphaned ELSE orphaned \cup {r}
    BY DEF PullBottom
  <1>3. r \in 1 .. last
    BY DEF Inv, RangesOK
  <1>4. FlagsOK' /\ RangesOK'
    BY <1>2, <1>3 DEF Inv, PullBottom, socketVars, serverVars, FlagsOK, RangesOK
  <1>5. Carried' /\ BegunOnThisLink'
    BY <1>2, <1>3 DEF Inv, PullBottom, serverVars, Carried, RequestsConserved,
                      BegunOnThisLink, RangesOK
  <1>6. Accounted' /\ (lost \subseteq orphaned)'
    BY <1>2 DEF Inv, PullBottom, socketVars, serverVars, RequestsConserved, Accounted, inOutbox
  <1>. QED BY <1>1, <1>4, <1>5, <1>6 DEF Inv, RequestsConserved

(* The request that c's session has begun leaves its pipe: for the server  *)
(* it was pulled for, or for nobody when that one has stopped.             *)
LEMMA LeavesPipe ==
    ASSUME Inv, NEW c \in Clients, half[c] # 0,
           half' = [half EXCEPT ![c] = 0],
           outbox' = [outbox EXCEPT ![c] = @ \ {half[c]}],
           link' \in [Clients -> {"none", "up", "dead"}],
           \A d \in Clients \ {c} : link'[d] = link[d],
           UNCHANGED <<waiting, connections, asked, last, inbox>>,
           UNCHANGED <<handled, taken, orphaned>>,
           \/ /\ link[c] = "up"
              /\ transit' = transit \cup {half[c]} /\ lost' = lost
           \/ /\ link[c] = "dead"
              /\ transit' = transit /\ lost' = lost \cup {half[c]}
    PROVE  RangesOK' /\ Carried' /\ RequestsConserved'
  <1>0. PICK h \in 0 .. last : h = half[c]
    BY DEF Inv, RangesOK
  <1>1. /\ h \in 1 .. last
        /\ h \in outbox[c]
        /\ link[c] = "up" => h \in taken
        /\ link[c] = "dead" => h \in orphaned
    BY <1>0 DEF Inv, RangesOK, Carried, RequestsConserved, BegunOnThisLink
  <1>2. RangesOK'
    <2>1. /\ outbox' \in [Clients -> SUBSET (1 .. last)]
          /\ half' \in [Clients -> 0 .. last]
      BY <1>0, <1>1 DEF Inv, RangesOK
    <2>2. transit' \cup inbox' \cup handled' \cup lost' \cup taken' \cup orphaned'
              \subseteq 1 .. last
      BY <1>0, <1>1 DEF Inv, RangesOK
    <2>. QED BY <2>1, <2>2 DEF Inv, RangesOK
  <1>3. Carried' /\ BegunOnThisLink'
    BY <1>0, <1>1 DEF Inv, Carried, RequestsConserved, BegunOnThisLink, RangesOK
  <1>4. (lost \subseteq orphaned)'
    BY <1>0, <1>1 DEF Inv, RequestsConserved
  <1>5. Accounted'
    <2>1. /\ outbox'[c] = outbox[c] \ {h}
          /\ \A d \in Clients \ {c} : outbox'[d] = outbox[d]
      BY <1>0 DEF Inv, RangesOK
    <2>2. \A d \in Clients : h \notin outbox'[d]
      <3>1. \A d \in Clients \ {c} : outbox[d] \cap outbox[c] = {}
        BY DEF Inv, RequestsConserved, Accounted
      <3>. QED BY <1>1, <2>1, <3>1
    <2>3. \A r \in 1 .. last : r # h => (inOutbox(r)' <=> inOutbox(r))
      <3>1. \A d \in Clients, r \in 1 .. last : r # h => (r \in outbox'[d] <=> r \in outbox[d])
        BY <2>1
      <3>. QED BY <3>1 DEF inOutbox
    <2>4. ~inOutbox(h)'
      BY <2>2 DEF inOutbox
    <2>5. h \notin transit \cup inbox \cup handled \cup lost
      BY <1>1 DEF Inv, RequestsConserved, Accounted, inOutbox
    <2>6. \A d, e \in Clients : d # e => outbox'[d] \cap outbox'[e] = {}
      BY <2>1 DEF Inv, RequestsConserved, Accounted
    <2>7. ASSUME NEW r \in 1 .. last
          PROVE  /\ inOutbox(r)' \/ r \in transit' \/ r \in inbox' \/ r \in handled' \/ r \in lost'
                 /\ inOutbox(r)' => r \notin transit' \cup inbox' \cup handled' \cup lost'
                 /\ r \in transit' => r \notin inbox' \cup handled' \cup lost'
                 /\ r \in inbox' => r \notin handled' \cup lost'
                 /\ r \in handled' => r \notin lost'
      <3>1. /\ inOutbox(r) \/ r \in transit \/ r \in inbox \/ r \in handled \/ r \in lost
            /\ inOutbox(r) => r \notin transit \cup inbox \cup handled \cup lost
            /\ r \in transit => r \notin inbox \cup handled \cup lost
            /\ r \in inbox => r \notin handled \cup lost
            /\ r \in handled => r \notin lost
        BY DEF Inv, RequestsConserved, Accounted
      <3>2. CASE r = h
        BY <1>0, <2>4, <2>5, <3>2
      <3>3. CASE r # h
        BY <1>0, <2>3, <3>1, <3>3
      <3>. QED BY <3>2, <3>3
    <2>. QED BY <2>6, <2>7 DEF Accounted
  <1>. QED BY <1>2, <1>3, <1>4, <1>5 DEF RequestsConserved

\* The body is pulled as well and the request is on the wire, or nowhere.
LEMMA PullBodyInv ==
    ASSUME Inv, NEW c \in Clients, PullBody(c)
    PROVE  Inv'
  <1>1. LogsOK' /\ Turns' /\ Closing' /\ LogTellsState'
    BY ClientsUnchanged DEF PullBody, socketVars
  <1>2. FlagsOK'
    BY DEF Inv, PullBody, socketVars, serverVars, FlagsOK
  <1>3. RangesOK' /\ Carried' /\ RequestsConserved'
    <2>1. link' \in [Clients -> {"none", "up", "dead"}]
      BY DEF Inv, RangesOK, PullBody
    <2>. QED BY <2>1, LeavesPipe DEF PullBody, socketVars, serverVars
  <1>. QED BY <1>1, <1>2, <1>3 DEF Inv

\* A broken connection is given up with the request that was begun on it.
LEMMA EngineErrorInv ==
    ASSUME Inv, NEW c \in Clients, EngineError(c)
    PROVE  Inv'
  <1>1. LogsOK' /\ Turns' /\ Closing' /\ LogTellsState'
    BY ClientsUnchanged DEF EngineError, socketVars
  <1>2. FlagsOK'
    BY DEF Inv, EngineError, socketVars, serverVars, FlagsOK
  <1>3. link' \in [Clients -> {"none", "up", "dead"}]
    BY DEF Inv, RangesOK, EngineError
  <1>4. CASE half[c] # 0
    <2>1. RangesOK' /\ Carried' /\ RequestsConserved'
      BY <1>3, <1>4, LeavesPipe DEF EngineError, socketVars, serverVars, Inv, RangesOK
    <2>. QED BY <1>1, <1>2, <2>1 DEF Inv
  <1>5. CASE half[c] = 0
    <2>1. half' = half /\ lost' = lost
      BY <1>5 DEF EngineError, Inv, RangesOK
    <2>2. outbox' = outbox
      <3>1. 0 \notin outbox[c]
        BY DEF Inv, RangesOK
      <3>. QED BY <1>5, <3>1 DEF EngineError, Inv, RangesOK
    <2>3. RangesOK'
      BY <1>3, <2>1, <2>2 DEF EngineError, socketVars, serverVars, Inv, RangesOK
    <2>4. Carried' /\ BegunOnThisLink'
      BY <1>5, <2>1, <2>2 DEF EngineError, serverVars, Inv, Carried, RequestsConserved,
                              BegunOnThisLink, RangesOK
    <2>5. Accounted' /\ (lost \subseteq orphaned)'
      BY <2>1, <2>2 DEF EngineError, socketVars, serverVars, Inv, RequestsConserved,
                        Accounted, inOutbox
    <2>. QED BY <1>1, <1>2, <2>3, <2>4, <2>5 DEF Inv, RequestsConserved
  <1>. QED BY <1>4, <1>5

\* A request on the wire reaches the server's pipe.
LEMMA DeliverInv ==
    ASSUME Inv, Deliver
    PROVE  Inv'
  <1>1. LogsOK' /\ Turns' /\ Closing' /\ LogTellsState'
    BY ClientsUnchanged DEF Deliver, socketVars
  <1>2. FlagsOK' /\ RangesOK'
    BY DEF Inv, Deliver, socketVars, sessionVars, historyVars, FlagsOK, RangesOK
  <1>3. Carried' /\ BegunOnThisLink'
    BY DEF Inv, Deliver, sessionVars, historyVars, Carried, RequestsConserved, BegunOnThisLink
  <1>4. Accounted' /\ (lost \subseteq orphaned)'
    BY DEF Inv, Deliver, socketVars, sessionVars, historyVars, RequestsConserved, Accounted,
           inOutbox
  <1>. QED BY <1>1, <1>2, <1>3, <1>4 DEF Inv, RequestsConserved

\* A server starts with a fresh socket.
LEMMA ServerStartInv ==
    ASSUME Inv, ServerStart
    PROVE  Inv'
  <1>1. LogsOK' /\ Turns' /\ Closing' /\ LogTellsState'
    BY ClientsUnchanged DEF ServerStart, socketVars
  <1>2. FlagsOK' /\ RangesOK'
    BY DEF Inv, ServerStart, socketVars, sessionVars, historyVars, FlagsOK, RangesOK
  <1>3. Carried' /\ RequestsConserved'
    BY RequestsUnmoved DEF ServerStart, socketVars, sessionVars, historyVars
  <1>. QED BY <1>1, <1>2, <1>3 DEF Inv

\* A server takes the wire and its pipes with it, and every connection breaks.
LEMMA ServerStopInv ==
    ASSUME Inv, ServerStop
    PROVE  Inv'
  <1>1. LogsOK' /\ Turns' /\ Closing' /\ LogTellsState'
    BY ClientsUnchanged DEF ServerStop, socketVars
  <1>2. FlagsOK' /\ RangesOK'
    BY DEF Inv, ServerStop, socketVars, FlagsOK, RangesOK
  <1>3. Carried' /\ BegunOnThisLink'
    BY DEF Inv, ServerStop, Carried, RequestsConserved, BegunOnThisLink, RangesOK
  <1>4. (lost \subseteq orphaned)'
    BY DEF Inv, ServerStop, Carried, RequestsConserved
  <1>5. Accounted'
    BY DEF Inv, ServerStop, socketVars, RequestsConserved, Accounted, inOutbox
  <1>. QED BY <1>1, <1>2, <1>3, <1>4, <1>5 DEF Inv, RequestsConserved

\* Time passes.
LEMMA IntervalPassesInv ==
    ASSUME Inv, IntervalPasses
    PROVE  Inv'
  <1>1. LogsOK' /\ Turns' /\ Closing' /\ LogTellsState'
    BY ClientsUnchanged DEF IntervalPasses, socketVars
  <1>2. FlagsOK' /\ RangesOK'
    BY DEF Inv, IntervalPasses, socketVars, sessionVars, historyVars, FlagsOK, RangesOK
  <1>3. Carried' /\ RequestsConserved'
    BY RequestsUnmoved DEF IntervalPasses, socketVars, sessionVars, historyVars
  <1>. QED BY <1>1, <1>2, <1>3 DEF Inv

\* A server reads a request.
LEMMA UpdateInv ==
    ASSUME Inv, Update
    PROVE  Inv'
  <1>1. LogsOK' /\ Turns' /\ Closing' /\ LogTellsState'
    BY ClientsUnchanged DEF Update, socketVars
  <1>2. FlagsOK' /\ RangesOK'
    BY DEF Inv, Update, socketVars, sessionVars, FlagsOK, RangesOK
  <1>3. Carried' /\ BegunOnThisLink'
    BY DEF Inv, Update, sessionVars, Carried, RequestsConserved, BegunOnThisLink
  <1>4. Accounted' /\ (lost \subseteq orphaned)'
    BY DEF Inv, Update, socketVars, sessionVars, RequestsConserved, Accounted, inOutbox
  <1>. QED BY <1>1, <1>2, <1>3, <1>4 DEF Inv, RequestsConserved

\* Every step keeps the invariant.
LEMMA NextInv == Inv /\ [Next]_vars => Inv'
  <1>. SUFFICES ASSUME Inv, [Next]_vars PROVE Inv'
    OBVIOUS
  <1>1. ASSUME NEW c \in Clients, Connect(c) \/ Close(c) \/ Closed(c) \/ Send(c)
        PROVE  Inv'
    BY <1>1, ConnectInv, CloseInv, ClosedInv, SendInv
  <1>2. ASSUME NEW c \in Clients, Attach(c) \/ PullBottom(c) \/ PullBody(c) \/ EngineError(c)
        PROVE  Inv'
    BY <1>2, AttachInv, PullBottomInv, PullBodyInv, EngineErrorInv
  <1>3. CASE Deliver \/ ServerStart \/ ServerStop \/ IntervalPasses \/ Update
    BY <1>3, DeliverInv, ServerStartInv, ServerStopInv, IntervalPassesInv, UpdateInv
  <1>4. CASE UNCHANGED vars
    <2>1. UNCHANGED <<socketVars, sessionVars, transit, serverVars, historyVars>>
      BY <1>4 DEF vars
    <2>2. LogsOK' /\ Turns' /\ Closing' /\ LogTellsState'
      BY <2>1, ClientsUnchanged DEF socketVars
    <2>3. FlagsOK' /\ RangesOK'
      BY <2>1 DEF Inv, FlagsOK, RangesOK, socketVars, sessionVars, serverVars, historyVars
    <2>4. Carried' /\ RequestsConserved'
      BY <2>1, RequestsUnmoved DEF socketVars, sessionVars, serverVars, historyVars
    <2>. QED BY <2>2, <2>3, <2>4 DEF Inv
  <1>. QED BY <1>1, <1>2, <1>3, <1>4 DEF Next

-----------------------------------------------------------------------------
(* The invariant holds, for every number of clients, connections, requests *)
(* and log lines.                                                          *)
THEOREM InvHolds == Spec => []Inv
  BY InitInv, NextInv, PTL DEF Spec

(* Types, and the bound of the client's log (Logs.cpp log).                *)
THEOREM TypeCorrect == Spec => []TypeOK
  <1>1. Inv => TypeOK
    BY DEF Inv, TypeOK, LogsOK
  <1>. QED BY <1>1, InvHolds, PTL

(* A request whose send succeeded is in one place at a time and is lost    *)
(* only with the server it was pulled for: what has not been begun stays   *)
(* in the client's pipe over every close, broken connection and restart,   *)
(* and no connection begins in the middle of a request (Client/IPC.h       *)
(* close, send; session_base.cpp pull_msg, engine_error, clean_pipes).     *)
THEOREM NoRequestLost == Spec => []RequestsConserved
  <1>1. Inv => RequestsConserved
    BY DEF Inv
  <1>. QED BY <1>1, InvHolds, PTL

(* A connection carries at most one request: the client never receives,    *)
(* so that its REQ socket never sends again (Client/IPC.h send).           *)
THEOREM OneRequest == Spec => []OneRequestPerConnection
  <1>1. Inv => OneRequestPerConnection
    BY DEF Inv, Turns, OneRequestPerConnection
  <1>. QED BY <1>1, InvHolds, PTL

(* The newest log line tells the state of the client's connection          *)
(* (Client/IPC.h connect, close, send; Logs.cpp log).                      *)
THEOREM LogIsTrue == Spec => []LogTellsState
  <1>1. Inv => LogTellsState
    BY DEF Inv
  <1>. QED BY <1>1, InvHolds, PTL
=============================================================================
