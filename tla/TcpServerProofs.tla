----------------------------- MODULE TcpServerProofs -----------------------------
(***************************************************************************)
(* The table of connections for any limit, any number of peers and any     *)
(* requests.  What the properties rest on: the slot that the accepting     *)
(* thread settled on holds nobody or a peer that closed, and a peer that   *)
(* closed stays closed; so the slot of a live peer never changes hands,    *)
(* neither in accept nor between the main thread's receive and send.  The  *)
(* order of the answers rests on an invariant of its own, OrderInv.        *)
(***************************************************************************)
EXTENDS TcpServer, SequenceTheorems, TLAPS

\* The accepting thread's slot.
SlotChosen ==
    /\ apc \in {"scan", "accept"} => acceptId <= idCount
    /\ apc = "accept" =>
          /\ acceptId \in Slot
          /\ slots[acceptId] = NoConn \/ peer[slots[acceptId]] = "closed"
    /\ apc = "ended" => \A s \in Slot : slots[s] = NoConn

\* A connection in the table was made by its peer.
Connected == \A s \in Slot : slots[s] # NoConn => peer[slots[s]] # "new"

\* A connection's buffers hold its own peer's requests.
OwnRequests ==
    \A c \in Conns : /\ \A k \in 1 .. Len(wire[c]) : wire[c][k].from = c
                     /\ \A k \in 1 .. Len(tmpStr[c]) : tmpStr[c][k].from = c

\* The main thread's slot, and whose request it holds.
HeldFrom ==
    /\ pc \in {"receive", "reply"} => i \in Slot
    /\ pc = "reply" =>
          /\ held \in Request
          /\ \/ slots[i] = held.from
             \/ slots[i] = NoConn
             \/ peer[held.from] = "closed"
    /\ pc = "reply" /\ slots[i] = NoConn => apc = "ended"

Inv ==
    /\ FlagsOK
    /\ TableOK
    /\ BuffersOK
    /\ EveryClientVisited
    /\ SlotChosen
    /\ Connected
    /\ OwnRequests
    /\ HeldFrom
    /\ StrayOnlyFromClosed

-----------------------------------------------------------------------------
\* No connections, no requests and no client at the start.
LEMMA InitInv == Init => Inv
  <1>. SUFFICES ASSUME Init PROVE Inv
    OBVIOUS
  <1>1. FlagsOK
    BY DEF Init, FlagsOK
  <1>2. TableOK
    BY ServerAssumption DEF Init, TableOK, Slot
  <1>3. BuffersOK
    BY ServerAssumption DEF Init, BuffersOK, NoRequest
  <1>4. EveryClientVisited /\ SlotChosen /\ Connected
    BY ServerAssumption DEF Init, EveryClientVisited, SlotChosen, Connected
  <1>5. OwnRequests /\ HeldFrom /\ StrayOnlyFromClosed
    BY DEF Init, OwnRequests, HeldFrom, StrayOnlyFromClosed
  <1>. QED BY <1>1, <1>2, <1>3, <1>4, <1>5 DEF Inv

-----------------------------------------------------------------------------
(* The peers.                                                              *)

(* A peer moves on from "new" to "open" or from "open" to "closed"; closed *)
(* peers stay closed.                                                      *)
LEMMA PeerMoves ==
    ASSUME Inv, NEW c \in Conns, NEW p \in {"open", "closed"},
           peer[c] # "closed",
           peer' = [peer EXCEPT ![c] = p],
           UNCHANGED <<load, sent, bufferVars, acceptVars, slots, mainVars>>
    PROVE  Inv'
  <1>. USE DEF Inv
  <1>1. UNCHANGED <<sent, wire, tmpStr, accepted, idCount, apc, acceptId,
                    slots, pc, i, held, replies>>
    BY DEF bufferVars, acceptVars, mainVars
  <1>2. FlagsOK'
    BY DEF FlagsOK, acceptVars, mainVars
  <1>3. TableOK'
    BY <1>1 DEF TableOK
  <1>4. BuffersOK' /\ OwnRequests'
    BY <1>1 DEF BuffersOK, OwnRequests
  <1>5. \A d \in Conns : /\ peer[d] = "closed" => peer'[d] = "closed"
                         /\ peer[d] # "new" => peer'[d] # "new"
    BY DEF TableOK
  <1>6. EveryClientVisited'
    BY <1>1 DEF EveryClientVisited
  <1>7. SlotChosen'
    BY <1>1, <1>5, ServerAssumption DEF SlotChosen, TableOK
  <1>8. Connected'
    BY <1>1, <1>5 DEF Connected, TableOK
  <1>9. HeldFrom'
    BY <1>1, <1>5 DEF HeldFrom, Request
  <1>10. StrayOnlyFromClosed'
    <2>. SUFFICES ASSUME NEW d \in Conns, NEW k \in 1 .. Len(replies[d]),
                         replies[d][k].from # d
                  PROVE  peer'[replies[d][k].from] = "closed"
      BY <1>1 DEF StrayOnlyFromClosed
    <2>1. replies[d][k] \in Request
      BY DEF BuffersOK
    <2>. QED BY <1>5, <2>1 DEF StrayOnlyFromClosed, Request
  <1>. QED BY <1>2, <1>3, <1>4, <1>6, <1>7, <1>8, <1>9, <1>10

\* A request goes to the sender's own connection.
LEMMA PeerSendsInv ==
    ASSUME Inv, NEW c \in Conns, NEW k \in Kinds[c], PeerSends(c, k)
    PROVE  Inv'
  <1>. USE DEF Inv
  <1>. DEFINE r == [from |-> c, n |-> sent[c] + 1, kind |-> k]
  <1>1. /\ sent' = [sent EXCEPT ![c] = @ + 1]
        /\ wire' = [wire EXCEPT ![c] = Append(@, r)]
        /\ sent[c] < load[c]
        /\ UNCHANGED <<peer, tmpStr, accepted, idCount, apc, acceptId,
                       slots, pc, i, held, replies>>
    BY Zenon DEF PeerSends, acceptVars, mainVars
  <1>2. r \in Request /\ sent[c] + 1 \in Nat
    <2>1. k \in {"object", "malformed", "array", "fatal"}
      BY ServerAssumption
    <2>2. sent[c] + 1 \in Nat
      BY DEF BuffersOK
    <2>. QED BY <2>1, <2>2 DEF Request
  <1>3. FlagsOK'
    BY DEF FlagsOK, PeerSends, acceptVars, mainVars
  <1>4. TableOK'
    BY <1>1 DEF TableOK
  <1>5. BuffersOK'
    <2>. HIDE DEF r
    <2>. QED BY <1>1, <1>2, ServerAssumption DEF BuffersOK
  <1>6. OwnRequests'
    <2>1. r.from = c
      OBVIOUS
    <2>. HIDE DEF r
    <2>2. wire[c] \in Seq(Request)
      BY DEF BuffersOK
    <2>3. /\ Len(Append(wire[c], r)) = Len(wire[c]) + 1
          /\ \A j \in 1 .. Len(wire[c]) : Append(wire[c], r)[j] = wire[c][j]
          /\ Append(wire[c], r)[Len(wire[c]) + 1] = r
      BY <1>2, <2>2, AppendProperties
    <2>4. \A j \in 1 .. Len(Append(wire[c], r)) : Append(wire[c], r)[j].from = c
      BY <2>1, <2>2, <2>3 DEF OwnRequests
    <2>. QED BY <1>1, <2>4 DEF OwnRequests, BuffersOK
  <1>7. EveryClientVisited' /\ SlotChosen' /\ Connected' /\ HeldFrom' /\ StrayOnlyFromClosed'
    BY <1>1 DEF EveryClientVisited, SlotChosen, Connected, HeldFrom, StrayOnlyFromClosed
  <1>. QED BY <1>3, <1>4, <1>5, <1>6, <1>7

-----------------------------------------------------------------------------
(* The accepting thread.                                                   *)

\* One look at a slot: a live client's slot is passed over.
LEMMA ScanSlotInv ==
    ASSUME Inv, ScanSlot
    PROVE  Inv'
  <1>. USE DEF Inv
  <1>1. UNCHANGED <<peer, sent, wire, tmpStr, accepted, slots, pc, i, held, replies>>
    BY DEF ScanSlot, peerVars, bufferVars, mainVars
  <1>2. FlagsOK'
    BY DEF FlagsOK, ScanSlot, mainVars
  <1>3. BuffersOK' /\ OwnRequests'
    BY <1>1 DEF BuffersOK, OwnRequests
  <1>4. Connected' /\ StrayOnlyFromClosed'
    BY <1>1 DEF Connected, StrayOnlyFromClosed
  <1>5. apc = "scan" /\ acceptId <= idCount /\ (acceptId \in Slot \/ acceptId = MaxClients)
    BY ServerAssumption DEF ScanSlot, SlotChosen, TableOK, Slot
  <1>6. HeldFrom'
    BY <1>1, <1>5 DEF HeldFrom
  <1>7. CASE acceptId < MaxClients /\ acceptId <= idCount /\ isClientConnected(acceptId)
    <2>1. acceptId' = acceptId + 1 /\ UNCHANGED <<apc, idCount>>
      BY <1>7, Zenon DEF ScanSlot
    <2>2. acceptId \in Slot /\ slots[acceptId] # NoConn
      BY <1>5, <1>7, ServerAssumption DEF isClientConnected, TableOK
    <2>3. acceptId < idCount
      BY <1>5, <2>2 DEF EveryClientVisited
    <2>4. TableOK'
      BY <1>1, <1>7, <2>1, ServerAssumption DEF TableOK
    <2>5. EveryClientVisited'
      BY <1>1, <2>1 DEF EveryClientVisited
    <2>6. SlotChosen'
      BY <1>1, <1>5, <2>1, <2>3, ServerAssumption DEF SlotChosen, TableOK
    <2>. QED BY <1>2, <1>3, <1>4, <1>6, <2>4, <2>5, <2>6
  <1>8. CASE /\ ~(acceptId < MaxClients /\ acceptId <= idCount /\ isClientConnected(acceptId))
             /\ acceptId = MaxClients
    <2>1. apc' = "leaving" /\ idCount' = 0 /\ UNCHANGED acceptId
      BY <1>8, Zenon DEF ScanSlot
    <2>2. TableOK'
      BY <1>1, <2>1, ServerAssumption DEF TableOK
    <2>3. EveryClientVisited' /\ SlotChosen'
      BY <2>1 DEF EveryClientVisited, SlotChosen
    <2>. QED BY <1>2, <1>3, <1>4, <1>6, <2>2, <2>3
  <1>9. CASE /\ ~(acceptId < MaxClients /\ acceptId <= idCount /\ isClientConnected(acceptId))
             /\ acceptId # MaxClients
    <2>1. apc' = "accept" /\ UNCHANGED <<acceptId, idCount>>
      BY <1>9, Zenon DEF ScanSlot
    <2>2. TableOK'
      BY <1>1, <2>1 DEF TableOK
    <2>3. acceptId \in Slot /\ acceptId < MaxClients
      BY <1>5, <1>9, ServerAssumption DEF Slot
    <2>4. ~isClientConnected(acceptId)
      BY <1>5, <1>9, <2>3
    <2>5. slots[acceptId] = NoConn \/ peer[slots[acceptId]] = "closed"
      BY <2>3, <2>4 DEF isClientConnected, isConnected, Connected, TableOK
    <2>6. EveryClientVisited' /\ SlotChosen'
      BY <1>1, <1>5, <2>1, <2>3, <2>5 DEF EveryClientVisited, SlotChosen
    <2>. QED BY <1>2, <1>3, <1>4, <1>6, <2>2, <2>6
  <1>. QED BY <1>7, <1>8, <1>9

\* The thread ends and drops every client.
LEMMA DropClientsInv ==
    ASSUME Inv, DropClients
    PROVE  Inv'
  <1>. USE DEF Inv
  <1>1. /\ apc' = "ended"
        /\ slots' = [s \in Slot |-> NoConn]
        /\ UNCHANGED <<peer, sent, wire, tmpStr, accepted, acceptId, idCount, pc, i, held, replies>>
    BY DEF DropClients, peerVars, bufferVars, mainVars
  <1>2. FlagsOK'
    BY DEF FlagsOK, DropClients, mainVars
  <1>3. TableOK'
    BY <1>1 DEF TableOK
  <1>4. BuffersOK' /\ OwnRequests' /\ StrayOnlyFromClosed'
    BY <1>1 DEF BuffersOK, OwnRequests, StrayOnlyFromClosed
  <1>5. EveryClientVisited' /\ SlotChosen' /\ Connected'
    BY <1>1 DEF EveryClientVisited, SlotChosen, Connected
  <1>6. HeldFrom'
    BY <1>1 DEF HeldFrom
  <1>. QED BY <1>2, <1>3, <1>4, <1>5, <1>6

\* A new client takes the slot that was chosen.
LEMMA AcceptInv ==
    ASSUME Inv, NEW c \in Conns, Accept(c)
    PROVE  Inv'
  <1>. USE DEF Inv
  <1>1. /\ apc = "accept"
        /\ peer[c] # "new"
        /\ accepted' = accepted \cup {c}
        /\ slots' = [slots EXCEPT ![acceptId] = c]
        /\ idCount' = IF acceptId = idCount THEN idCount + 1 ELSE idCount
        /\ apc' = "scan"
        /\ acceptId' = 0
        /\ UNCHANGED <<peer, sent, wire, tmpStr, pc, i, held, replies>>
    BY Zenon DEF Accept, peerVars, bufferVars, mainVars
  <1>2. FlagsOK'
    BY DEF FlagsOK, Accept, mainVars
  <1>3. /\ acceptId \in Slot /\ acceptId \in Nat /\ acceptId < MaxClients
        /\ acceptId <= idCount
        /\ slots[acceptId] = NoConn \/ peer[slots[acceptId]] = "closed"
    BY <1>1, ServerAssumption DEF SlotChosen, Slot
  <1>4. idCount' \in 0 .. MaxClients /\ acceptId < idCount' /\ idCount <= idCount'
    BY <1>1, <1>3, ServerAssumption DEF TableOK
  <1>5. TableOK'
    BY <1>1, <1>3, <1>4, ServerAssumption DEF TableOK
  <1>6. BuffersOK' /\ OwnRequests' /\ StrayOnlyFromClosed'
    BY <1>1 DEF BuffersOK, OwnRequests, StrayOnlyFromClosed
  <1>7. EveryClientVisited'
    BY <1>1, <1>3, <1>4, ServerAssumption DEF EveryClientVisited, TableOK, Slot
  <1>8. SlotChosen'
    BY <1>1, <1>4, ServerAssumption DEF SlotChosen
  <1>9. Connected'
    BY <1>1, <1>3 DEF Connected, TableOK
  <1>10. HeldFrom'
    <2>1. pc \in {"receive", "reply"} => i \in Slot
      BY DEF HeldFrom
    <2>2. CASE i # acceptId
      BY <1>1, <1>3, <2>1, <2>2 DEF HeldFrom, TableOK
    <2>3. CASE i = acceptId
      <3>1. slots'[i] = c /\ c # NoConn
        BY <1>1, <1>3, <2>3, ServerAssumption DEF TableOK
      <3>. SUFFICES ASSUME pc = "reply" PROVE held \in Request /\ peer[held.from] = "closed"
        BY <1>1, <2>1, <3>1 DEF HeldFrom
      <3>. QED BY <1>1, <1>3, <2>3 DEF HeldFrom, Request
    <2>. QED BY <2>2, <2>3
  <1>. QED BY <1>2, <1>5, <1>6, <1>7, <1>8, <1>9, <1>10

-----------------------------------------------------------------------------
(* The main thread.                                                        *)

\* Steps that touch neither the table nor a request.
LEMMA LoopStep ==
    ASSUME Inv,
           UNCHANGED <<peerVars, bufferVars, acceptVars, slots, held, replies, cut, alive>>,
           throttled' \in BOOLEAN,
           pc' \in {"idle", "check", "receive"},
           i' \in 0 .. MaxClients,
           pc' = "receive" => i' \in Slot
    PROVE  Inv'
  <1>. USE DEF Inv
  <1>1. UNCHANGED <<peer, sent, wire, tmpStr, accepted, idCount, apc, acceptId,
                    slots, held, replies>>
    BY DEF peerVars, bufferVars, acceptVars
  <1>2. FlagsOK'
    BY DEF FlagsOK, acceptVars
  <1>3. TableOK'
    BY <1>1 DEF TableOK
  <1>4. BuffersOK' /\ OwnRequests' /\ StrayOnlyFromClosed'
    BY <1>1 DEF BuffersOK, OwnRequests, StrayOnlyFromClosed
  <1>5. EveryClientVisited' /\ SlotChosen' /\ Connected'
    BY <1>1 DEF EveryClientVisited, SlotChosen, Connected
  <1>6. HeldFrom'
    BY DEF HeldFrom
  <1>. QED BY <1>2, <1>3, <1>4, <1>5, <1>6

\* init, the throttle, the start of the loop and its test.
LEMMA LoopInv ==
    ASSUME Inv, SetDelimiter \/ IntervalPasses \/ Update \/ Check
    PROVE  Inv'
  <1>1. throttled \in BOOLEAN
    BY DEF Inv, FlagsOK
  <1>2. i \in 0 .. MaxClients /\ idCount \in 0 .. MaxClients
    BY DEF Inv, TableOK
  <1>3. CASE SetDelimiter
    BY <1>1, <1>2, <1>3, LoopStep DEF SetDelimiter
  <1>4. CASE IntervalPasses
    BY <1>1, <1>2, <1>4, LoopStep DEF IntervalPasses
  <1>5. CASE Update
    BY <1>1, <1>5, ServerAssumption, LoopStep DEF Update
  <1>6. CASE Check
    <2>1. CASE i >= idCount
      <3>1. pc' = "idle" /\ throttled' = TRUE /\ i' = i
        BY <1>6, <2>1 DEF Check
      <3>. QED BY <1>2, <1>6, <3>1, LoopStep DEF Check
    <2>2. CASE ~(i >= idCount)
      <3>1. i \in Slot /\ i + 1 \in 0 .. MaxClients
        BY <1>2, <2>2, ServerAssumption DEF Slot
      <3>2. \/ pc' = "receive" /\ i' = i /\ throttled' = throttled
            \/ pc' = "check" /\ i' = i + 1 /\ throttled' = throttled
        BY <1>6, <2>2 DEF Check
      <3>3. UNCHANGED <<peerVars, bufferVars, acceptVars, slots, held, replies, cut, alive>>
        BY <1>6 DEF Check
      <3>. QED BY <1>1, <1>2, <3>1, <3>2, <3>3, LoopStep
    <2>. QED BY <2>1, <2>2
  <1>. QED BY <1>3, <1>4, <1>5, <1>6

\* A slot whose client is gone is emptied: its peer had closed.
LEMMA EmptySlot ==
    ASSUME Inv, NEW s \in Slot, ~isClientConnected(s),
           slots' = [slots EXCEPT ![s] = NoConn],
           UNCHANGED <<peer, idCount, apc, acceptId>>
    PROVE  /\ slots' \in [Slot -> Conns \cup {NoConn}]
           /\ EveryClientVisited' /\ SlotChosen' /\ Connected'
  <1>. USE DEF Inv
  <1>1. slots' \in [Slot -> Conns \cup {NoConn}]
    BY DEF TableOK
  <1>2. \A t \in Slot : slots'[t] = NoConn \/ slots'[t] = slots[t]
    BY DEF TableOK
  <1>3. EveryClientVisited' /\ Connected'
    BY <1>2 DEF EveryClientVisited, Connected
  <1>4. SlotChosen'
    BY <1>2 DEF SlotChosen
  <1>. QED BY <1>1, <1>3, <1>4

\* receive: a line of the slot's own connection, or nothing.
LEMMA ReceiveInv ==
    ASSUME Inv, Receive
    PROVE  Inv'
  <1>. USE DEF Inv
  <1>1. pc = "receive" /\ i \in Slot /\ i + 1 \in 0 .. MaxClients
    BY ServerAssumption DEF Receive, HeldFrom, Slot
  <1>2. UNCHANGED <<peer, sent, accepted, idCount, apc, acceptId, replies>>
    BY DEF Receive, peerVars, acceptVars
  <1>3. FlagsOK'
    BY DEF FlagsOK, Receive, acceptVars
  <1>4. StrayOnlyFromClosed'
    BY <1>2 DEF StrayOnlyFromClosed
  <1>5. CASE ReceiveGone
    <2>1. /\ ~isClientConnected(i)
          /\ slots' = [slots EXCEPT ![i] = NoConn]
          /\ pc' = "check" /\ i' = i + 1 /\ held' = NoRequest
          /\ UNCHANGED <<wire, tmpStr>>
      BY <1>5 DEF ReceiveGone, nextSlot, bufferVars
    <2>2. /\ slots' \in [Slot -> Conns \cup {NoConn}]
          /\ EveryClientVisited' /\ SlotChosen' /\ Connected'
      BY <1>1, <1>2, <2>1, EmptySlot
    <2>3. TableOK'
      BY <1>1, <1>2, <2>1, <2>2 DEF TableOK
    <2>4. BuffersOK' /\ OwnRequests' /\ HeldFrom'
      BY <1>2, <2>1 DEF BuffersOK, OwnRequests, HeldFrom
    <2>. QED BY <1>3, <1>4, <2>2, <2>3, <2>4
  <1>6. CASE ReceiveNothing \/ ReceiveUndelimited
    <2>1. /\ pc' = "check" /\ i' = i + 1 /\ held' = NoRequest
          /\ UNCHANGED <<slots, tmpStr>>
          /\ \/ wire' = wire
             \/ isClientConnected(i) /\ wire' = [wire EXCEPT ![slots[i]] = <<>>]
      BY <1>6 DEF ReceiveNothing, ReceiveUndelimited, nextSlot, bufferVars
    <2>2. TableOK'
      BY <1>1, <1>2, <2>1 DEF TableOK
    <2>3. HeldFrom'
      BY <2>1 DEF HeldFrom
    <2>4. BuffersOK' /\ OwnRequests'
      <3>1. CASE wire' = wire
        BY <1>2, <2>1, <3>1 DEF BuffersOK, OwnRequests
      <3>2. CASE isClientConnected(i) /\ wire' = [wire EXCEPT ![slots[i]] = <<>>]
        <4>1. slots[i] \in Conns
          BY <1>1, <3>2 DEF isClientConnected, TableOK
        <4>2. wire' \in [Conns -> Seq(Request)]
          BY <3>2, <4>1 DEF BuffersOK
        <4>3. BuffersOK'
          BY <1>2, <2>1, <4>2 DEF BuffersOK
        <4>4. \A c \in Conns : wire'[c] = wire[c] \/ wire'[c] = <<>>
          BY <3>2 DEF BuffersOK
        <4>5. OwnRequests'
          BY <2>1, <4>4 DEF OwnRequests
        <4>. QED BY <4>3, <4>5
      <3>. QED BY <2>1, <3>1, <3>2
    <2>5. EveryClientVisited' /\ SlotChosen' /\ Connected'
      BY <1>2, <2>1 DEF EveryClientVisited, SlotChosen, Connected
    <2>. QED BY <1>3, <1>4, <2>2, <2>3, <2>4, <2>5
  <1>7. ASSUME UNCHANGED <<slots, i>>, pc' = "reply",
               slots[i] # NoConn,
               held' \in Request, held'.from = slots[i],
               wire' \in [Conns -> Seq(Request)], tmpStr' \in [Conns -> Seq(Request)],
               OwnRequests'
        PROVE  Inv'
    <2>1. TableOK'
      BY <1>2, <1>7 DEF TableOK
    <2>2. BuffersOK'
      BY <1>2, <1>7 DEF BuffersOK
    <2>3. EveryClientVisited' /\ SlotChosen' /\ Connected'
      BY <1>2, <1>7 DEF EveryClientVisited, SlotChosen, Connected
    <2>4. HeldFrom'
      BY <1>1, <1>7 DEF HeldFrom
    <2>. QED BY <1>3, <1>4, <1>7, <2>1, <2>2, <2>3, <2>4
  <1>8. ASSUME isClientConnected(i)
        PROVE  /\ slots[i] \in Conns /\ slots[i] # NoConn
               /\ wire[slots[i]] \in Seq(Request) /\ tmpStr[slots[i]] \in Seq(Request)
    BY <1>1, <1>8 DEF isClientConnected, TableOK, BuffersOK
  <1>9. CASE ReceiveBuffered
    <2>. DEFINE c == slots[i]
    <2>. DEFINE t == tmpStr[c]
    <2>1. /\ isClientConnected(i)
          /\ t # <<>>
          /\ held' = Head(t)
          /\ tmpStr' = [tmpStr EXCEPT ![c] = Tail(t)]
          /\ pc' = "reply"
          /\ UNCHANGED <<slots, wire, i>>
      BY <1>9 DEF ReceiveBuffered
    <2>2. c \in Conns /\ c # NoConn /\ t \in Seq(Request)
      BY <1>8, <2>1
    <2>3. /\ Head(t) \in Request /\ Head(t) = t[1] /\ Len(t) >= 1
          /\ Tail(t) \in Seq(Request)
          /\ Len(Tail(t)) = Len(t) - 1
          /\ \A k \in 1 .. Len(Tail(t)) : Tail(t)[k] = t[k + 1]
      BY <2>1, <2>2, HeadTailProperties
    <2>4. \A k \in 1 .. Len(t) : t[k].from = c
      BY <2>2 DEF OwnRequests
    <2>5. Head(t).from = c /\ \A k \in 1 .. Len(Tail(t)) : Tail(t)[k].from = c
      BY <2>2, <2>3, <2>4
    <2>6. tmpStr' \in [Conns -> Seq(Request)] /\ wire' \in [Conns -> Seq(Request)]
      BY <2>1, <2>2, <2>3 DEF BuffersOK
    <2>7. OwnRequests'
      BY <2>1, <2>2, <2>5 DEF OwnRequests, BuffersOK
    <2>. QED BY <1>7, <2>1, <2>2, <2>3, <2>5, <2>6, <2>7
  <1>10. CASE ReceiveFresh
    <2>. DEFINE c == slots[i]
    <2>. DEFINE w == wire[c]
    <2>1. /\ isClientConnected(i)
          /\ w # <<>>
          /\ \E n \in 1 .. Len(w) :
                /\ tmpStr' = [tmpStr EXCEPT ![c] = SubSeq(w, 2, n)]
                /\ wire' = [wire EXCEPT ![c] = SubSeq(w, n + 1, Len(w))]
          /\ held' = Head(w)
          /\ pc' = "reply"
          /\ UNCHANGED <<slots, i>>
      BY <1>10 DEF ReceiveFresh
    <2>2. c \in Conns /\ c # NoConn /\ w \in Seq(Request)
      BY <1>8, <2>1
    <2>3. PICK n \in 1 .. Len(w) :
                /\ tmpStr' = [tmpStr EXCEPT ![c] = SubSeq(w, 2, n)]
                /\ wire' = [wire EXCEPT ![c] = SubSeq(w, n + 1, Len(w))]
      BY <2>1
    <2>4. \A k \in 1 .. Len(w) : w[k].from = c
      BY <2>2 DEF OwnRequests
    <2>5. ASSUME NEW a \in 1 .. Len(w) + 1, NEW b \in 0 .. Len(w)
          PROVE  /\ SubSeq(w, a, b) \in Seq(Request)
                 /\ \A k \in 1 .. Len(SubSeq(w, a, b)) : SubSeq(w, a, b)[k].from = c
      <3>1. CASE a <= b
        <4>1. /\ SubSeq(w, a, b) \in Seq(Request)
              /\ Len(SubSeq(w, a, b)) = b - a + 1
              /\ \A k \in 1 .. (b - a + 1) : SubSeq(w, a, b)[k] = w[a + k - 1]
          BY <2>2, <3>1, SubSeqProperties
        <4>2. Len(w) \in Nat
          BY <2>2
        <4>. QED BY <2>4, <3>1, <4>1, <4>2
      <3>2. CASE ~(a <= b)
        BY <2>2, <3>2
      <3>. QED BY <3>1, <3>2
    <2>6. /\ 2 \in 1 .. Len(w) + 1 /\ n \in 0 .. Len(w)
          /\ n + 1 \in 1 .. Len(w) + 1 /\ Len(w) \in 0 .. Len(w)
          /\ Len(w) >= 1
      BY <2>2, <2>3
    <2>7. /\ SubSeq(w, 2, n) \in Seq(Request)
          /\ \A k \in 1 .. Len(SubSeq(w, 2, n)) : SubSeq(w, 2, n)[k].from = c
      BY <2>5, <2>6
    <2>8. /\ SubSeq(w, n + 1, Len(w)) \in Seq(Request)
          /\ \A k \in 1 .. Len(SubSeq(w, n + 1, Len(w))) : SubSeq(w, n + 1, Len(w))[k].from = c
      BY <2>5, <2>6
    <2>9. Head(w) \in Request /\ Head(w).from = c
      <3>1. Head(w) = w[1] /\ Head(w) \in Request
        BY <2>1, <2>2, HeadTailProperties
      <3>. QED BY <2>4, <2>6, <3>1
    <2>10. tmpStr' \in [Conns -> Seq(Request)] /\ wire' \in [Conns -> Seq(Request)]
      BY <2>2, <2>3, <2>7, <2>8 DEF BuffersOK
    <2>11. OwnRequests'
      BY <2>2, <2>3, <2>7, <2>8 DEF OwnRequests, BuffersOK
    <2>. QED BY <1>7, <2>1, <2>2, <2>9, <2>10, <2>11
  <1>. QED BY <1>5, <1>6, <1>9, <1>10 DEF Receive

(* The answer: it goes to the asker, to nobody, or - its asker gone - to   *)
(* the slot's next client.                                                 *)
LEMMA ReplyInv ==
    ASSUME Inv, Reply
    PROVE  Inv'
  <1>. USE DEF Inv
  <1>1. /\ pc = "reply" /\ i \in Slot /\ i + 1 \in 0 .. MaxClients
        /\ held \in Request
    BY ServerAssumption DEF Reply, HeldFrom, Slot
  <1>2. UNCHANGED <<peer, sent, wire, tmpStr, accepted, idCount, apc, acceptId>>
    BY DEF Reply, peerVars, bufferVars, acceptVars
  <1>3. FlagsOK'
    <2>1. UNCHANGED <<delimited, throttled>> /\ alive' \in BOOLEAN
      BY DEF Reply, acceptVars, FlagsOK
    <2>2. cut' \in [Conns -> BOOLEAN]
      <3>1. \/ cut' = cut
            \/ \E d \in Conns, b \in BOOLEAN : cut' = [cut EXCEPT ![d] = b]
        <4>1. slots[i] # NoConn => slots[i] \in Conns
          BY <1>1 DEF TableOK
        <4>. QED BY <4>1 DEF Reply, send, sendWhole, sendFails
      <3>. QED BY <3>1 DEF FlagsOK
    <2>. QED BY <2>1, <2>2 DEF FlagsOK
  <1>4. OwnRequests'
    BY <1>2 DEF OwnRequests
  <1>5. CASE held.kind \in {"object", "malformed"} /\ send(held) /\ nextSlot
    <2>1. pc' = "check" /\ i' = i + 1 /\ held' = NoRequest
      BY <1>5 DEF nextSlot
    <2>2. HeldFrom'
      BY <2>1 DEF HeldFrom
    <2>3. CASE slots[i] = NoConn
      <3>1. UNCHANGED <<slots, replies>>
        BY <1>5, <2>3 DEF send
      <3>2. TableOK'
        BY <1>1, <1>2, <2>1, <3>1 DEF TableOK
      <3>3. BuffersOK' /\ StrayOnlyFromClosed'
        BY <1>2, <2>1, <3>1 DEF BuffersOK, StrayOnlyFromClosed
      <3>4. EveryClientVisited' /\ SlotChosen' /\ Connected'
        BY <1>2, <3>1 DEF EveryClientVisited, SlotChosen, Connected
      <3>. QED BY <1>3, <1>4, <2>2, <3>2, <3>3, <3>4
    <2>4. CASE slots[i] # NoConn
      <3>. DEFINE d == slots[i]
      <3>1. d \in Conns /\ replies[d] \in Seq(Request)
        BY <1>1, <2>4 DEF TableOK, BuffersOK
      <3>2. /\ replies' = replies \/ replies' = [replies EXCEPT ![d] = Append(@, held)]
            /\ \/ slots' = slots
               \/ ~isConnected(d) /\ slots' = [slots EXCEPT ![i] = NoConn]
        BY <1>5, <2>4 DEF send, sendWhole, sendFails
      <3>3. /\ slots' \in [Slot -> Conns \cup {NoConn}]
            /\ EveryClientVisited' /\ SlotChosen' /\ Connected'
        <4>1. CASE slots' = slots
          BY <1>2, <4>1 DEF EveryClientVisited, SlotChosen, Connected, TableOK
        <4>2. CASE ~isConnected(d) /\ slots' = [slots EXCEPT ![i] = NoConn]
          BY <1>1, <1>2, <4>2, EmptySlot DEF isClientConnected
        <4>. QED BY <3>2, <4>1, <4>2
      <3>4. TableOK'
        BY <1>1, <1>2, <2>1, <3>3 DEF TableOK
      <3>5. BuffersOK'
        <4>1. Append(replies[d], held) \in Seq(Request)
          BY <1>1, <3>1, AppendProperties
        <4>2. replies' \in [Conns -> Seq(Request)]
          BY <3>1, <3>2, <4>1 DEF BuffersOK
        <4>. QED BY <1>2, <2>1, <4>2 DEF BuffersOK
      <3>6. StrayOnlyFromClosed'
        <4>1. CASE replies' = replies
          BY <1>2, <4>1 DEF StrayOnlyFromClosed
        <4>2. CASE replies' = [replies EXCEPT ![d] = Append(@, held)]
          <5>1. held.from # d => peer[held.from] = "closed"
            BY <1>1, <2>4 DEF HeldFrom
          <5>2. /\ replies'[d] = Append(replies[d], held)
                /\ \A e \in Conns \ {d} : replies'[e] = replies[e]
            BY <3>1, <4>2 DEF BuffersOK
          <5>3. /\ Len(Append(replies[d], held)) = Len(replies[d]) + 1
                /\ \A k \in 1 .. Len(replies[d]) : Append(replies[d], held)[k] = replies[d][k]
                /\ Append(replies[d], held)[Len(replies[d]) + 1] = held
            BY <1>1, <3>1, AppendProperties
          <5>4. \A k \in 1 .. Len(replies'[d]) :
                    replies'[d][k].from # d => peer[replies'[d][k].from] = "closed"
            BY <3>1, <5>1, <5>2, <5>3 DEF StrayOnlyFromClosed
          <5>5. ASSUME NEW e \in Conns, NEW k \in 1 .. Len(replies'[e])
                PROVE  replies'[e][k].from # e => peer[replies'[e][k].from] = "closed"
            <6>1. CASE e = d
              BY <5>4, <5>5, <6>1
            <6>2. CASE e # d
              BY <5>2, <5>5, <6>2 DEF StrayOnlyFromClosed
            <6>. QED BY <6>1, <6>2
          <5>. QED BY <1>2, <5>5 DEF StrayOnlyFromClosed
        <4>. QED BY <3>2, <4>1, <4>2
      <3>. QED BY <1>3, <1>4, <2>2, <3>3, <3>4, <3>5, <3>6
    <2>. QED BY <2>3, <2>4
  <1>6. CASE held.kind = "array" /\ nextSlot /\ UNCHANGED <<slots, replies, cut, alive>>
    <2>1. UNCHANGED <<peerVars, bufferVars, acceptVars, throttled>>
      BY DEF Reply
    <2>2. pc' = "check" /\ i' = i + 1 /\ held' = NoRequest
      BY <1>6 DEF nextSlot
    <2>3. TableOK'
      BY <1>1, <1>2, <1>6, <2>2 DEF TableOK
    <2>4. BuffersOK' /\ StrayOnlyFromClosed' /\ HeldFrom'
      BY <1>2, <1>6, <2>2 DEF BuffersOK, StrayOnlyFromClosed, HeldFrom
    <2>5. EveryClientVisited' /\ SlotChosen' /\ Connected'
      BY <1>2, <1>6 DEF EveryClientVisited, SlotChosen, Connected
    <2>. QED BY <1>3, <1>4, <2>3, <2>4, <2>5
  <1>7. CASE held.kind = "fatal" /\ UNCHANGED <<pc, i, held, slots, replies, cut>>
    <2>1. TableOK'
      BY <1>2, <1>7 DEF TableOK
    <2>2. BuffersOK' /\ StrayOnlyFromClosed' /\ HeldFrom'
      BY <1>2, <1>7 DEF BuffersOK, StrayOnlyFromClosed, HeldFrom
    <2>3. EveryClientVisited' /\ SlotChosen' /\ Connected'
      BY <1>2, <1>7 DEF EveryClientVisited, SlotChosen, Connected
    <2>. QED BY <1>3, <1>4, <2>1, <2>2, <2>3
  <1>. QED BY <1>5, <1>6, <1>7 DEF Reply

-----------------------------------------------------------------------------
\* Every step keeps the invariant.
LEMMA NextInv == Inv /\ [Next]_vars => Inv'
  <1>. SUFFICES ASSUME Inv, [Next]_vars PROVE Inv'
    OBVIOUS
  <1>1. ASSUME NEW c \in Conns, PeerConnects(c) PROVE Inv'
    BY <1>1, PeerMoves DEF PeerConnects
  <1>2. ASSUME NEW c \in Conns, PeerCloses(c) PROVE Inv'
    BY <1>2, PeerMoves DEF PeerCloses
  <1>3. ASSUME NEW c \in Conns, Accept(c) PROVE Inv'
    BY <1>3, AcceptInv
  <1>4. ASSUME NEW c \in Conns, NEW k \in Kinds[c], PeerSends(c, k) PROVE Inv'
    BY <1>4, PeerSendsInv
  <1>5. CASE ScanSlot \/ DropClients
    BY <1>5, ScanSlotInv, DropClientsInv
  <1>6. CASE SetDelimiter \/ IntervalPasses \/ Update \/ Check
    BY <1>6, LoopInv
  <1>7. CASE Receive \/ Reply
    BY <1>7, ReceiveInv, ReplyInv
  <1>8. CASE UNCHANGED vars
    <2>1. UNCHANGED <<peer, sent, wire, tmpStr, delimited, accepted, idCount, apc, acceptId,
                      slots, pc, i, held, throttled, replies, cut, alive>>
      BY <1>8 DEF vars, peerVars, bufferVars, acceptVars, mainVars
    <2>2. FlagsOK'
      BY <2>1 DEF Inv, FlagsOK
    <2>3. TableOK' /\ BuffersOK'
      BY <2>1 DEF Inv, TableOK, BuffersOK
    <2>4. EveryClientVisited' /\ SlotChosen' /\ Connected'
      BY <2>1 DEF Inv, EveryClientVisited, SlotChosen, Connected
    <2>5. OwnRequests' /\ HeldFrom' /\ StrayOnlyFromClosed'
      BY <2>1 DEF Inv, OwnRequests, HeldFrom, StrayOnlyFromClosed
    <2>. QED BY <2>2, <2>3, <2>4, <2>5 DEF Inv
  <1>. QED BY <1>1, <1>2, <1>3, <1>4, <1>5, <1>6, <1>7, <1>8 DEF Next

(* The invariant holds, for every limit and every set of peers.            *)
THEOREM InvHolds == Spec => []Inv
  BY InitInv, NextInv, PTL DEF Spec

(* Types, and the bounds of the table and its indices                      *)
(* (ofxTCPServer.cpp threadedFunction, TCP.h update).                      *)
THEOREM TypeCorrect == Spec => []TypeOK
  <1>1. Inv => TypeOK
    BY DEF Inv, TypeOK
  <1>. QED BY <1>1, InvHolds, PTL

(* update's loop over getLastID reaches every client, however slots were   *)
(* reused (TCP.h update; ofxTCPServer.cpp threadedFunction).               *)
THEOREM AllVisited == Spec => []EveryClientVisited
  <1>1. Inv => EveryClientVisited
    BY DEF Inv
  <1>. QED BY <1>1, InvHolds, PTL

(* An answer goes astray only after its asker closed: receive and send of  *)
(* one turn of update's loop name the slot, not the connection (TCP.h:69). *)
THEOREM StraysFromClosed == Spec => []StrayOnlyFromClosed
  <1>1. Inv => StrayOnlyFromClosed
    BY DEF Inv
  <1>. QED BY <1>1, InvHolds, PTL

(* No live client loses its slot to a new one, or to a failed receive or   *)
(* send, though the accepting thread chose the slot before it blocked      *)
(* (ofxTCPServer.cpp threadedFunction).                                    *)
THEOREM LiveClientsKept == Spec => AcceptKeepsClients
  <1>. DEFINE Kept == \A s \in Slot : /\ slots[s] # NoConn /\ peer[slots[s]] = "open"
                                      /\ apc' # "ended"
                                      => slots'[s] = slots[s]
  <1>1. Inv /\ [Next]_vars => [Kept]_vars
    <2>. SUFFICES ASSUME Inv, Next, NEW s \in Slot,
                         slots[s] # NoConn, peer[slots[s]] = "open", apc' # "ended"
                  PROVE  slots'[s] = slots[s]
      BY Zenon
    <2>. USE DEF Inv
    <2>1. isClientConnected(s) /\ isConnected(slots[s])
      BY DEF isClientConnected, isConnected
    <2>2. ASSUME NEW c \in Conns, Accept(c) PROVE slots'[s] = slots[s]
      <3>1. apc = "accept" /\ slots' = [slots EXCEPT ![acceptId] = c]
        BY <2>2 DEF Accept
      <3>2. s # acceptId
        BY <3>1 DEF SlotChosen
      <3>. QED BY <3>1, <3>2 DEF TableOK
    <2>3. CASE Receive
      <3>1. CASE ReceiveGone
        BY <2>1, <3>1 DEF ReceiveGone, TableOK
      <3>. QED BY <2>3, <3>1 DEF Receive, ReceiveNothing, ReceiveUndelimited,
                                 ReceiveBuffered, ReceiveFresh
    <2>4. CASE Reply
      <3>1. \/ slots' = slots
            \/ /\ slots[i] # NoConn /\ ~isConnected(slots[i])
               /\ slots' = [slots EXCEPT ![i] = NoConn]
        BY <2>4 DEF Reply, send
      <3>. QED BY <2>1, <3>1 DEF TableOK
    <2>5. CASE DropClients
      BY <2>5 DEF DropClients
    <2>6. CASE ScanSlot \/ SetDelimiter \/ IntervalPasses \/ Update \/ Check
      BY <2>6 DEF ScanSlot, SetDelimiter, IntervalPasses, Update, Check
    <2>7. ASSUME NEW c \in Conns, \/ PeerConnects(c) \/ PeerCloses(c)
                                  \/ \E k \in Kinds[c] : PeerSends(c, k)
          PROVE  slots'[s] = slots[s]
      BY <2>7 DEF PeerConnects, PeerCloses, PeerSends
    <2>. QED BY <2>2, <2>3, <2>4, <2>5, <2>6, <2>7 DEF Next
  <1>2. Spec => [][Next]_vars
    BY PTL DEF Spec
  <1>. QED BY <1>1, <1>2, InvHolds, PTL DEF AcceptKeepsClients

-----------------------------------------------------------------------------
(* The order of the answers.  A peer's requests are numbered as it writes  *)
(* them; the socket's buffer follows tmpStr, tmpStr follows the request    *)
(* the main thread holds, and that one follows all that were answered.     *)

\* The requests of s are in the order they were written; all come after the m-th.
Rising(s) == \A j, k \in 1 .. Len(s) : j < k => s[j].n < s[k].n
Above(m, s) == \A k \in 1 .. Len(s) : m < s[k].n

\* What the answers rs hold of the peer's requests came before its m-th.
AnsweredBefore(rs, c, m) ==
    \A d \in Conns : \A j \in 1 .. Len(rs[d]) : rs[d][j].from = c => rs[d][j].n < m

\* The requests of s are among the first top, and rs answers none of them or of later ones.
Waiting(rs, top, c, s) ==
    \A k \in 1 .. Len(s) : s[k].n <= top /\ AnsweredBefore(rs, c, s[k].n)

\* The buffers w and t of a connection.
Lined(rs, top, c, w, t) ==
    /\ Rising(w) /\ Rising(t)
    /\ \A j \in 1 .. Len(t) : Above(t[j].n, w)
    /\ Waiting(rs, top, c, w) /\ Waiting(rs, top, c, t)

\* Every connection's buffers are in order, and nothing in them was answered.
BuffersInOrder == \A c \in Conns : Lined(replies, sent[c], c, wire[c], tmpStr[c])

\* The request the main thread holds comes after the answered and before the waiting.
HeldIsNext ==
    pc = "reply" =>
        /\ held.n <= sent[held.from]
        /\ AnsweredBefore(replies, held.from, held.n)
        /\ Above(held.n, wire[held.from]) /\ Above(held.n, tmpStr[held.from])

\* No answer to what was not asked: a request still to be written will be new.
AnsweredWereSent ==
    \A d \in Conns : \A j \in 1 .. Len(replies[d]) :
        replies[d][j].n <= sent[replies[d][j].from]

\* The inductive invariant, together with Inv.
OrderInv == BuffersInOrder /\ HeldIsNext /\ AnsweredWereSent /\ AnsweredOnceInOrder

\* A request of a sequence of requests has a number and a sender.
LEMMA RequestParts ==
    ASSUME NEW s \in Seq(Request), NEW j \in 1 .. Len(s)
    PROVE  s[j] \in Request /\ s[j].n \in Nat /\ s[j].from \in Conns
  <1>1. s[j] \in Request
    OBVIOUS
  <1>. QED BY <1>1 DEF Request

\* The types of the buffers, one connection at a time.
LEMMA BufferTypes ==
    ASSUME Inv, NEW c \in Conns
    PROVE  /\ sent[c] \in Nat
           /\ wire[c] \in Seq(Request) /\ tmpStr[c] \in Seq(Request) /\ replies[c] \in Seq(Request)
           /\ Len(wire[c]) \in Nat /\ Len(tmpStr[c]) \in Nat /\ Len(replies[c]) \in Nat
  BY DEF Inv, BuffersOK

\* No request was written at the start.
LEMMA InitOrder == Init => OrderInv
  <1>. SUFFICES ASSUME Init PROVE OrderInv
    OBVIOUS
  <1>1. \A c \in Conns : wire[c] = <<>> /\ tmpStr[c] = <<>> /\ replies[c] = <<>>
    BY DEF Init
  <1>2. 1 .. Len(<<>>) = {}
    OBVIOUS
  <1>3. \A rs, top, c : Lined(rs, top, c, <<>>, <<>>)
    BY <1>2 DEF Lined, Rising, Above, Waiting
  <1>4. BuffersInOrder
    BY <1>1, <1>3 DEF BuffersInOrder
  <1>5. HeldIsNext
    BY DEF Init, HeldIsNext
  <1>6. AnsweredWereSent /\ AnsweredOnceInOrder
    BY <1>1, <1>2 DEF AnsweredWereSent, AnsweredOnceInOrder
  <1>. QED BY <1>4, <1>5, <1>6 DEF OrderInv

\* Steps that neither move a request nor take one up.
LEMMA RequestsStay ==
    ASSUME OrderInv, UNCHANGED <<sent, wire, tmpStr, replies>>,
           pc' = "reply" => pc = "reply" /\ held' = held
    PROVE  OrderInv'
  <1>1. BuffersInOrder' /\ HeldIsNext'
    BY DEF OrderInv, BuffersInOrder, HeldIsNext
  <1>2. AnsweredWereSent' /\ AnsweredOnceInOrder'
    BY DEF OrderInv, AnsweredWereSent, AnsweredOnceInOrder
  <1>. QED BY <1>1, <1>2 DEF OrderInv

\* A new request comes after every other of its peer.
LEMMA PeerSendsOrder ==
    ASSUME Inv, OrderInv, NEW c \in Conns, NEW k \in Kinds[c], PeerSends(c, k)
    PROVE  OrderInv'
  <1>. DEFINE r == [from |-> c, n |-> sent[c] + 1, kind |-> k]
  <1>1. /\ sent' = [sent EXCEPT ![c] = @ + 1]
        /\ wire' = [wire EXCEPT ![c] = Append(@, r)]
        /\ UNCHANGED <<tmpStr, pc, held, replies>>
    BY Zenon DEF PeerSends, acceptVars, mainVars
  <1>2. r \in Request /\ r.n = sent[c] + 1
    <2>1. k \in {"object", "malformed", "array", "fatal"}
      BY ServerAssumption
    <2>. QED BY <2>1, BufferTypes DEF Request
  <1>. HIDE DEF r
  <1>3. /\ sent'[c] = sent[c] + 1
        /\ \A d \in Conns \ {c} : sent'[d] = sent[d] /\ wire'[d] = wire[d]
        /\ \A d \in Conns : sent'[d] \in Nat /\ sent[d] <= sent'[d]
    BY <1>1 DEF Inv, BuffersOK
  <1>4. /\ wire'[c] = Append(wire[c], r)
        /\ Len(wire'[c]) = Len(wire[c]) + 1
        /\ \A j \in 1 .. Len(wire[c]) : wire'[c][j] = wire[c][j]
        /\ wire'[c][Len(wire[c]) + 1] = r
    <2>1. wire'[c] = Append(wire[c], r)
      BY <1>1 DEF Inv, BuffersOK
    <2>. QED BY <1>2, <2>1, BufferTypes, AppendProperties
  <1>5. AnsweredBefore(replies, c, sent[c] + 1)
    <2>. SUFFICES ASSUME NEW d \in Conns, NEW j \in 1 .. Len(replies[d]), replies[d][j].from = c
                  PROVE  replies[d][j].n < sent[c] + 1
      BY DEF AnsweredBefore
    <2>. QED BY BufferTypes, RequestParts DEF OrderInv, AnsweredWereSent
  <1>6. AnsweredWereSent'
    <2>. SUFFICES ASSUME NEW d \in Conns, NEW j \in 1 .. Len(replies[d])
                  PROVE  replies[d][j].n <= sent'[replies[d][j].from]
      BY <1>1 DEF AnsweredWereSent
    <2>1. replies[d][j].n \in Nat /\ replies[d][j].from \in Conns
      BY BufferTypes, RequestParts
    <2>. QED BY <1>3, <2>1, BufferTypes DEF OrderInv, AnsweredWereSent
  <1>7. AnsweredOnceInOrder'
    BY <1>1 DEF OrderInv, AnsweredOnceInOrder
  <1>8. ASSUME NEW m \in Nat, m <= sent[c], Above(m, wire[c])
        PROVE  Above(m, wire'[c])
    <2>. SUFFICES ASSUME NEW j \in 1 .. Len(wire'[c]) PROVE m < wire'[c][j].n
      BY DEF Above
    <2>. QED BY <1>2, <1>4, <1>8, BufferTypes DEF Above
  <1>9. BuffersInOrder'
    <2>. SUFFICES ASSUME NEW d \in Conns PROVE Lined(replies, sent'[d], d, wire'[d], tmpStr[d])
      BY <1>1 DEF BuffersInOrder
    <2>1. Lined(replies, sent[d], d, wire[d], tmpStr[d])
      BY DEF OrderInv, BuffersInOrder
    <2>2. CASE d # c
      BY <1>3, <2>1, <2>2
    <2>3. CASE d = c
      <3>1. Rising(wire'[c])
        <4>. SUFFICES ASSUME NEW j \in 1 .. Len(wire'[c]), NEW l \in 1 .. Len(wire'[c]), j < l
                      PROVE  wire'[c][j].n < wire'[c][l].n
          BY DEF Rising
        <4>1. j \in 1 .. Len(wire[c]) /\ wire'[c][j] = wire[c][j] /\ wire[c][j].n \in Nat
          BY <1>4, BufferTypes, RequestParts
        <4>2. CASE l \in 1 .. Len(wire[c])
          BY <1>4, <2>1, <2>3, <4>1, <4>2 DEF Lined, Rising
        <4>3. CASE l = Len(wire[c]) + 1
          BY <1>2, <1>4, <2>1, <2>3, <4>1, <4>3, BufferTypes DEF Lined, Waiting
        <4>. QED BY <1>4, <4>2, <4>3, BufferTypes
      <3>2. \A j \in 1 .. Len(tmpStr[c]) : Above(tmpStr[c][j].n, wire'[c])
        BY <1>8, <2>1, <2>3, BufferTypes, RequestParts DEF Lined, Waiting
      <3>3. Waiting(replies, sent'[c], c, wire'[c])
        <4>. SUFFICES ASSUME NEW j \in 1 .. Len(wire'[c])
                      PROVE  wire'[c][j].n <= sent'[c] /\ AnsweredBefore(replies, c, wire'[c][j].n)
          BY DEF Waiting
        <4>1. CASE j \in 1 .. Len(wire[c])
          BY <1>3, <1>4, <2>1, <2>3, <4>1, BufferTypes, RequestParts DEF Lined, Waiting
        <4>2. CASE j = Len(wire[c]) + 1
          BY <1>2, <1>3, <1>4, <1>5, <4>2, BufferTypes
        <4>. QED BY <1>4, <4>1, <4>2, BufferTypes
      <3>4. Waiting(replies, sent'[c], c, tmpStr[c])
        <4>. SUFFICES ASSUME NEW j \in 1 .. Len(tmpStr[c])
                      PROVE  tmpStr[c][j].n <= sent'[c] /\ AnsweredBefore(replies, c, tmpStr[c][j].n)
          BY DEF Waiting
        <4>1. tmpStr[c][j].n <= sent[c] /\ AnsweredBefore(replies, c, tmpStr[c][j].n)
          BY <2>1, <2>3 DEF Lined, Waiting
        <4>2. tmpStr[c][j].n \in Nat /\ sent[c] \in Nat
          BY BufferTypes, RequestParts
        <4>3. tmpStr[c][j].n <= sent'[c]
          BY <1>3, <4>1, <4>2
        <4>. QED BY <4>1, <4>3
      <3>. QED BY <2>1, <2>3, <3>1, <3>2, <3>3, <3>4 DEF Lined
    <2>. QED BY <2>2, <2>3
  <1>10. HeldIsNext'
    <2>. SUFFICES ASSUME pc = "reply"
                  PROVE  held.n <= sent'[held.from] /\ Above(held.n, wire'[held.from])
      BY <1>1 DEF OrderInv, HeldIsNext
    <2>1. held.n \in Nat /\ held.from \in Conns
      BY DEF Inv, HeldFrom, Request
    <2>2. held.n <= sent[held.from] /\ Above(held.n, wire[held.from])
      BY DEF OrderInv, HeldIsNext
    <2>. QED BY <1>3, <1>8, <2>1, <2>2, BufferTypes
  <1>. QED BY <1>6, <1>7, <1>9, <1>10 DEF OrderInv

(* receive: the request taken up precedes all that stay in the buffers w   *)
(* and t, which are what is left of the connection's own.                  *)
LEMMA TakeUp ==
    ASSUME Inv, OrderInv, NEW c \in Conns, NEW w, NEW t,
           wire' = [wire EXCEPT ![c] = w], tmpStr' = [tmpStr EXCEPT ![c] = t],
           Lined(replies, sent[c], c, w, t),
           UNCHANGED <<sent, replies>>,
           pc' = "reply" => /\ held'.from = c
                            /\ held'.n <= sent[c] /\ AnsweredBefore(replies, c, held'.n)
                            /\ Above(held'.n, w) /\ Above(held'.n, t)
    PROVE  OrderInv'
  <1>1. /\ wire'[c] = w /\ tmpStr'[c] = t
        /\ \A d \in Conns \ {c} : wire'[d] = wire[d] /\ tmpStr'[d] = tmpStr[d]
    BY DEF Inv, BuffersOK
  <1>2. BuffersInOrder'
    BY <1>1 DEF OrderInv, BuffersInOrder
  <1>3. HeldIsNext'
    BY <1>1 DEF HeldIsNext
  <1>4. AnsweredWereSent' /\ AnsweredOnceInOrder'
    BY DEF OrderInv, AnsweredWereSent, AnsweredOnceInOrder
  <1>. QED BY <1>2, <1>3, <1>4 DEF OrderInv

(* A part u of the requests s, in the same order, is as ordered as they    *)
(* are: the k-th of u is the (k + o)-th of s.                              *)
LEMMA PartOrdered ==
    ASSUME NEW s \in Seq(Request), NEW u \in Seq(Request), NEW o \in Nat,
           Len(u) + o <= Len(s),
           \A k \in 1 .. Len(u) : u[k] = s[k + o]
    PROVE  /\ Rising(s) => Rising(u)
           /\ \A m \in Nat : Above(m, s) => Above(m, u)
           /\ \A rs, top, c : Waiting(rs, top, c, s) => Waiting(rs, top, c, u)
           /\ \A m \in 1 .. o : Rising(s) => Above(s[m].n, u)
  <1>1. Len(s) \in Nat /\ Len(u) \in Nat
    OBVIOUS
  <1>2. \A k \in 1 .. Len(u) : k + o \in 1 .. Len(s)
    BY <1>1
  <1>3. Rising(s) => Rising(u)
    <2>. SUFFICES ASSUME Rising(s), NEW j \in 1 .. Len(u), NEW k \in 1 .. Len(u), j < k
                  PROVE  u[j].n < u[k].n
      BY DEF Rising
    <2>1. j + o < k + o /\ u[j] = s[j + o] /\ u[k] = s[k + o]
      BY <1>1
    <2>. QED BY <1>2, <2>1 DEF Rising
  <1>4. \A m \in Nat : Above(m, s) => Above(m, u)
    BY <1>2 DEF Above
  <1>5. \A rs, top, c : Waiting(rs, top, c, s) => Waiting(rs, top, c, u)
    BY <1>2 DEF Waiting
  <1>6. \A m \in 1 .. o : Rising(s) => Above(s[m].n, u)
    <2>. SUFFICES ASSUME NEW m \in 1 .. o, Rising(s), NEW k \in 1 .. Len(u)
                  PROVE  s[m].n < u[k].n
      BY DEF Above
    <2>1. m < k + o /\ m \in 1 .. Len(s) /\ u[k] = s[k + o]
      BY <1>1
    <2>. QED BY <1>2, <2>1 DEF Rising
  <1>. QED BY <1>3, <1>4, <1>5, <1>6

\* The empty buffer is in order.
LEMMA EmptyOrdered ==
    /\ Rising(<<>>)
    /\ \A m : Above(m, <<>>)
    /\ \A rs, top, c : Waiting(rs, top, c, <<>>)
  <1>1. 1 .. Len(<<>>) = {}
    OBVIOUS
  <1>. QED BY <1>1 DEF Rising, Above, Waiting

(* The next line is the oldest: tmpStr's first, or if it is empty the      *)
(* socket's, whose following lines go to tmpStr and the rest stays.        *)
LEMMA ReceiveOrder ==
    ASSUME Inv, OrderInv, Receive
    PROVE  OrderInv'
  <1>1. pc = "receive" /\ i \in Slot
    BY DEF Receive, Inv, HeldFrom
  <1>2. UNCHANGED <<sent, replies>>
    BY DEF Receive, peerVars
  <1>3. CASE ReceiveGone \/ ReceiveNothing
    BY <1>2, <1>3, RequestsStay DEF ReceiveGone, ReceiveNothing, nextSlot, bufferVars
  <1>. DEFINE c == slots[i]
  <1>. DEFINE w == wire[c]
  <1>. DEFINE t == tmpStr[c]
  <1>4. ASSUME isClientConnected(i)
        PROVE  /\ c \in Conns /\ w \in Seq(Request) /\ t \in Seq(Request)
               /\ Len(w) \in Nat /\ Len(t) \in Nat
               /\ Lined(replies, sent[c], c, w, t)
               /\ \A k \in 1 .. Len(w) : w[k].from = c /\ w[k].n \in Nat
               /\ \A k \in 1 .. Len(t) : t[k].from = c /\ t[k].n \in Nat
    <2>1. c \in Conns
      BY <1>1, <1>4 DEF isClientConnected, Inv, TableOK
    <2>2. /\ w \in Seq(Request) /\ t \in Seq(Request)
          /\ Len(w) \in Nat /\ Len(t) \in Nat
      BY <2>1, BufferTypes
    <2>3. /\ \A k \in 1 .. Len(w) : w[k].from = c
          /\ \A k \in 1 .. Len(t) : t[k].from = c
      BY <2>1 DEF Inv, OwnRequests
    <2>4. Lined(replies, sent[c], c, w, t)
      BY <2>1 DEF OrderInv, BuffersInOrder
    <2>. QED BY <2>1, <2>2, <2>3, <2>4, RequestParts
  <1>5. CASE ReceiveUndelimited
    <2>1. /\ isClientConnected(i)
          /\ wire' = [wire EXCEPT ![c] = <<>>]
          /\ pc' = "check"
          /\ tmpStr' = tmpStr
      BY <1>5 DEF ReceiveUndelimited, nextSlot
    <2>2. tmpStr' = [tmpStr EXCEPT ![c] = t]
      BY <2>1 DEF Inv, BuffersOK
    <2>3. Lined(replies, sent[c], c, <<>>, t)
      BY <1>4, <2>1, EmptyOrdered DEF Lined
    <2>. QED BY <1>2, <1>4, <2>1, <2>2, <2>3, TakeUp
  <1>6. CASE ReceiveBuffered
    <2>. DEFINE u == Tail(t)
    <2>1. /\ isClientConnected(i)
          /\ t # <<>>
          /\ held' = Head(t)
          /\ tmpStr' = [tmpStr EXCEPT ![c] = u]
          /\ wire' = wire
      BY <1>6 DEF ReceiveBuffered
    <2>2. /\ Head(t) = t[1] /\ Len(t) >= 1
          /\ u \in Seq(Request)
          /\ Len(u) = Len(t) - 1
          /\ \A k \in 1 .. Len(u) : u[k] = t[k + 1]
      BY <1>4, <2>1, HeadTailProperties
    <2>. HIDE DEF u
    <2>3. /\ Rising(u) /\ Waiting(replies, sent[c], c, u) /\ Above(t[1].n, u)
      <3>1. Len(u) + 1 <= Len(t) /\ 1 \in 1 .. 1
        BY <1>4, <2>1, <2>2
      <3>. QED BY <1>4, <2>1, <2>2, <3>1, PartOrdered DEF Lined
    <2>4. \A k \in 1 .. Len(u) : Above(u[k].n, w)
      <3>1. \A j \in 1 .. Len(t) : Above(t[j].n, w)
        BY <1>4, <2>1 DEF Lined
      <3>2. \A k \in 1 .. Len(u) : k + 1 \in 1 .. Len(t)
        BY <1>4, <2>1, <2>2
      <3>. QED BY <2>2, <3>1, <3>2
    <2>5. Lined(replies, sent[c], c, w, u)
      BY <1>4, <2>1, <2>3, <2>4 DEF Lined
    <2>6. /\ held'.from = c
          /\ held'.n <= sent[c] /\ AnsweredBefore(replies, c, held'.n)
          /\ Above(held'.n, w)
      <3>1. 1 \in 1 .. Len(t) /\ held' = t[1]
        BY <1>4, <2>1, <2>2
      <3>. QED BY <1>4, <2>1, <3>1 DEF Lined, Waiting
    <2>7. wire' = [wire EXCEPT ![c] = w]
      BY <2>1 DEF Inv, BuffersOK
    <2>. QED BY <1>2, <1>4, <2>1, <2>2, <2>3, <2>5, <2>6, <2>7, TakeUp
  <1>7. CASE ReceiveFresh
    <2>1. /\ isClientConnected(i)
          /\ w # <<>> /\ t = <<>>
          /\ held' = Head(w)
      BY <1>7 DEF ReceiveFresh
    <2>2. PICK n \in 1 .. Len(w) :
              /\ tmpStr' = [tmpStr EXCEPT ![c] = SubSeq(w, 2, n)]
              /\ wire' = [wire EXCEPT ![c] = SubSeq(w, n + 1, Len(w))]
      BY <1>7 DEF ReceiveFresh
    <2>. DEFINE x == SubSeq(w, n + 1, Len(w))
    <2>. DEFINE u == SubSeq(w, 2, n)
    <2>3. Head(w) = w[1] /\ Len(w) >= 1 /\ n \in Nat /\ n <= Len(w) /\ 1 <= n
      BY <1>4, <2>1, <2>2, HeadTailProperties
    <2>4. /\ u \in Seq(Request) /\ Len(u) = n - 1
          /\ \A k \in 1 .. Len(u) : u[k] = w[k + 1]
      <3>1. CASE 2 <= n
        <4>1. /\ u \in Seq(Request) /\ Len(u) = n - 2 + 1
              /\ \A k \in 1 .. (n - 2 + 1) : u[k] = w[2 + k - 1]
          BY <1>4, <2>1, <2>3, <3>1, SubSeqProperties
        <4>. QED BY <2>3, <4>1
      <3>2. CASE n = 1
        BY <1>4, <2>1, <3>2
      <3>. QED BY <2>3, <3>1, <3>2
    <2>5. /\ x \in Seq(Request) /\ Len(x) = Len(w) - n
          /\ \A k \in 1 .. Len(x) : x[k] = w[k + n]
      <3>1. CASE n + 1 <= Len(w)
        <4>1. /\ x \in Seq(Request) /\ Len(x) = Len(w) - (n + 1) + 1
              /\ \A k \in 1 .. (Len(w) - (n + 1) + 1) : x[k] = w[(n + 1) + k - 1]
          BY <1>4, <2>1, <2>3, <3>1, SubSeqProperties
        <4>. QED BY <1>4, <2>1, <2>3, <4>1
      <3>2. CASE n = Len(w)
        BY <1>4, <2>1, <3>2
      <3>. QED BY <1>4, <2>1, <2>3, <3>1, <3>2
    <2>. HIDE DEF x, u
    <2>6. /\ Rising(w) /\ Waiting(replies, sent[c], c, w)
      BY <1>4, <2>1 DEF Lined
    <2>7. Rising(u) /\ Waiting(replies, sent[c], c, u) /\ Above(w[1].n, u)
      <3>1. Len(u) + 1 <= Len(w) /\ 1 \in 1 .. 1
        BY <1>4, <2>1, <2>3, <2>4
      <3>. QED BY <1>4, <2>1, <2>4, <2>6, <3>1, PartOrdered
    <2>8. /\ Rising(x) /\ Waiting(replies, sent[c], c, x)
          /\ \A m \in 1 .. n : Above(w[m].n, x)
      <3>1. Len(x) + n <= Len(w)
        BY <1>4, <2>1, <2>3, <2>5
      <3>. QED BY <1>4, <2>1, <2>3, <2>5, <2>6, <3>1, PartOrdered
    <2>9. \A k \in 1 .. Len(u) : Above(u[k].n, x)
      <3>1. \A k \in 1 .. Len(u) : k + 1 \in 1 .. n
        BY <2>3, <2>4
      <3>. QED BY <2>4, <2>8, <3>1
    <2>10. Lined(replies, sent[c], c, x, u)
      BY <2>7, <2>8, <2>9 DEF Lined
    <2>11. /\ held'.from = c
           /\ held'.n <= sent[c] /\ AnsweredBefore(replies, c, held'.n)
           /\ Above(held'.n, x) /\ Above(held'.n, u)
      <3>1. 1 \in 1 .. Len(w) /\ 1 \in 1 .. n
        BY <1>4, <2>1, <2>3
      <3>. QED BY <1>4, <2>1, <2>3, <2>6, <2>7, <2>8, <3>1 DEF Waiting
    <2>12. /\ tmpStr' = [tmpStr EXCEPT ![c] = u]
           /\ wire' = [wire EXCEPT ![c] = x]
      BY <2>2 DEF u, x
    <2>. QED BY <1>2, <1>4, <2>1, <2>10, <2>11, <2>12, TakeUp
  <1>. QED BY <1>3, <1>5, <1>6, <1>7 DEF Receive

(* The answer: the request that was held is the newest answered of its     *)
(* peer, whoever gets it, and older than all that wait.                    *)
LEMMA ReplyOrder ==
    ASSUME Inv, OrderInv, Reply
    PROVE  OrderInv'
  <1>1. pc = "reply" /\ i \in Slot /\ held \in Request /\ held.n \in Nat /\ held.from \in Conns
    BY DEF Reply, Inv, HeldFrom, Request
  <1>2. UNCHANGED <<sent, wire, tmpStr>>
    BY DEF Reply, peerVars, bufferVars
  <1>3. pc' = "check" \/ (pc' = pc /\ held' = held)
    BY DEF Reply, nextSlot
  <1>4. CASE replies' = replies
    BY <1>2, <1>3, <1>4, RequestsStay
  <1>5. CASE replies' # replies
    <2>. DEFINE d == slots[i]
    <2>. DEFINE l == Len(replies[d]) + 1
    <2>1. d # NoConn /\ replies' = [replies EXCEPT ![d] = Append(@, held)] /\ pc' = "check"
      BY <1>5 DEF Reply, send, sendWhole, sendFails, nextSlot
    <2>2. d \in Conns /\ replies[d] \in Seq(Request) /\ Len(replies[d]) \in Nat
      BY <1>1, <2>1, BufferTypes DEF Inv, TableOK
    <2>3. /\ replies'[d] = Append(replies[d], held)
          /\ \A e \in Conns \ {d} : replies'[e] = replies[e]
      BY <2>1, <2>2 DEF Inv, BuffersOK
    <2>4. /\ Len(replies'[d]) = l
          /\ \A j \in 1 .. Len(replies[d]) : replies'[d][j] = replies[d][j]
          /\ replies'[d][l] = held
      BY <1>1, <2>2, <2>3, AppendProperties
    <2>5. \A e \in Conns : \A j \in 1 .. Len(replies'[e]) :
             \/ e = d /\ j = l /\ replies'[e][j] = held
             \/ /\ j \in 1 .. Len(replies[e])
                /\ replies'[e][j] = replies[e][j]
                /\ replies[e][j] \in Request
                /\ replies[e][j].n \in Nat /\ replies[e][j].from \in Conns
                /\ e = d => j < l
      <3>. SUFFICES ASSUME NEW e \in Conns, NEW j \in 1 .. Len(replies'[e]),
                           ~(e = d /\ j = l)
                    PROVE  /\ j \in 1 .. Len(replies[e])
                           /\ replies'[e][j] = replies[e][j]
                           /\ e = d => j < l
        BY <2>4, BufferTypes, RequestParts
      <3>1. CASE e = d
        BY <2>2, <2>4, <3>1
      <3>2. CASE e # d
        BY <2>3, <3>2
      <3>. QED BY <3>1, <3>2
    <2>. HIDE DEF d, l
    <2>6. /\ held.n <= sent[held.from]
          /\ AnsweredBefore(replies, held.from, held.n)
          /\ Above(held.n, wire[held.from]) /\ Above(held.n, tmpStr[held.from])
      BY <1>1 DEF OrderInv, HeldIsNext
    <2>7. ASSUME NEW c \in Conns, NEW m \in Nat, AnsweredBefore(replies, c, m),
                 c = held.from => held.n < m
          PROVE  AnsweredBefore(replies', c, m)
      BY <2>5, <2>7 DEF AnsweredBefore
    <2>8. ASSUME NEW c \in Conns, NEW s \in Seq(Request), Waiting(replies, sent[c], c, s),
                 c = held.from => Above(held.n, s)
          PROVE  Waiting(replies', sent[c], c, s)
      <3>. SUFFICES ASSUME NEW k \in 1 .. Len(s)
                    PROVE  s[k].n <= sent[c] /\ AnsweredBefore(replies', c, s[k].n)
        BY DEF Waiting
      <3>1. s[k].n \in Nat /\ s[k].n <= sent[c] /\ AnsweredBefore(replies, c, s[k].n)
        BY <2>8, RequestParts DEF Waiting
      <3>2. c = held.from => held.n < s[k].n
        BY <2>8 DEF Above
      <3>. QED BY <2>7, <3>1, <3>2
    <2>9. BuffersInOrder'
      <3>. SUFFICES ASSUME NEW c \in Conns
                    PROVE  Lined(replies', sent[c], c, wire[c], tmpStr[c])
        BY <1>2 DEF BuffersInOrder
      <3>1. Lined(replies, sent[c], c, wire[c], tmpStr[c])
        BY DEF OrderInv, BuffersInOrder
      <3>. QED BY <2>6, <2>8, <3>1, BufferTypes DEF Lined
    <2>10. HeldIsNext'
      BY <2>1 DEF HeldIsNext
    <2>11. AnsweredWereSent'
      BY <1>2, <2>5, <2>6 DEF OrderInv, AnsweredWereSent
    <2>12. ASSUME NEW e \in Conns, NEW j \in 1 .. Len(replies[e])
           PROVE  /\ replies[e][j].from = held.from => replies[e][j].n < held.n
                  /\ replies[e][j] # held
      <3>1. replies[e][j].from = held.from => replies[e][j].n < held.n
        BY <2>6 DEF AnsweredBefore
      <3>2. ~(held.n < held.n)
        BY <1>1
      <3>. QED BY <3>1, <3>2
    <2>13. AnsweredOnceInOrder'
      <3>. SUFFICES ASSUME NEW a \in Conns, NEW e \in Conns,
                           NEW j \in 1 .. Len(replies'[a]), NEW k \in 1 .. Len(replies'[e])
                    PROVE  /\ replies'[a][j] = replies'[e][k] => a = e /\ j = k
                           /\ a = e /\ j < k /\ replies'[a][j].from = replies'[a][k].from
                                 => replies'[a][j].n < replies'[a][k].n
        BY DEF AnsweredOnceInOrder
      <3>1. CASE a = d /\ j = l /\ replies'[a][j] = held
        <4>1. CASE e = d /\ k = l
          BY <2>2, <3>1, <4>1 DEF l
        <4>2. CASE ~(e = d /\ k = l)
          <5>1. /\ k \in 1 .. Len(replies[e]) /\ replies'[e][k] = replies[e][k]
                /\ e = d => k < l
            BY <2>5, <4>2
          <5>2. replies'[e][k] # held
            BY <2>12, <5>1
          <5>3. ~(a = e /\ j < k)
            BY <2>2, <3>1, <5>1 DEF l
          <5>. QED BY <3>1, <5>2, <5>3
        <4>. QED BY <4>1, <4>2
      <3>2. CASE ~(a = d /\ j = l)
        <4>1. j \in 1 .. Len(replies[a]) /\ replies'[a][j] = replies[a][j]
          BY <2>5, <3>2
        <4>2. CASE e = d /\ k = l /\ replies'[e][k] = held
          BY <2>12, <4>1, <4>2
        <4>3. CASE ~(e = d /\ k = l)
          <5>1. k \in 1 .. Len(replies[e]) /\ replies'[e][k] = replies[e][k]
            BY <2>5, <4>3
          <5>. QED BY <4>1, <5>1 DEF OrderInv, AnsweredOnceInOrder
        <4>. QED BY <2>5, <4>2, <4>3
      <3>. QED BY <2>5, <3>1, <3>2
    <2>. QED BY <2>9, <2>10, <2>11, <2>13 DEF OrderInv
  <1>. QED BY <1>4, <1>5

\* Every step keeps the order.
LEMMA NextOrder == Inv /\ OrderInv /\ [Next]_vars => OrderInv'
  <1>. SUFFICES ASSUME Inv, OrderInv, [Next]_vars PROVE OrderInv'
    OBVIOUS
  <1>1. ASSUME NEW c \in Conns, PeerConnects(c) \/ PeerCloses(c) \/ Accept(c) PROVE OrderInv'
    BY <1>1, RequestsStay DEF PeerConnects, PeerCloses, Accept, peerVars, bufferVars, mainVars
  <1>2. ASSUME NEW c \in Conns, NEW k \in Kinds[c], PeerSends(c, k) PROVE OrderInv'
    BY <1>2, PeerSendsOrder
  <1>3. CASE ScanSlot \/ DropClients
    BY <1>3, RequestsStay DEF ScanSlot, DropClients, peerVars, bufferVars, mainVars
  <1>4. CASE SetDelimiter \/ IntervalPasses \/ Update
    BY <1>4, RequestsStay DEF SetDelimiter, IntervalPasses, Update, peerVars, bufferVars
  <1>5. CASE Check
    <2>1. pc' # "reply"
      BY <1>5 DEF Check
    <2>. QED BY <1>5, <2>1, RequestsStay DEF Check, peerVars, bufferVars
  <1>6. CASE Receive \/ Reply
    BY <1>6, ReceiveOrder, ReplyOrder
  <1>7. CASE UNCHANGED vars
    BY <1>7, RequestsStay DEF vars, peerVars, bufferVars, mainVars
  <1>. QED BY <1>1, <1>2, <1>3, <1>4, <1>5, <1>6, <1>7 DEF Next

(* No request is answered twice and each peer's are answered in the order  *)
(* it wrote them, through any split of the socket's bytes over reads       *)
(* (ofxTCPClient.cpp receive; TCP.h update), for any number of peers and   *)
(* of requests sent ahead.                                                 *)
THEOREM AnsweredInOrder == Spec => []AnsweredOnceInOrder
  <1>1. OrderInv => AnsweredOnceInOrder
    BY DEF OrderInv
  <1>. QED BY <1>1, InvHolds, InitOrder, NextOrder, PTL DEF Spec
=============================================================================
