----------------------------- MODULE ZmqPipeProofs -----------------------------
(***************************************************************************)
(* The safety of libzmq's pipe (module ZmqPipe), for any high water marks  *)
(* and any number of messages and parts: six theorems, one per invariant   *)
(* that the run of the pipe checks.                                        *)
(*                                                                         *)
(* None of these invariants is inductive: what a command may find when it  *)
(* arrives depends on what else is on its way, and what a writer may know  *)
(* depends on every count still in its inbox.  PipeInv adds that, in six   *)
(* layers, each inductive together with those before it that it cites:     *)
(*   Shapes     the types of the variables;                                *)
(*   Content    what each queue holds, from the next message to be read to *)
(*              the last one written, and where a delimiter may be;        *)
(*   Handshake  the pairs of states the two ends can be in, and for each   *)
(*              the commands that are on their way (cites Content: a       *)
(*              delimiter means that the peer has asked);                  *)
(*   Finished   an end that met the delimiter has read everything;         *)
(*   Waking     a reader that stopped sleeps at an empty queue, or is told;*)
(*   Flow       what a writer knows of its reader's progress, and the      *)
(*              counts that are on their way to correct it.                *)
(***************************************************************************)
EXTENDS ZmqPipe, SequenceTheorems, TLAPS

(* The types of the variables.                                             *)
State == {"active", "delimiter_received", "waiting_for_delimiter", "term_ack_sent",
          "term_req_sent1", "term_req_sent2", "gone"}
Command == [type : {"activate_read", "activate_write", "pipe_term", "pipe_term_ack"},
            read : Nat]
Queue == [ready : Seq(Int), written : Seq(Int), parts : Seq(Int), asleep : BOOLEAN]

Shapes ==
    /\ state \in [End -> State]
    /\ delay \in [End -> BOOLEAN]
    /\ inActive \in [End -> BOOLEAN]
    /\ outActive \in [End -> BOOLEAN]
    /\ outPipe \in [End -> BOOLEAN]
    /\ hurried \in [End -> BOOLEAN]
    /\ queue \in [End -> Queue]
    /\ msgsRead \in [End -> Nat]
    /\ msgsWritten \in [End -> Nat]
    /\ peersRead \in [End -> Nat]
    /\ got \in [End -> Int]
    /\ inbox \in [End -> Seq(Command)]

-----------------------------------------------------------------------------
(* The handshake.  Where a command of a type is on its way; an             *)
(* acknowledgement is the last command an end gets, and it is asked once.  *)
has(q, type) == \E k \in 1 .. Len(q) : q[k].type = type

LastAck(q) == \A k \in 1 .. Len(q) : q[k].type = "pipe_term_ack" => k = Len(q)

OneTerm(q) ==
    \A j, k \in 1 .. Len(q) : q[j].type = "pipe_term" /\ q[k].type = "pipe_term" => j = k

\* The states the two ends can be in at the same time.
Pairs ==
    \A e \in End :
        /\ state[e] = "active" => state[peer(e)] \in {"active", "term_req_sent1"}
        /\ state[e] = "delimiter_received" => state[peer(e)] = "term_req_sent1"
        /\ state[e] = "waiting_for_delimiter" => state[peer(e)] = "term_req_sent1"
        /\ state[e] = "term_ack_sent" => state[peer(e)] \in {"term_req_sent1", "gone"}
        /\ state[e] = "term_req_sent1" => state[peer(e)] # "gone"
        /\ state[e] = "term_req_sent2" =>
              state[peer(e)] \in {"term_req_sent1", "term_req_sent2", "gone"}
        /\ state[e] = "gone" => state[peer(e)] \in {"term_ack_sent", "term_req_sent2", "gone"}

\* A pipe_term is on its way to e in exactly these states,
asked(e) == /\ state[e] \in {"active", "delimiter_received", "term_req_sent1"}
            /\ state[peer(e)] \in {"term_req_sent1", "term_req_sent2"}

\* and a pipe_term_ack in exactly these.
acknowledged(e) ==
    \/ state[e] = "term_req_sent1" /\ state[peer(e)] \in {"term_ack_sent", "term_req_sent2"}
    \/ state[e] = "term_req_sent2" /\ state[peer(e)] \in {"term_req_sent2", "gone"}
    \/ state[e] = "term_ack_sent" /\ state[peer(e)] = "gone"

\* The commands on their way to e are those the states of the two ends call for.
Expected(e) ==
    /\ LastAck(inbox[e]) /\ OneTerm(inbox[e])
    /\ has(inbox[e], "pipe_term") <=> asked(e)
    /\ has(inbox[e], "pipe_term_ack") <=> acknowledged(e)
    /\ state[e] = "gone" => inbox[e] = <<>>
    /\ outPipe[e] <=> state[e] \in {"active", "delimiter_received", "waiting_for_delimiter",
                                     "term_req_sent1"}

Handshake == Pairs /\ \A e \in End : Expected(e)

-----------------------------------------------------------------------------
(* Wake-ups: a reader that stopped sleeps at its empty queue, where flush  *)
(* finds it, or activate_read is on its way.                               *)
Awake(e) ==
    ~inActive[e] /\ state[e] \in {"active", "waiting_for_delimiter"} =>
        \/ queue[e].asleep /\ queue[e].ready = <<>>
        \/ has(inbox[e], "activate_read")

Waking == \A e \in End : Awake(e)

-----------------------------------------------------------------------------
(* The messages.  What may come behind an item in a queue: behind a part   *)
(* its message goes on, behind a message comes the next one or the         *)
(* delimiter, behind the delimiter nothing.                                *)
follows(x, y) ==
    \/ x < 0 /\ y \in {x, -x}
    \/ x > 0 /\ y \in {Delimiter, x + 1, -(x + 1)}

\* s leads from the message after number r to message number w.
Chain(s, r, w) ==
    /\ r <= w
    /\ s = <<>> => r = w
    /\ s # <<>> => s[1] \in {Delimiter, r + 1, -(r + 1)}
    /\ s # <<>> /\ s[1] = Delimiter => r = w
    /\ \A k \in 1 .. Len(s) - 1 : follows(s[k], s[k + 1])
    /\ \A k \in 1 .. Len(s) : -w <= s[k] /\ s[k] <= w
    /\ \A k \in 1 .. Len(s) : k = Len(s) => s[k] \in {Delimiter, w}
    /\ \A k \in 1 .. Len(s) - 1 : k + 1 = Len(s) /\ s[k + 1] = Delimiter => s[k] = w

\* The writer has not written its delimiter to s.
undelimited(s) == \A k \in 1 .. Len(s) : s[k] # Delimiter

\* A queue of which r messages were read and to which w were written.
Sound(q, r, w) ==
    /\ Chain(q.ready \o q.written, r, w)
    /\ \A k \in 1 .. Len(q.parts) : q.parts[k] = -(w + 1)
    /\ undelimited(q.written)

\* What e has still to read; a delimiter only once its peer terminates.
Held(e) ==
    /\ Sound(queue[e], msgsRead[e], msgsWritten[peer(e)])
    /\ got[e] = msgsRead[e]
    /\ state[peer(e)] \in {"active", "delimiter_received"} => undelimited(queue[e].ready)

Content == \A e \in End : Held(e)

\* e has met the delimiter, and has not given up what was to be read.
finished(e) ==
    state[e] = "delimiter_received" \/ (state[e] = "term_ack_sent" /\ ~hurried[e])

Finished == \A e \in End : finished(e) => msgsRead[e] = msgsWritten[peer(e)]

-----------------------------------------------------------------------------
(* Flow control.  The activate_write commands in q carry counts.           *)
counts(q, k) == q[k].type = "activate_write"

(* The writer knows of old messages read, when r were and the reader       *)
(* reports every l-th: the counts on their way grow from old to at most r, *)
(* and once they have arrived the writer knows the last multiple of l.     *)
Reported(q, old, r, l) ==
    /\ old <= r
    /\ \A k \in 1 .. Len(q) : counts(q, k) => old <= q[k].read /\ q[k].read <= r
    /\ \A j, k \in 1 .. Len(q) : counts(q, j) /\ counts(q, k) /\ j < k => q[j].read <= q[k].read
    /\ l > 0 =>
          /\ ~has(q, "activate_write") => old = r - (r % l)
          /\ \A k \in 1 .. Len(q) :
                counts(q, k) /\ (\A j \in 1 .. Len(q) : counts(q, j) => j <= k)
                   => q[k].read = r - (r % l)

\* The writer e stops only at its mark, and never between the parts of a message.
Metered(e) ==
    /\ Reported(inbox[e], peersRead[e], msgsRead[peer(e)], lwm(peer(e)))
    /\ msgsWritten[e] <= MaxMessages[e]
    /\ Hwm[e] > 0 => msgsWritten[e] - msgsRead[peer(e)] <= Hwm[e]
    /\ ~outActive[e] /\ state[e] = "active" => full(e)
    /\ state[e] = "active" /\ queue[peer(e)].parts # <<>> => outActive[e] /\ ~full(e)

Flow == \A e \in End : Metered(e)

\* The inductive invariant.
PipeInv == Shapes /\ Content /\ Handshake /\ Finished /\ Waking /\ Flow

-----------------------------------------------------------------------------
(* The two ends.                                                           *)

\* peer is its own inverse.
LEMMA Peers ==
    ASSUME NEW e \in End
    PROVE  /\ peer(e) \in End
           /\ peer(e) # e
           /\ peer(peer(e)) = e
           /\ \A x \in End : x = e \/ x = peer(e)
  BY DEF End, peer

-----------------------------------------------------------------------------
(* Inboxes.                                                                *)

\* A command is sent.
LEMMA HasAppend ==
    ASSUME NEW q \in Seq(Command), NEW c \in Command, NEW type
    PROVE  has(Append(q, c), type) <=> has(q, type) \/ c.type = type
  <1>1. /\ Len(q) \in Nat
        /\ Len(Append(q, c)) = Len(q) + 1
        /\ \A k \in 1 .. Len(q) : Append(q, c)[k] = q[k]
        /\ Append(q, c)[Len(q) + 1] = c
    BY AppendProperties
  <1>2. ASSUME has(q, type) PROVE has(Append(q, c), type)
    <2>1. PICK k \in 1 .. Len(q) : q[k].type = type
      BY <1>2 DEF has
    <2>2. k \in 1 .. Len(Append(q, c)) /\ Append(q, c)[k].type = type
      BY <1>1, <2>1
    <2>. QED BY <2>2 DEF has
  <1>3. ASSUME c.type = type PROVE has(Append(q, c), type)
    <2>1. Len(q) + 1 \in 1 .. Len(Append(q, c))
      BY <1>1
    <2>. QED BY <1>1, <1>3, <2>1 DEF has
  <1>4. ASSUME has(Append(q, c), type), c.type # type PROVE has(q, type)
    <2>1. PICK k \in 1 .. Len(Append(q, c)) : Append(q, c)[k].type = type
      BY <1>4 DEF has
    <2>2. k # Len(q) + 1
      BY <1>1, <1>4, <2>1
    <2>3. k \in 1 .. Len(q) /\ q[k].type = type
      BY <1>1, <2>1, <2>2
    <2>. QED BY <2>3 DEF has
  <1>. QED BY <1>2, <1>3, <1>4

\* A command is handled: the others are still on their way.
LEMMA HasTail ==
    ASSUME NEW q \in Seq(Command), q # <<>>, NEW type
    PROVE  /\ has(Tail(q), type) => has(q, type)
           /\ has(q, type) => has(Tail(q), type) \/ Head(q).type = type
           /\ Head(q).type = type => has(q, type)
  <1>1. /\ Len(q) \in Nat \ {0}
        /\ Len(Tail(q)) = Len(q) - 1
        /\ \A k \in 1 .. Len(Tail(q)) : Tail(q)[k] = q[k + 1]
        /\ Head(q) = q[1]
    BY HeadTailProperties, EmptySeq
  <1>2. ASSUME has(Tail(q), type) PROVE has(q, type)
    <2>1. PICK k \in 1 .. Len(Tail(q)) : Tail(q)[k].type = type
      BY <1>2 DEF has
    <2>2. k + 1 \in 1 .. Len(q) /\ q[k + 1].type = type
      BY <1>1, <2>1
    <2>. QED BY <2>2 DEF has
  <1>3. ASSUME has(q, type), Head(q).type # type PROVE has(Tail(q), type)
    <2>1. PICK k \in 1 .. Len(q) : q[k].type = type
      BY <1>3 DEF has
    <2>2. k # 1
      BY <1>1, <1>3, <2>1
    <2>3. k - 1 \in 1 .. Len(Tail(q)) /\ Tail(q)[k - 1] = q[(k - 1) + 1]
      BY <1>1, <2>1, <2>2
    <2>4. (k - 1) + 1 = k
      OBVIOUS
    <2>. QED BY <2>1, <2>3, <2>4 DEF has
  <1>4. ASSUME Head(q).type = type PROVE has(q, type)
    BY <1>1, <1>4 DEF has
  <1>. QED BY <1>2, <1>3, <1>4

\* An acknowledgement stays last and a request to terminate the only one.
LEMMA OrderAppend ==
    ASSUME NEW q \in Seq(Command), NEW c \in Command,
           LastAck(q), OneTerm(q), ~has(q, "pipe_term_ack"),
           c.type = "pipe_term" => ~has(q, "pipe_term")
    PROVE  LastAck(Append(q, c)) /\ OneTerm(Append(q, c))
  <1>1. /\ Len(q) \in Nat
        /\ Len(Append(q, c)) = Len(q) + 1
        /\ \A k \in 1 .. Len(q) : Append(q, c)[k] = q[k]
        /\ Append(q, c)[Len(q) + 1] = c
    BY AppendProperties
  <1>2. LastAck(Append(q, c))
    BY <1>1 DEF LastAck, has
  <1>3. OneTerm(Append(q, c))
    BY <1>1 DEF OneTerm, has
  <1>. QED BY <1>2, <1>3

\* What comes behind a request or an acknowledgement.
LEMMA OrderTail ==
    ASSUME NEW q \in Seq(Command), q # <<>>, LastAck(q), OneTerm(q)
    PROVE  /\ LastAck(Tail(q)) /\ OneTerm(Tail(q))
           /\ Head(q).type = "pipe_term" => ~has(Tail(q), "pipe_term")
           /\ Head(q).type = "pipe_term_ack" => Tail(q) = <<>> /\ ~has(q, "pipe_term")
  <1>1. /\ Len(q) \in Nat \ {0}
        /\ Tail(q) \in Seq(Command)
        /\ Len(Tail(q)) = Len(q) - 1
        /\ \A k \in 1 .. Len(Tail(q)) : Tail(q)[k] = q[k + 1]
        /\ Head(q) = q[1]
    BY HeadTailProperties, EmptySeq
  <1>2. LastAck(Tail(q))
    <2>. SUFFICES ASSUME NEW k \in 1 .. Len(Tail(q)), Tail(q)[k].type = "pipe_term_ack"
                  PROVE  k = Len(Tail(q))
      BY DEF LastAck
    <2>1. k + 1 \in 1 .. Len(q) /\ q[k + 1].type = "pipe_term_ack"
      BY <1>1
    <2>2. k + 1 = Len(q)
      BY <2>1 DEF LastAck
    <2>3. Len(q) \in Nat /\ Len(Tail(q)) = Len(q) - 1
      BY <1>1
    <2>. QED BY <2>2, <2>3, SMT
  <1>3. OneTerm(Tail(q))
    <2>. SUFFICES ASSUME NEW j \in 1 .. Len(Tail(q)), NEW k \in 1 .. Len(Tail(q)),
                         Tail(q)[j].type = "pipe_term", Tail(q)[k].type = "pipe_term"
                  PROVE  j = k
      BY DEF OneTerm
    <2>1. j + 1 \in 1 .. Len(q) /\ k + 1 \in 1 .. Len(q)
      BY <1>1
    <2>2. q[j + 1].type = "pipe_term" /\ q[k + 1].type = "pipe_term"
      BY <1>1
    <2>3. j + 1 = k + 1
      BY <2>1, <2>2 DEF OneTerm
    <2>. QED BY <2>3
  <1>4. ASSUME Head(q).type = "pipe_term", has(Tail(q), "pipe_term") PROVE FALSE
    <2>1. PICK k \in 1 .. Len(Tail(q)) : Tail(q)[k].type = "pipe_term"
      BY <1>4 DEF has
    <2>2. 1 \in 1 .. Len(q) /\ k + 1 \in 1 .. Len(q) /\ q[k + 1].type = "pipe_term"
      BY <1>1, <2>1
    <2>3. 1 = k + 1
      BY <1>1, <1>4, <2>2 DEF OneTerm
    <2>. QED BY <2>1, <2>3
  <1>5. ASSUME Head(q).type = "pipe_term_ack" PROVE Tail(q) = <<>> /\ ~has(q, "pipe_term")
    <2>1. Len(q) = 1
      <3>1. 1 \in 1 .. Len(q) /\ q[1].type = "pipe_term_ack"
        BY <1>1, <1>5
      <3>. QED BY <3>1 DEF LastAck
    <2>2. Tail(q) = <<>>
      <3>1. Len(Tail(q)) = 0
        BY <1>1, <2>1
      <3>. QED BY <1>1, <3>1, EmptySeq
    <2>3. \A k \in 1 .. Len(q) : q[k].type = "pipe_term_ack"
      BY <1>1, <1>5, <2>1
    <2>. QED BY <2>2, <2>3 DEF has
  <1>. QED BY <1>2, <1>3, <1>4, <1>5

-----------------------------------------------------------------------------
(* What a queue holds.                                                     *)

\* A part or the end of a message is read.
LEMMA ChainTail ==
    ASSUME NEW s \in Seq(Int), NEW r \in Nat, NEW w \in Nat, s # <<>>, s[1] # Delimiter,
           Chain(s, r, w)
    PROVE  /\ s[1] > 0 => s[1] = r + 1
           /\ Chain(Tail(s), IF s[1] > 0 THEN r + 1 ELSE r, w)
  <1>. DEFINE t == Tail(s)
              n == IF s[1] > 0 THEN r + 1 ELSE r
  <1>1. /\ Len(s) \in Nat \ {0}
        /\ t \in Seq(Int)
        /\ Len(t) = Len(s) - 1
        /\ \A k \in 1 .. Len(t) : t[k] = s[k + 1]
    BY HeadTailProperties, EmptySeq
  <1>2. \A k \in 1 .. Len(s) : s[k] \in Int
    BY ElementOfSeq
  <1>3. 1 \in 1 .. Len(s) /\ s[1] \in {r + 1, -(r + 1)} /\ -w <= s[1] /\ s[1] <= w
    <2>1. 1 \in 1 .. Len(s)
      BY <1>1
    <2>2. s[1] \in {r + 1, -(r + 1)}
      BY Zenon DEF Chain
    <2>3. -w <= s[1] /\ s[1] <= w
      BY <2>1 DEF Chain
    <2>. QED BY <2>1, <2>2, <2>3
  <1>4. n \in Nat /\ n <= w /\ (s[1] > 0 => s[1] = r + 1)
    BY <1>3 DEF Chain
  <1>. HIDE DEF t
  <1>5. t = <<>> => n = w
    <2>. SUFFICES ASSUME t = <<>> PROVE n = w
      OBVIOUS
    <2>1. Len(s) = 1
      BY <1>1, EmptySeq
    <2>2. s[1] \in {Delimiter, w}
      BY <1>3, <2>1 DEF Chain
    <2>. QED BY <1>3, <2>2 DEF Delimiter
  <1>6. t # <<>> => /\ t[1] \in {Delimiter, n + 1, -(n + 1)}
                    /\ t[1] = Delimiter => n = w
    <2>. SUFFICES ASSUME t # <<>> PROVE /\ t[1] \in {Delimiter, n + 1, -(n + 1)}
                                        /\ t[1] = Delimiter => n = w
      OBVIOUS
    <2>1. Len(t) \in Nat \ {0}
      BY <1>1, EmptySeq
    <2>2. 1 \in 1 .. Len(s) - 1 /\ t[1] = s[2] /\ s[2] \in Int
      BY <1>1, <1>2, <2>1
    <2>3. follows(s[1], s[1 + 1])
      BY <2>2 DEF Chain
    <2>4. follows(s[1], s[2])
      BY <2>3
    <2>5. t[1] \in {Delimiter, n + 1, -(n + 1)}
      BY <1>3, <2>2, <2>4 DEF follows
    <2>6. ASSUME t[1] = Delimiter PROVE n = w
      <3>1. s[1] > 0 /\ s[1] = r + 1
        BY <1>3, <2>2, <2>4, <2>6 DEF follows, Delimiter
      <3>2. Len(s) = 2
        <4>1. ~ (2 \in 1 .. Len(s) - 1)
          <5>1. 2 \in 1 .. Len(s) - 1 => follows(s[2], s[2 + 1])
            BY DEF Chain
          <5>. QED BY <5>1, <2>2, <2>6 DEF follows, Delimiter
        <4>. QED BY <1>1, <2>1, <4>1
      <3>3. s[1] = w
        <4>1. 1 + 1 = Len(s) /\ s[1 + 1] = Delimiter
          <5>1. 1 + 1 = 2
            OBVIOUS
          <5>. QED BY <2>2, <2>6, <3>2, <5>1, Zenon
        <4>. QED BY <2>2, <4>1 DEF Chain
      <3>. QED BY <3>1, <3>3
    <2>. QED BY <2>5, <2>6
  <1>7. \A k \in 1 .. Len(t) - 1 :
           /\ follows(t[k], t[k + 1])
           /\ k + 1 = Len(t) /\ t[k + 1] = Delimiter => t[k] = w
    <2>. SUFFICES ASSUME NEW k \in 1 .. Len(t) - 1
                  PROVE  /\ follows(t[k], t[k + 1])
                         /\ k + 1 = Len(t) /\ t[k + 1] = Delimiter => t[k] = w
      OBVIOUS
    <2>1. k + 1 \in 1 .. Len(s) - 1 /\ t[k] = s[k + 1] /\ t[k + 1] = s[(k + 1) + 1]
      <3>1. k \in 1 .. Len(t) /\ k + 1 \in 1 .. Len(t) /\ k + 1 \in 1 .. Len(s) - 1
        BY <1>1
      <3>. QED BY <1>1, <3>1, Zenon
    <2>2. k + 1 = Len(t) => (k + 1) + 1 = Len(s)
      BY <1>1
    <2>. QED BY <2>1, <2>2 DEF Chain
  <1>8. \A k \in 1 .. Len(t) : /\ -w <= t[k] /\ t[k] <= w
                               /\ k = Len(t) => t[k] \in {Delimiter, w}
    <2>. SUFFICES ASSUME NEW k \in 1 .. Len(t)
                  PROVE  /\ -w <= t[k] /\ t[k] <= w
                         /\ k = Len(t) => t[k] \in {Delimiter, w}
      OBVIOUS
    <2>1. k + 1 \in 1 .. Len(s) /\ t[k] = s[k + 1] /\ (k = Len(t) => k + 1 = Len(s))
      BY <1>1
    <2>. QED BY <2>1 DEF Chain
  <1>9. Chain(t, n, w)
    <2>. HIDE DEF n
    <2>. QED BY <1>4, <1>5, <1>6, <1>7, <1>8 DEF Chain
  <1>. QED BY <1>4, <1>9 DEF t

\* The delimiter is read.
LEMMA ChainDelimiter ==
    ASSUME NEW s \in Seq(Int), NEW r \in Nat, NEW w \in Nat, s # <<>>, s[1] = Delimiter,
           Chain(s, r, w)
    PROVE  r = w /\ Tail(s) = <<>> /\ Chain(Tail(s), r, w)
  <1>1. /\ Len(s) \in Nat \ {0}
        /\ Tail(s) \in Seq(Int)
        /\ Len(Tail(s)) = Len(s) - 1
    BY HeadTailProperties, EmptySeq
  <1>2. r = w
    BY DEF Chain
  <1>3. ~ (1 \in 1 .. Len(s) - 1)
    <2>1. 1 \in 1 .. Len(s) - 1 => follows(s[1], s[1 + 1])
      BY DEF Chain
    <2>. QED BY <2>1 DEF follows, Delimiter
  <1>4. Len(Tail(s)) = 0
    BY <1>1, <1>3
  <1>5. Tail(s) = <<>>
    BY <1>1, <1>4, EmptySeq
  <1>6. Chain(<<>>, r, w)
    BY <1>2, EmptySeq DEF Chain
  <1>. QED BY <1>2, <1>5, <1>6

\* A message is finished.
LEMMA ChainWrite ==
    ASSUME NEW s \in Seq(Int), NEW u \in Seq(Int), NEW m \in Nat, NEW r \in Nat, NEW w \in Nat,
           Chain(s, r, w), undelimited(s),
           Len(u) = Len(s) + m + 1,
           \A k \in 1 .. Len(s) : u[k] = s[k],
           \A k \in Len(s) + 1 .. Len(s) + m : u[k] = -(w + 1),
           u[Len(u)] = w + 1
    PROVE  Chain(u, r, w + 1)
  <1>1. Len(s) \in Nat /\ Len(u) \in Nat /\ \A k \in 1 .. Len(s) : s[k] \in Int
    BY LenProperties, ElementOfSeq
  <1>2. u # <<>> /\ 1 \in 1 .. Len(u) /\ Len(u) \in 1 .. Len(u)
    BY <1>1, EmptySeq
  <1>3. u[1] \in {r + 1, -(r + 1)}
    <2>1. CASE s = <<>>
      <3>1. Len(s) = 0 /\ r = w
        BY <2>1, EmptySeq DEF Chain
      <3>2. m = 0 \/ 1 \in Len(s) + 1 .. Len(s) + m
        BY <3>1
      <3>3. m = 0 => Len(u) = 1
        BY <3>1
      <3>. QED BY <3>1, <3>2, <3>3
    <2>2. CASE s # <<>>
      <3>1. Len(s) # 0
        BY <2>2, EmptySeq
      <3>2. 1 \in 1 .. Len(s)
        BY <1>1, <3>1
      <3>3. u[1] = s[1] /\ s[1] # Delimiter
        BY <3>2 DEF undelimited
      <3>. QED BY <2>2, <3>3 DEF Chain
    <2>. QED BY <2>1, <2>2
  <1>4. \A k \in 1 .. Len(u) : -(w + 1) <= u[k] /\ u[k] <= w + 1
    <2>. SUFFICES ASSUME NEW k \in 1 .. Len(u) PROVE -(w + 1) <= u[k] /\ u[k] <= w + 1
      OBVIOUS
    <2>1. CASE k \in 1 .. Len(s)
      <3>1. -w <= s[k] /\ s[k] <= w /\ u[k] = s[k] /\ s[k] \in Int
        BY <1>1, <2>1 DEF Chain
      <3>. QED BY <3>1
    <2>2. CASE k \in Len(s) + 1 .. Len(s) + m
      BY <2>2
    <2>3. CASE k = Len(u)
      BY <2>3
    <2>. QED BY <1>1, <2>1, <2>2, <2>3
  <1>5. \A k \in 1 .. Len(u) - 1 : follows(u[k], u[k + 1])
    <2>. SUFFICES ASSUME NEW k \in 1 .. Len(u) - 1 PROVE follows(u[k], u[k + 1])
      OBVIOUS
    <2>1. CASE k \in 1 .. Len(s) - 1
      <3>1. k \in 1 .. Len(s) /\ k + 1 \in 1 .. Len(s)
        BY <1>1, <2>1
      <3>2. u[k] = s[k] /\ u[k + 1] = s[k + 1]
        BY <3>1
      <3>. QED BY <2>1, <3>2 DEF Chain
    <2>2. ASSUME k \in Len(s) .. Len(u) - 1 PROVE u[k + 1] \in {w + 1, -(w + 1)}
      <3>1. k + 1 = Len(u) \/ k + 1 \in Len(s) + 1 .. Len(s) + m
        BY <1>1, <2>2
      <3>. QED BY <3>1
    <2>3. CASE k = Len(s)
      <3>1. k \in 1 .. Len(s)
        BY <1>1, <2>3
      <3>2. u[k] = w /\ s[k] = w /\ s[k] # Delimiter
        BY <2>3, <3>1 DEF Chain, undelimited
      <3>3. u[k + 1] \in {w + 1, -(w + 1)}
        BY <1>1, <2>2, <2>3
      <3>. QED BY <3>2, <3>3 DEF follows, Delimiter
    <2>4. CASE k \in Len(s) + 1 .. Len(s) + m
      <3>1. u[k] = -(w + 1)
        BY <2>4
      <3>2. u[k + 1] \in {w + 1, -(w + 1)}
        BY <1>1, <2>2, <2>4
      <3>. QED BY <3>1, <3>2 DEF follows
    <2>. QED BY <1>1, <2>1, <2>3, <2>4
  <1>6. r <= w + 1
    BY DEF Chain
  <1>7. u[Len(u)] # Delimiter /\ u[1] # Delimiter
    BY <1>3 DEF Delimiter
  <1>. QED BY <1>1, <1>2, <1>3, <1>4, <1>5, <1>6, <1>7 DEF Chain

\* The delimiter is written.
LEMMA ChainDelimit ==
    ASSUME NEW s \in Seq(Int), NEW u \in Seq(Int), NEW r \in Nat, NEW w \in Nat,
           Chain(s, r, w), undelimited(s),
           Len(u) = Len(s) + 1,
           \A k \in 1 .. Len(s) : u[k] = s[k],
           u[Len(u)] = Delimiter
    PROVE  Chain(u, r, w)
  <1>1. Len(s) \in Nat /\ Len(u) \in Nat /\ \A k \in 1 .. Len(s) : s[k] \in Int
    BY LenProperties, ElementOfSeq
  <1>2. u # <<>> /\ r <= w
    BY <1>1, EmptySeq DEF Chain
  <1>3. u[1] \in {Delimiter, r + 1, -(r + 1)} /\ (u[1] = Delimiter => r = w)
    <2>1. CASE s = <<>>
      <3>1. Len(u) = 1 /\ r = w
        BY <2>1, EmptySeq DEF Chain
      <3>. QED BY <3>1
    <2>2. CASE s # <<>>
      <3>1. Len(s) # 0
        BY <2>2, EmptySeq
      <3>2. 1 \in 1 .. Len(s)
        BY <1>1, <3>1
      <3>3. u[1] = s[1] /\ s[1] # Delimiter
        BY <3>2 DEF undelimited
      <3>. QED BY <2>2, <3>3 DEF Chain
    <2>. QED BY <2>1, <2>2
  <1>4. \A k \in 1 .. Len(u) : -w <= u[k] /\ u[k] <= w
    <2>. SUFFICES ASSUME NEW k \in 1 .. Len(u) PROVE -w <= u[k] /\ u[k] <= w
      OBVIOUS
    <2>1. CASE k \in 1 .. Len(s)
      BY <2>1 DEF Chain
    <2>2. CASE k = Len(u)
      BY <2>2 DEF Delimiter
    <2>. QED BY <1>1, <2>1, <2>2
  <1>5. \A k \in 1 .. Len(u) - 1 :
           follows(u[k], u[k + 1]) /\ (k + 1 = Len(u) => u[k] = w)
    <2>. SUFFICES ASSUME NEW k \in 1 .. Len(u) - 1
                  PROVE  follows(u[k], u[k + 1]) /\ (k + 1 = Len(u) => u[k] = w)
      OBVIOUS
    <2>1. CASE k \in 1 .. Len(s) - 1
      <3>1. k \in 1 .. Len(s) /\ k + 1 \in 1 .. Len(s) /\ k + 1 # Len(u)
        BY <1>1, <2>1
      <3>2. u[k] = s[k] /\ u[k + 1] = s[k + 1]
        BY <3>1
      <3>. QED BY <2>1, <3>1, <3>2 DEF Chain
    <2>2. CASE k = Len(s)
      <3>1. k \in 1 .. Len(s) /\ k + 1 = Len(u)
        BY <1>1, <2>2
      <3>2. u[k] = w /\ s[k] = w /\ s[k] # Delimiter
        BY <2>2, <3>1 DEF Chain, undelimited
      <3>3. w > 0 /\ u[k + 1] = Delimiter
        BY <3>1, <3>2 DEF Delimiter
      <3>. QED BY <3>2, <3>3 DEF follows
    <2>. QED BY <1>1, <2>1, <2>2
  <1>. QED BY <1>1, <1>2, <1>3, <1>4, <1>5 DEF Chain

-----------------------------------------------------------------------------
(* What the model's operators on inboxes and queues return.                *)

\* One command is sent, or a request and a wake-up.
LEMMA Sending ==
    ASSUME NEW q \in Seq(Command), NEW c \in Command, NEW d \in Command
    PROVE  /\ q \o <<>> = q
           /\ q \o <<c>> = Append(q, c)
           /\ q \o (<<c>> \o <<>>) = Append(q, c)
           /\ q \o (<<c>> \o <<d>>) = Append(Append(q, c), d)
  <1>1. <<c>> \in Seq(Command) /\ <<d>> \in Seq(Command)
    OBVIOUS
  <1>2. q \o <<>> = q /\ <<c>> \o <<>> = <<c>>
    BY <1>1, ConcatEmptySeq
  <1>3. \A p \in Seq(Command) : \A x \in Command : p \o <<x>> = Append(p, x)
    BY AppendIsConcat
  <1>4. q \o (<<c>> \o <<d>>) = (q \o <<c>>) \o <<d>>
    BY <1>1, ConcatAssociative
  <1>5. Append(q, c) \in Seq(Command)
    BY AppendProperties
  <1>. QED BY <1>2, <1>3, <1>4, <1>5, Zenon

\* pipe_t::write, of a part that more follow.
LEMMA PutPart ==
    ASSUME NEW q \in Queue, NEW item \in Int
    PROVE  /\ putPart(q, item) \in Queue
           /\ putPart(q, item).ready = q.ready
           /\ putPart(q, item).written = q.written
           /\ putPart(q, item).parts = Append(q.parts, item)
           /\ putPart(q, item).asleep = q.asleep
  <1>1. Append(q.parts, item) \in Seq(Int)
    BY AppendProperties DEF Queue
  <1>. QED BY <1>1 DEF putPart, Queue

\* pipe_t::write, of a last part.
LEMMA PutLast ==
    ASSUME NEW q \in Queue, NEW item \in Int
    PROVE  /\ putLast(q, item) \in Queue
           /\ putLast(q, item).ready = q.ready
           /\ putLast(q, item).written = (q.written \o q.parts) \o <<item>>
           /\ putLast(q, item).parts = <<>>
           /\ putLast(q, item).asleep = q.asleep
  <1>1. <<item>> \in Seq(Int) /\ q.written \in Seq(Int) /\ q.parts \in Seq(Int)
    BY DEF Queue
  <1>2. (q.written \o q.parts) \o <<item>> \in Seq(Int)
    BY <1>1, ConcatProperties
  <1>3. <<>> \in Seq(Int)
    BY EmptySeq
  <1>. QED BY <1>2, <1>3 DEF putLast, Queue

\* pipe_t::rollback.
LEMMA RolledBack ==
    ASSUME NEW q \in Queue
    PROVE  /\ rollback(q) \in Queue
           /\ rollback(q).ready = q.ready
           /\ rollback(q).written = q.written
           /\ rollback(q).parts = <<>>
           /\ rollback(q).asleep = q.asleep
  <1>1. <<>> \in Seq(Int)
    BY EmptySeq
  <1>. QED BY <1>1 DEF rollback, Queue

\* ypipe_t::flush.
LEMMA Flushed ==
    ASSUME NEW q \in Queue
    PROVE  /\ flush(q) \in Queue
           /\ flush(q).ready = q.ready \o q.written
           /\ flush(q).written = <<>>
           /\ flush(q).parts = q.parts
           /\ flush(q).asleep = (q.asleep /\ q.written = <<>>)
  <1>1. q.ready \in Seq(Int) /\ q.written \in Seq(Int) /\ q.asleep \in BOOLEAN
    BY DEF Queue
  <1>2. q.ready \o q.written \in Seq(Int) /\ <<>> \in Seq(Int) /\ q.ready \o <<>> = q.ready
    BY <1>1, ConcatProperties, ConcatEmptySeq, EmptySeq
  <1>3. CASE q.written = <<>>
    <2>1. flush(q) = q
      BY <1>3 DEF flush
    <2>2. flush(q).ready = q.ready \o q.written
      BY <1>2, <1>3, <2>1
    <2>3. flush(q).asleep = (q.asleep /\ q.written = <<>>)
      BY <1>1, <1>3, <2>1, Zenon
    <2>. QED BY <1>3, <2>1, <2>2, <2>3
  <1>4. CASE q.written # <<>>
    <2>1. flush(q) = [q EXCEPT !.ready = q.ready \o q.written, !.written = <<>>, !.asleep = FALSE]
      BY <1>4 DEF flush
    <2>2. /\ flush(q) \in Queue
          /\ flush(q).ready = q.ready \o q.written
          /\ flush(q).written = <<>>
          /\ flush(q).parts = q.parts
          /\ flush(q).asleep = FALSE
      BY <1>2, <2>1 DEF Queue
    <2>. QED BY <1>4, <2>2
  <1>. QED BY <1>3, <1>4

\* Concatenation of queues.
LEMMA Associative ==
    ASSUME NEW r \in Seq(Int), NEW s \in Seq(Int), NEW t \in Seq(Int)
    PROVE  (r \o s) \o t = r \o (s \o t)
  BY ConcatAssociative

\* What terminate leaves, and whether it wakes the reader.
LEMMA Delimited ==
    ASSUME NEW q \in Queue
    PROVE  /\ delimited(q) \in Queue
           /\ delimited(q).ready = (q.ready \o q.written) \o <<Delimiter>>
           /\ delimited(q).written = <<>>
           /\ delimited(q).parts = <<>>
           /\ delimited(q).asleep = FALSE
           /\ q.asleep => wakeUp(q) = <<command("activate_read")>>
           /\ ~q.asleep => wakeUp(q) = <<>>
  <1>. DEFINE b == rollback(q)
              p == putLast(b, Delimiter)
  <1>1. /\ b \in Queue
        /\ b.ready = q.ready /\ b.written = q.written /\ b.parts = <<>> /\ b.asleep = q.asleep
    BY RolledBack
  <1>2. Delimiter \in Int /\ <<Delimiter>> \in Seq(Int)
    BY DEF Delimiter
  <1>3. /\ p \in Queue
        /\ p.ready = b.ready /\ p.written = (b.written \o b.parts) \o <<Delimiter>>
        /\ p.parts = <<>> /\ p.asleep = b.asleep
    BY <1>1, <1>2, PutLast
  <1>. HIDE DEF b, p
  <1>4. q.ready \in Seq(Int) /\ q.written \in Seq(Int)
    BY DEF Queue
  <1>5. q.written \o <<>> = q.written
    BY <1>4, ConcatEmptySeq
  <1>6. p.written = q.written \o <<Delimiter>>
    BY <1>1, <1>3, <1>5
  <1>7. q.ready \o (q.written \o <<Delimiter>>) = (q.ready \o q.written) \o <<Delimiter>>
    <2>. DEFINE z == <<Delimiter>>
    <2>1. z \in Seq(Int)
      BY <1>2
    <2>. HIDE DEF z
    <2>2. q.ready \o (q.written \o z) = (q.ready \o q.written) \o z
      BY <1>4, <2>1, Associative
    <2>. QED BY <2>2 DEF z
  <1>8. p.written # <<>>
    BY <1>2, <1>4, <1>6, ConcatEqualIffEmpty
  <1>9. /\ flush(p) \in Queue
        /\ flush(p).ready = p.ready \o p.written
        /\ flush(p).written = <<>>
        /\ flush(p).parts = p.parts
        /\ flush(p).asleep = FALSE
    BY <1>3, <1>8, Flushed
  <1>10. delimited(q) = flush(p) /\ (wakes(p) <=> q.asleep)
    BY <1>1, <1>3, <1>8 DEF delimited, wakes, b, p
  <1>11. wakeUp(q) = IF wakes(p) THEN <<command("activate_read")>> ELSE <<>>
    BY DEF wakeUp, b, p
  <1>. QED BY <1>1, <1>3, <1>6, <1>7, <1>9, <1>10, <1>11

\* The first item of a concatenation is removed.
LEMMA TailConcat ==
    ASSUME NEW s \in Seq(Int), NEW t \in Seq(Int), s # <<>>
    PROVE  /\ s \o t # <<>>
           /\ (s \o t)[1] = Head(s)
           /\ Tail(s) \o t = Tail(s \o t)
  <1>. DEFINE n == Len(s)
              m == Len(t)
              u == s \o t
              a == Tail(s) \o t
              b == Tail(u)
  <1>1. /\ n \in Nat \ {0} /\ m \in Nat /\ Head(s) = s[1]
        /\ Tail(s) \in Seq(Int) /\ Len(Tail(s)) = n - 1
        /\ \A i \in 1 .. n - 1 : Tail(s)[i] = s[i + 1]
    BY HeadTailProperties, EmptySeq, LenProperties
  <1>2. /\ u \in Seq(Int) /\ Len(u) = n + m
        /\ \A i \in 1 .. n + m : u[i] = IF i <= n THEN s[i] ELSE t[i - n]
    BY ConcatProperties
  <1>3. u # <<>>
    BY ConcatEqualIffEmpty
  <1>4. /\ a \in Seq(Int) /\ Len(a) = (n - 1) + m
        /\ \A i \in 1 .. (n - 1) + m : a[i] = IF i <= n - 1 THEN Tail(s)[i] ELSE t[i - (n - 1)]
    <2>1. /\ a \in Seq(Int) /\ Len(a) = Len(Tail(s)) + m
          /\ \A i \in 1 .. Len(Tail(s)) + m :
                a[i] = IF i <= Len(Tail(s)) THEN Tail(s)[i] ELSE t[i - Len(Tail(s))]
      BY <1>1, ConcatProperties
    <2>. QED BY <1>1, <2>1
  <1>5. /\ b \in Seq(Int) /\ Len(b) = (n + m) - 1
        /\ \A i \in 1 .. (n + m) - 1 : b[i] = u[i + 1]
    <2>1. /\ b \in Seq(Int) /\ Len(b) = Len(u) - 1
          /\ \A i \in 1 .. Len(b) : b[i] = u[i + 1]
      BY <1>2, <1>3, HeadTailProperties
    <2>. QED BY <1>2, <2>1
  <1>. HIDE DEF n, m, u, a, b
  <1>6. u[1] = Head(s)
    BY <1>1, <1>2
  <1>7. Len(a) = Len(b)
    BY <1>1, <1>4, <1>5
  <1>8. ASSUME NEW i \in 1 .. Len(a) PROVE a[i] = b[i]
    <2>1. b[i] = IF i + 1 <= n THEN s[i + 1] ELSE t[(i + 1) - n]
      <3>1. i \in 1 .. (n + m) - 1 /\ i + 1 \in 1 .. n + m
        BY <1>1, <1>4
      <3>. QED BY <1>2, <1>5, <3>1
    <2>2. CASE i <= n - 1
      <3>1. i \in 1 .. n - 1 /\ i + 1 <= n
        BY <1>1, <2>2
      <3>2. a[i] = Tail(s)[i]
        BY <1>1, <1>4, <2>2
      <3>. QED BY <1>1, <2>1, <3>1, <3>2
    <2>3. CASE ~ (i <= n - 1)
      <3>1. ~ (i + 1 <= n) /\ i - (n - 1) = (i + 1) - n
        BY <1>1, <1>4, <2>3
      <3>2. a[i] = t[i - (n - 1)]
        BY <1>4, <2>3
      <3>. QED BY <2>1, <3>1, <3>2
    <2>. QED BY <2>2, <2>3
  <1>9. a = b
    BY <1>4, <1>5, <1>7, <1>8, SeqEqual
  <1>. QED BY <1>3, <1>6, <1>9 DEF a, b, u

\* An item is taken from the queue.
LEMMA Popped ==
    ASSUME NEW q \in Queue, q.ready # <<>>
    PROVE  /\ [q EXCEPT !.ready = Tail(@)] \in Queue
           /\ [q EXCEPT !.ready = Tail(@)].ready = Tail(q.ready)
           /\ [q EXCEPT !.ready = Tail(@)].written = q.written
           /\ [q EXCEPT !.ready = Tail(@)].parts = q.parts
           /\ [q EXCEPT !.ready = Tail(@)].asleep = q.asleep
           /\ Head(q.ready) \in Int
           /\ Tail(q.ready) \in Seq(Int)
           /\ Tail(q.ready) \o q.written = Tail(q.ready \o q.written)
           /\ q.ready \o q.written # <<>>
           /\ (q.ready \o q.written)[1] = Head(q.ready)
  <1>1. q.ready \in Seq(Int) /\ q.written \in Seq(Int)
    BY DEF Queue
  <1>2. Head(q.ready) \in Int /\ Tail(q.ready) \in Seq(Int)
    BY <1>1, HeadTailProperties
  <1>3. /\ [q EXCEPT !.ready = Tail(@)] \in Queue
        /\ [q EXCEPT !.ready = Tail(@)].ready = Tail(q.ready)
        /\ [q EXCEPT !.ready = Tail(@)].written = q.written
        /\ [q EXCEPT !.ready = Tail(@)].parts = q.parts
        /\ [q EXCEPT !.ready = Tail(@)].asleep = q.asleep
    BY <1>2 DEF Queue
  <1>. QED BY <1>1, <1>2, <1>3, TailConcat

\* A delimiter in a concatenation is in one of its parts.
LEMMA UndelimitedConcat ==
    ASSUME NEW s \in Seq(Int), NEW t \in Seq(Int)
    PROVE  undelimited(s \o t) <=> undelimited(s) /\ undelimited(t)
  <1>. DEFINE n == Len(s)
              m == Len(t)
              u == s \o t
  <1>1. /\ n \in Nat /\ m \in Nat /\ Len(u) = n + m
        /\ \A i \in 1 .. n + m : u[i] = IF i <= n THEN s[i] ELSE t[i - n]
    BY ConcatProperties, LenProperties
  <1>. HIDE DEF n, m, u
  <1>2. \A i \in 1 .. n : i \in 1 .. n + m /\ u[i] = s[i]
    BY <1>1
  <1>3. \A i \in 1 .. m : i + n \in 1 .. n + m /\ u[i + n] = t[i]
    <2>. SUFFICES ASSUME NEW i \in 1 .. m PROVE i + n \in 1 .. n + m /\ u[i + n] = t[i]
      OBVIOUS
    <2>1. i + n \in 1 .. n + m /\ ~ (i + n <= n) /\ (i + n) - n = i
      BY <1>1
    <2>2. u[i + n] = t[(i + n) - n]
      BY <1>1, <2>1
    <2>. QED BY <2>1, <2>2
  <1>4. ASSUME undelimited(u) PROVE undelimited(s) /\ undelimited(t)
    <2>1. \A i \in 1 .. n : s[i] # Delimiter
      BY <1>1, <1>2, <1>4 DEF undelimited
    <2>2. ASSUME NEW i \in 1 .. m PROVE t[i] # Delimiter
      <3>1. i + n \in 1 .. Len(u) /\ u[i + n] = t[i]
        BY <1>1, <1>3
      <3>. QED BY <1>4, <3>1 DEF undelimited
    <2>. QED BY <2>1, <2>2 DEF undelimited, n, m
  <1>5. ASSUME undelimited(s), undelimited(t) PROVE undelimited(u)
    <2>. SUFFICES ASSUME NEW i \in 1 .. n + m PROVE u[i] # Delimiter
      BY <1>1 DEF undelimited
    <2>1. CASE i <= n
      BY <1>1, <1>5, <2>1 DEF undelimited, n
    <2>2. CASE ~ (i <= n)
      <3>1. i - n \in 1 .. m /\ u[i] = t[i - n]
        BY <1>1, <2>2
      <3>. QED BY <1>5, <3>1 DEF undelimited, m
    <2>. QED BY <2>1, <2>2
  <1>. QED BY <1>4, <1>5 DEF u

-----------------------------------------------------------------------------
(* Every operation on a queue leaves it sound.                             *)

\* An unfinished message is dropped.
LEMMA SoundRolledBack ==
    ASSUME NEW q \in Queue, NEW r \in Nat, NEW w \in Nat, Sound(q, r, w)
    PROVE  Sound(rollback(q), r, w)
  <1>1. Len(<<>>) = 0
    OBVIOUS
  <1>2. /\ rollback(q).ready = q.ready
        /\ rollback(q).written = q.written
        /\ rollback(q).parts = <<>>
    BY RolledBack
  <1>. QED BY <1>1, <1>2 DEF Sound

\* What is flushed is what was there.
LEMMA SoundFlushed ==
    ASSUME NEW q \in Queue, NEW r \in Nat, NEW w \in Nat, Sound(q, r, w)
    PROVE  /\ Sound(flush(q), r, w)
           /\ undelimited(q.ready) => undelimited(flush(q).ready)
  <1>1. /\ flush(q).ready = q.ready \o q.written
        /\ flush(q).written = <<>>
        /\ flush(q).parts = q.parts
    BY Flushed
  <1>2. q.ready \in Seq(Int) /\ q.written \in Seq(Int)
    BY DEF Queue
  <1>3. q.ready \o q.written \in Seq(Int)
    BY <1>2, ConcatProperties
  <1>4. (q.ready \o q.written) \o <<>> = q.ready \o q.written
    BY <1>3, ConcatEmptySeq
  <1>5. Sound(flush(q), r, w)
    BY <1>1, <1>4 DEF Sound, undelimited
  <1>6. undelimited(q.ready) => undelimited(q.ready \o q.written)
    BY <1>2, UndelimitedConcat DEF Sound
  <1>. QED BY <1>1, <1>5, <1>6

\* A part of the message being written is added.
LEMMA SoundPutPart ==
    ASSUME NEW q \in Queue, NEW r \in Nat, NEW w \in Nat, Sound(q, r, w)
    PROVE  Sound(putPart(q, -(w + 1)), r, w)
  <1>. DEFINE p == Append(q.parts, -(w + 1))
  <1>1. /\ -(w + 1) \in Int
        /\ putPart(q, -(w + 1)).ready = q.ready
        /\ putPart(q, -(w + 1)).written = q.written
        /\ putPart(q, -(w + 1)).parts = p
    <2>1. -(w + 1) \in Int
      OBVIOUS
    <2>. QED BY <2>1, PutPart
  <1>2. q.parts \in Seq(Int)
    BY DEF Queue
  <1>3. /\ Len(q.parts) \in Nat /\ Len(p) = Len(q.parts) + 1
        /\ \A k \in 1 .. Len(q.parts) : p[k] = q.parts[k]
        /\ p[Len(q.parts) + 1] = -(w + 1)
    BY <1>1, <1>2, AppendProperties
  <1>. HIDE DEF p
  <1>4. \A k \in 1 .. Len(q.parts) : q.parts[k] = -(w + 1)
    BY DEF Sound
  <1>5. \A k \in 1 .. Len(p) : p[k] = -(w + 1)
    BY <1>3, <1>4
  <1>. QED BY <1>1, <1>5 DEF Sound

\* The message is finished, with the parts written of it before.
LEMMA SoundPutLast ==
    ASSUME NEW q \in Queue, NEW r \in Nat, NEW w \in Nat, Sound(q, r, w), undelimited(q.ready)
    PROVE  Sound(putLast(q, w + 1), r, w + 1)
  <1>. DEFINE s == q.ready \o q.written
              p == q.parts
              l == <<w + 1>>
              u == (s \o p) \o l
              v == (q.written \o p) \o l
  <1>1. /\ putLast(q, w + 1).ready = q.ready
        /\ putLast(q, w + 1).written = v
        /\ putLast(q, w + 1).parts = <<>>
    <2>1. w + 1 \in Int
      OBVIOUS
    <2>. QED BY <2>1, PutLast
  <1>2. /\ q.ready \in Seq(Int) /\ q.written \in Seq(Int) /\ p \in Seq(Int) /\ l \in Seq(Int)
        /\ Len(l) = 1 /\ l[1] = w + 1
    BY DEF Queue
  <1>3. s \in Seq(Int) /\ Len(s) \in Nat /\ Len(p) \in Nat
    BY <1>2, ConcatProperties, LenProperties
  <1>4. \A k \in 1 .. Len(p) : p[k] = -(w + 1)
    BY DEF Sound
  <1>5. Chain(s, r, w) /\ undelimited(q.written)
    BY DEF Sound
  <1>6. undelimited(s)
    BY <1>2, <1>5, UndelimitedConcat
  <1>. HIDE DEF p, l
  <1>7. q.ready \o v = u
    <2>1. q.written \o p \in Seq(Int)
      BY <1>2, ConcatProperties
    <2>2. q.ready \o v = (q.ready \o (q.written \o p)) \o l
      BY <1>2, <2>1, Associative
    <2>3. q.ready \o (q.written \o p) = s \o p
      BY <1>2, Associative
    <2>. QED BY <2>2, <2>3
  <1>. HIDE DEF s
  <1>8. /\ s \o p \in Seq(Int) /\ Len(s \o p) = Len(s) + Len(p)
        /\ \A k \in 1 .. Len(s) + Len(p) : (s \o p)[k] = IF k <= Len(s) THEN s[k] ELSE p[k - Len(s)]
    BY <1>2, <1>3, ConcatProperties
  <1>9. /\ u \in Seq(Int) /\ Len(u) = (Len(s) + Len(p)) + 1
        /\ \A k \in 1 .. (Len(s) + Len(p)) + 1 :
              u[k] = IF k <= Len(s) + Len(p) THEN (s \o p)[k] ELSE l[k - (Len(s) + Len(p))]
    <2>1. /\ u \in Seq(Int) /\ Len(u) = Len(s \o p) + Len(l)
          /\ \A k \in 1 .. Len(s \o p) + Len(l) :
                u[k] = IF k <= Len(s \o p) THEN (s \o p)[k] ELSE l[k - Len(s \o p)]
      <3>. DEFINE x == s \o p
      <3>1. x \in Seq(Int)
        BY <1>8
      <3>. HIDE DEF x
      <3>2. /\ x \o l \in Seq(Int) /\ Len(x \o l) = Len(x) + Len(l)
            /\ \A k \in 1 .. Len(x) + Len(l) :
                  (x \o l)[k] = IF k <= Len(x) THEN x[k] ELSE l[k - Len(x)]
        BY <1>2, <3>1, ConcatProperties
      <3>. QED BY <3>2 DEF x
    <2>. QED BY <1>2, <1>8, <2>1
  <1>. HIDE DEF u
  <1>10. \A k \in 1 .. Len(s) : u[k] = s[k]
    <2>. SUFFICES ASSUME NEW k \in 1 .. Len(s) PROVE u[k] = s[k]
      OBVIOUS
    <2>1. k \in 1 .. Len(s) + Len(p) /\ k \in 1 .. (Len(s) + Len(p)) + 1 /\ k <= Len(s) + Len(p)
      BY <1>3
    <2>. QED BY <1>8, <1>9, <2>1
  <1>11. \A k \in Len(s) + 1 .. Len(s) + Len(p) : u[k] = -(w + 1)
    <2>. SUFFICES ASSUME NEW k \in Len(s) + 1 .. Len(s) + Len(p) PROVE u[k] = -(w + 1)
      OBVIOUS
    <2>1. /\ k \in 1 .. Len(s) + Len(p) /\ k \in 1 .. (Len(s) + Len(p)) + 1
          /\ ~ (k <= Len(s)) /\ k - Len(s) \in 1 .. Len(p)
      BY <1>3
    <2>2. u[k] = p[k - Len(s)]
      BY <1>3, <1>8, <1>9, <2>1
    <2>. QED BY <1>4, <2>1, <2>2
  <1>12. u[Len(u)] = w + 1
    <2>1. /\ Len(u) \in 1 .. (Len(s) + Len(p)) + 1 /\ ~ (Len(u) <= Len(s) + Len(p))
          /\ Len(u) - (Len(s) + Len(p)) = 1
      BY <1>3, <1>9
    <2>. QED BY <1>2, <1>9, <2>1
  <1>13. Chain(u, r, w + 1)
    BY <1>3, <1>5, <1>6, <1>9, <1>10, <1>11, <1>12, ChainWrite
  <1>14. undelimited(v)
    <2>1. undelimited(p)
      BY <1>4 DEF undelimited, Delimiter
    <2>2. undelimited(l)
      BY <1>2 DEF undelimited, Delimiter
    <2>3. q.written \o p \in Seq(Int)
      BY <1>2, ConcatProperties
    <2>4. undelimited(q.written \o p)
      BY <1>2, <1>5, <2>1, UndelimitedConcat
    <2>. QED BY <1>2, <2>2, <2>3, <2>4, UndelimitedConcat
  <1>15. Len(<<>>) = 0
    OBVIOUS
  <1>. HIDE DEF v
  <1>16. /\ Chain(putLast(q, w + 1).ready \o putLast(q, w + 1).written, r, w + 1)
         /\ undelimited(putLast(q, w + 1).written)
         /\ Len(putLast(q, w + 1).parts) = 0
    BY <1>1, <1>7, <1>13, <1>14, <1>15
  <1>. QED BY <1>16 DEF Sound

\* terminate drops the unfinished message and writes the delimiter behind the rest.
LEMMA SoundDelimited ==
    ASSUME NEW q \in Queue, NEW r \in Nat, NEW w \in Nat, Sound(q, r, w), undelimited(q.ready)
    PROVE  Sound(delimited(q), r, w)
  <1>. DEFINE s == q.ready \o q.written
              l == <<Delimiter>>
              u == s \o l
  <1>1. /\ delimited(q).ready = u
        /\ delimited(q).written = <<>>
        /\ delimited(q).parts = <<>>
    BY Delimited
  <1>2. /\ q.ready \in Seq(Int) /\ q.written \in Seq(Int) /\ l \in Seq(Int)
        /\ Len(l) = 1 /\ l[1] = Delimiter
    BY DEF Queue, Delimiter
  <1>3. s \in Seq(Int) /\ Len(s) \in Nat
    BY <1>2, ConcatProperties, LenProperties
  <1>4. Chain(s, r, w) /\ undelimited(s)
    BY <1>2, UndelimitedConcat DEF Sound
  <1>. HIDE DEF s, l
  <1>5. /\ u \in Seq(Int) /\ Len(u) = Len(s) + 1
        /\ \A k \in 1 .. Len(s) + 1 : u[k] = IF k <= Len(s) THEN s[k] ELSE l[k - Len(s)]
    <2>1. /\ u \in Seq(Int) /\ Len(u) = Len(s) + Len(l)
          /\ \A k \in 1 .. Len(s) + Len(l) : u[k] = IF k <= Len(s) THEN s[k] ELSE l[k - Len(s)]
      BY <1>2, <1>3, ConcatProperties
    <2>. QED BY <1>2, <2>1
  <1>. HIDE DEF u
  <1>6. \A k \in 1 .. Len(s) : u[k] = s[k]
    BY <1>3, <1>5
  <1>7. u[Len(u)] = Delimiter
    <2>1. /\ Len(u) \in 1 .. Len(s) + 1 /\ ~ (Len(u) <= Len(s)) /\ Len(u) - Len(s) = 1
      BY <1>3, <1>5
    <2>. QED BY <1>2, <1>5, <2>1
  <1>8. Chain(u, r, w)
    BY <1>3, <1>4, <1>5, <1>6, <1>7, ChainDelimit
  <1>9. u \o <<>> = u
    BY <1>5, ConcatEmptySeq
  <1>10. Len(<<>>) = 0
    OBVIOUS
  <1>. QED BY <1>1, <1>8, <1>9, <1>10 DEF Sound, undelimited

\* An item is read: the delimiter after everything else, or what comes next.
LEMMA SoundPopped ==
    ASSUME NEW q \in Queue, NEW r \in Nat, NEW w \in Nat, Sound(q, r, w), q.ready # <<>>
    PROVE  LET t == [q EXCEPT !.ready = Tail(@)]
               i == Head(q.ready)
           IN  /\ undelimited(q.ready) => i # Delimiter /\ undelimited(t.ready)
               /\ i = Delimiter => r = w /\ Sound(t, r, w)
               /\ i > 0 => i = r + 1 /\ Sound(t, r + 1, w)
               /\ i # Delimiter /\ ~ (i > 0) => Sound(t, r, w)
  <1>. DEFINE t == [q EXCEPT !.ready = Tail(@)]
              i == Head(q.ready)
              s == q.ready \o q.written
  <1>1. /\ t.ready = Tail(q.ready) /\ t.written = q.written /\ t.parts = q.parts
        /\ i \in Int /\ t.ready \o t.written = Tail(s) /\ s # <<>> /\ s[1] = i
    BY Popped
  <1>2. s \in Seq(Int) /\ q.ready \in Seq(Int)
    BY ConcatProperties DEF Queue
  <1>3. Chain(s, r, w)
    BY DEF Sound
  <1>4. undelimited(q.ready) => i # Delimiter /\ undelimited(t.ready)
    <2>1. /\ Len(q.ready) \in Nat \ {0} /\ Len(Tail(q.ready)) = Len(q.ready) - 1
          /\ \A k \in 1 .. Len(Tail(q.ready)) : Tail(q.ready)[k] = q.ready[k + 1]
          /\ i = q.ready[1]
      BY <1>2, HeadTailProperties, EmptySeq
    <2>. HIDE DEF i, t
    <2>2. 1 \in 1 .. Len(q.ready)
      BY <2>1
    <2>3. \A k \in 1 .. Len(Tail(q.ready)) : k + 1 \in 1 .. Len(q.ready)
      BY <2>1
    <2>. QED BY <1>1, <2>1, <2>2, <2>3 DEF undelimited
  <1>. HIDE DEF s, t, i
  <1>5. Chain(Tail(s), IF i = Delimiter THEN r ELSE IF i > 0 THEN r + 1 ELSE r, w)
    BY <1>1, <1>2, <1>3, ChainTail, ChainDelimiter
  <1>6. (i = Delimiter => r = w) /\ (i # Delimiter /\ i > 0 => i = r + 1)
    BY <1>1, <1>2, <1>3, ChainTail, ChainDelimiter
  <1>7. i > 0 => i # Delimiter
    BY DEF Delimiter
  <1>8. \A n : Chain(Tail(s), n, w) => Sound(t, n, w)
    BY <1>1 DEF Sound
  <1>. QED BY <1>4, <1>5, <1>6, <1>7, <1>8 DEF t, i

-----------------------------------------------------------------------------
(* Shapes is inductive.                                                    *)

\* The commands that are sent are commands.
LEMMA Commands ==
    ASSUME NEW type \in {"activate_read", "activate_write", "pipe_term", "pipe_term_ack"},
           NEW n \in Nat
    PROVE  /\ command(type) \in Command /\ command(type).type = type
           /\ [type |-> type, read |-> n] \in Command
  BY DEF Command, command

\* The inboxes stay sequences of commands.
LEMMA Inboxes ==
    ASSUME inbox \in [End -> Seq(Command)], NEW e \in End, NEW s \in Seq(Command),
           NEW type \in {"activate_read", "activate_write", "pipe_term", "pipe_term_ack"}
    PROVE  /\ sent(e, s) \in [End -> Seq(Command)]
           /\ inbox[e] # <<>> => /\ handled(e) \in [End -> Seq(Command)]
                                 /\ handledAndSent(e, type) \in [End -> Seq(Command)]
  <1>1. inbox[peer(e)] \o s \in Seq(Command)
    BY Peers, ConcatProperties
  <1>2. sent(e, s) \in [End -> Seq(Command)]
    BY <1>1 DEF sent
  <1>3. ASSUME inbox[e] # <<>> PROVE Tail(inbox[e]) \in Seq(Command)
    BY <1>3, HeadTailProperties
  <1>4. Append(inbox[peer(e)], command(type)) \in Seq(Command)
    <2>1. inbox[peer(e)] \in Seq(Command) /\ command(type) \in Command
      BY Peers, Commands
    <2>. QED BY <2>1, AppendProperties
  <1>5. ASSUME inbox[e] # <<>> PROVE handled(e) \in [End -> Seq(Command)]
    BY <1>3, <1>5 DEF handled
  <1>6. ASSUME inbox[e] # <<>> PROVE handledAndSent(e, type) \in [End -> Seq(Command)]
    BY <1>3, <1>4, <1>6, Peers DEF handledAndSent
  <1>. QED BY <1>2, <1>5, <1>6

\* None or one of them is sent at once.
LEMMA OneCommand ==
    ASSUME NEW c \in Command
    PROVE  <<>> \in Seq(Command) /\ <<c>> \in Seq(Command)
  OBVIOUS

\* The variables have their types at first,
LEMMA ShapesInit == Init => Shapes
  <1>. SUFFICES ASSUME Init PROVE Shapes
    OBVIOUS
  <1>1. emptyQueue \in Queue
    BY EmptySeq DEF emptyQueue, Queue
  <1>2. <<>> \in Seq(Command)
    BY EmptySeq
  <1>3. queue \in [End -> Queue] /\ inbox \in [End -> Seq(Command)]
    BY <1>1, <1>2 DEF Init
  <1>. QED BY <1>3 DEF Init, Shapes, State

\* and every action keeps them.
LEMMA ShapesNext == Shapes /\ [Next]_vars => Shapes'
  <1>. SUFFICES ASSUME Shapes, [Next]_vars PROVE Shapes'
    OBVIOUS
  <1>. USE DEF Shapes
  <1>1. CASE UNCHANGED vars
    BY <1>1 DEF vars, flowVars, historyVars
  <1>2. ASSUME NEW e \in End, CheckWriteFails(e) PROVE Shapes'
    BY <1>2 DEF CheckWriteFails, flowVars, historyVars
  <1>3. ASSUME NEW e \in End, NEW more \in BOOLEAN, Write(e, more) PROVE Shapes'
    <2>1. peer(e) \in End /\ queue[peer(e)] \in Queue
      BY Peers
    <2>2. \A n \in Nat : /\ putPart(queue[peer(e)], -(n + 1)) \in Queue
                         /\ putLast(queue[peer(e)], n + 1) \in Queue
      <3>1. \A n \in Int : putPart(queue[peer(e)], n) \in Queue /\ putLast(queue[peer(e)], n) \in Queue
        BY <2>1, PutPart, PutLast
      <3>. QED BY <3>1
    <2>3. queue' \in [End -> Queue] /\ msgsWritten' \in [End -> Nat]
      <3>1. CASE more
        <4>1. queue' = [queue EXCEPT ![peer(e)] = putPart(queue[peer(e)], -(msgsWritten[e] + 1))]
          BY <1>3, <3>1 DEF Write
        <4>2. msgsWritten' = msgsWritten
          BY <1>3, <3>1 DEF Write
        <4>. QED BY <2>1, <2>2, <4>1, <4>2
      <3>2. CASE ~more
        <4>1. queue' = [queue EXCEPT ![peer(e)] = putLast(queue[peer(e)], msgsWritten[e] + 1)]
          BY <1>3, <3>2 DEF Write
        <4>2. msgsWritten' = [msgsWritten EXCEPT ![e] = msgsWritten[e] + 1]
          BY <1>3, <3>2 DEF Write
        <4>3. putLast(queue[peer(e)], msgsWritten[e] + 1) \in Queue
          BY <2>2
        <4>4. queue' \in [End -> Queue]
          BY <2>1, <4>1, <4>3
        <4>5. msgsWritten' \in [End -> Nat]
          BY <4>2
        <4>. QED BY <4>4, <4>5
      <3>. QED BY <3>1, <3>2
    <2>. QED BY <1>3, <2>3 DEF Write, historyVars
  <1>4. ASSUME NEW e \in End, Rollback(e) PROVE Shapes'
    <2>1. peer(e) \in End /\ rollback(queue[peer(e)]) \in Queue
      BY Peers, RolledBack
    <2>2. queue' \in [End -> Queue]
      BY <1>4, <2>1 DEF Rollback
    <2>. QED BY <1>4, <2>2 DEF Rollback, flowVars, historyVars
  <1>5. ASSUME NEW e \in End, Flush(e) PROVE Shapes'
    <2>1. peer(e) \in End /\ flush(queue[peer(e)]) \in Queue
      BY Peers, Flushed
    <2>2. queue' \in [End -> Queue]
      BY <1>5, <2>1 DEF Flush
    <2>3. sent(e, <<command("activate_read")>>) \in [End -> Seq(Command)]
      BY Commands, OneCommand, Inboxes
    <2>4. inbox' \in [End -> Seq(Command)]
      BY <1>5, <2>3 DEF Flush
    <2>. QED BY <1>5, <2>2, <2>4 DEF Flush, flowVars, historyVars
  <1>6. ASSUME NEW e \in End, ReadNothing(e) PROVE Shapes'
    <2>1. queue' \in [End -> Queue]
      BY <1>6 DEF ReadNothing, Queue
    <2>. QED BY <1>6, <2>1 DEF ReadNothing, flowVars, historyVars
  <1>7. ASSUME NEW e \in End, ReadDelimiter(e) PROVE Shapes'
    <2>1. /\ peer(e) \in End /\ rollback(queue[peer(e)]) \in Queue
          /\ [queue[e] EXCEPT !.ready = Tail(@)] \in Queue
      BY <1>7, Peers, RolledBack, Popped DEF ReadDelimiter
    <2>2. queue' \in [End -> Queue]
      BY <1>7, <2>1, Peers DEF ReadDelimiter, processDelimiter
    <2>3. sent(e, <<command("pipe_term_ack")>>) \in [End -> Seq(Command)]
      BY Commands, OneCommand, Inboxes
    <2>4. inbox' \in [End -> Seq(Command)]
      BY <1>7, <2>3 DEF ReadDelimiter, processDelimiter
    <2>5. state' \in [End -> State] /\ outPipe' \in [End -> BOOLEAN]
      BY <1>7 DEF ReadDelimiter, processDelimiter, State
    <2>. QED BY <1>7, <2>2, <2>4, <2>5 DEF ReadDelimiter, flowVars, historyVars
  <1>8. ASSUME NEW e \in End, Read(e) PROVE Shapes'
    <2>1. [queue[e] EXCEPT !.ready = Tail(@)] \in Queue /\ Head(queue[e].ready) \in Int
      BY <1>8, Popped DEF Read
    <2>2. queue' \in [End -> Queue]
      BY <1>8, <2>1 DEF Read
    <2>3. PICK n \in Nat : /\ msgsRead' = [msgsRead EXCEPT ![e] = n]
                           /\ inbox' = IF tellsWriter(e, n)
                                       THEN sent(e, <<[type |-> "activate_write", read |-> n]>>)
                                       ELSE inbox
      <3>1. msgsRead[e] \in Nat /\ msgsRead[e] + 1 \in Nat
        OBVIOUS
      <3>. QED BY <1>8, <3>1 DEF Read
    <2>4. sent(e, <<[type |-> "activate_write", read |-> n]>>) \in [End -> Seq(Command)]
      BY Commands, OneCommand, Inboxes
    <2>5. msgsRead' \in [End -> Nat] /\ inbox' \in [End -> Seq(Command)]
      BY <2>3, <2>4
    <2>6. got' \in [End -> Int]
      BY <1>8, <2>1 DEF Read
    <2>. QED BY <1>8, <2>2, <2>5, <2>6 DEF Read
  <1>9. ASSUME NEW e \in End, NEW d \in BOOLEAN, TerminateAsks(e, d) PROVE Shapes'
    <2>1. peer(e) \in End /\ delimited(queue[peer(e)]) \in Queue
      BY Peers, Delimited
    <2>2. queue' \in [End -> Queue]
      BY <1>9, <2>1 DEF TerminateAsks
    <2>3. wakeUp(queue[peer(e)]) \in Seq(Command) /\ <<command("pipe_term")>> \in Seq(Command)
      BY Commands, OneCommand DEF wakeUp
    <2>4. <<command("pipe_term")>> \o wakeUp(queue[peer(e)]) \in Seq(Command)
      BY <2>3, ConcatProperties
    <2>5. inbox' \in [End -> Seq(Command)]
      BY <1>9, <2>4, Inboxes DEF TerminateAsks
    <2>6. state' \in [End -> State] /\ delay' \in [End -> BOOLEAN] /\ outActive' \in [End -> BOOLEAN]
      BY <1>9 DEF TerminateAsks, State, stopsWriting
    <2>. QED BY <1>9, <2>2, <2>5, <2>6 DEF TerminateAsks, flowVars, historyVars
  <1>10. ASSUME NEW e \in End, TerminateHurries(e) PROVE Shapes'
    <2>1. peer(e) \in End /\ rollback(queue[peer(e)]) \in Queue
      BY Peers, RolledBack
    <2>2. queue' \in [End -> Queue]
      BY <1>10, <2>1 DEF TerminateHurries
    <2>3. sent(e, <<command("pipe_term_ack")>>) \in [End -> Seq(Command)]
      BY Commands, OneCommand, Inboxes
    <2>4. state' \in [End -> State] /\ delay' \in [End -> BOOLEAN] /\ outActive' \in [End -> BOOLEAN]
      BY <1>10 DEF TerminateHurries, State, stopsWriting
    <2>. QED BY <1>10, <2>2, <2>3, <2>4 DEF TerminateHurries, flowVars
  <1>11. ASSUME NEW e \in End, TerminateWaits(e) PROVE Shapes'
    <2>1. peer(e) \in End /\ delimited(queue[peer(e)]) \in Queue
      BY Peers, Delimited
    <2>2. queue' \in [End -> Queue]
      BY <1>11, <2>1 DEF TerminateWaits
    <2>3. wakeUp(queue[peer(e)]) \in Seq(Command)
      BY Commands, OneCommand DEF wakeUp
    <2>4. inbox' \in [End -> Seq(Command)]
      BY <1>11, <2>3, Inboxes DEF TerminateWaits
    <2>5. delay' \in [End -> BOOLEAN] /\ outActive' \in [End -> BOOLEAN]
      BY <1>11 DEF TerminateWaits, stopsWriting
    <2>. QED BY <1>11, <2>2, <2>4, <2>5 DEF TerminateWaits, flowVars, historyVars
  <1>12. ASSUME NEW e \in End, ProcessActivateRead(e) PROVE Shapes'
    <2>1. inbox' \in [End -> Seq(Command)]
      BY <1>12, Inboxes, EmptySeq DEF ProcessActivateRead, arrives
    <2>2. inActive' \in [End -> BOOLEAN]
      BY <1>12 DEF ProcessActivateRead
    <2>. QED BY <1>12, <2>1, <2>2 DEF ProcessActivateRead, flowVars, historyVars
  <1>13. ASSUME NEW e \in End, ProcessActivateWrite(e) PROVE Shapes'
    <2>1. inbox' \in [End -> Seq(Command)]
      BY <1>13, Inboxes, EmptySeq DEF ProcessActivateWrite, arrives
    <2>2. Head(inbox[e]) \in Command
      BY <1>13, HeadTailProperties DEF ProcessActivateWrite, arrives
    <2>3. peersRead' \in [End -> Nat]
      BY <1>13, <2>2 DEF ProcessActivateWrite, Command
    <2>4. outActive' \in [End -> BOOLEAN]
      BY <1>13 DEF ProcessActivateWrite
    <2>. QED BY <1>13, <2>1, <2>3, <2>4 DEF ProcessActivateWrite, historyVars
  <1>14. ASSUME NEW e \in End, ProcessPipeTerm(e) PROVE Shapes'
    <2>1. /\ handled(e) \in [End -> Seq(Command)]
          /\ handledAndSent(e, "pipe_term_ack") \in [End -> Seq(Command)]
      BY <1>14, Inboxes, EmptySeq DEF ProcessPipeTerm, arrives
    <2>2. /\ inbox' \in [End -> Seq(Command)] /\ state' \in [End -> State]
          /\ outPipe' \in [End -> BOOLEAN] /\ hurried' \in [End -> BOOLEAN]
      <3>1. CASE TermWhileActive(e)
        BY <2>1, <3>1 DEF TermWhileActive, State
      <3>2. CASE TermWithoutDelay(e)
        BY <2>1, <3>2 DEF TermWithoutDelay, State
      <3>3. CASE TermAcknowledged(e)
        BY <2>1, <3>3 DEF TermAcknowledged, State
      <3>. QED BY <1>14, <3>1, <3>2, <3>3 DEF ProcessPipeTerm
    <2>. QED BY <1>14, <2>2 DEF ProcessPipeTerm, flowVars
  <1>15. ASSUME NEW e \in End, ProcessPipeTermAck(e) PROVE Shapes'
    <2>1. /\ handled(e) \in [End -> Seq(Command)]
          /\ handledAndSent(e, "pipe_term_ack") \in [End -> Seq(Command)]
      BY <1>15, Inboxes, EmptySeq DEF ProcessPipeTermAck, arrives
    <2>2. /\ inbox' \in [End -> Seq(Command)] /\ state' \in [End -> State]
          /\ outPipe' \in [End -> BOOLEAN]
      BY <1>15, <2>1 DEF ProcessPipeTermAck, State
    <2>. QED BY <1>15, <2>2 DEF ProcessPipeTermAck, flowVars
  <1>. QED
    BY <1>1, <1>2, <1>3, <1>4, <1>5, <1>6, <1>7, <1>8, <1>9, <1>10, <1>11, <1>12, <1>13, <1>14,
       <1>15 DEF Next, Owner, Reader, CheckRead, Process, Terminate

-----------------------------------------------------------------------------
(* Content is inductive.                                                   *)

\* Nothing that concerns the messages to an end has changed.
LEMMA HeldKept ==
    ASSUME NEW x \in End, Held(x),
           Sound(queue'[x], msgsRead[x], msgsWritten[peer(x)]),
           undelimited(queue[x].ready) => undelimited(queue'[x].ready),
           msgsRead'[x] = msgsRead[x], msgsWritten'[peer(x)] = msgsWritten[peer(x)],
           got'[x] = got[x],
           state'[peer(x)] \in {"active", "delimiter_received"}
              => state[peer(x)] \in {"active", "delimiter_received"}
    PROVE  Held(x)'
  BY DEF Held

\* The queues are empty at first.
LEMMA ContentInit == Init => Content
  <1>. SUFFICES ASSUME Init, NEW e \in End PROVE Held(e)
    BY DEF Content
  <1>1. /\ queue[e].ready = <<>> /\ queue[e].written = <<>> /\ queue[e].parts = <<>>
        /\ msgsRead[e] = 0 /\ got[e] = 0 /\ msgsWritten[peer(e)] = 0
    BY Peers DEF Init, emptyQueue
  <1>2. <<>> \o <<>> = <<>> /\ Len(<<>>) = 0
    BY ConcatEmptySeq, EmptySeq
  <1>3. Chain(<<>>, 0, 0)
    BY <1>2 DEF Chain
  <1>. QED BY <1>1, <1>2, <1>3 DEF Held, Sound, undelimited

\* Every action leaves sound queues, the undelimited ones of an end that may still write.
LEMMA ContentNext == Shapes /\ Content /\ [Next]_vars => Content'
  <1>. SUFFICES ASSUME Shapes, Content, [Next]_vars PROVE Content'
    OBVIOUS
  <1>0. /\ queue \in [End -> Queue] /\ msgsRead \in [End -> Nat] /\ msgsWritten \in [End -> Nat]
        /\ state \in [End -> State] /\ got \in [End -> Int]
    BY DEF Shapes
  <1>a. \A x \in End : Held(x)
    BY DEF Content
  <1>b. \A x \in End : /\ Sound(queue[x], msgsRead[x], msgsWritten[peer(x)]) /\ got[x] = msgsRead[x]
                       /\ state[peer(x)] \in {"active", "delimiter_received"}
                             => undelimited(queue[x].ready)
    BY <1>a DEF Held
  <1>1. ASSUME queue' = queue, msgsRead' = msgsRead, msgsWritten' = msgsWritten, got' = got,
               \A x \in End : state'[x] \in {"active", "delimiter_received"}
                                 => state[x] \in {"active", "delimiter_received"}
        PROVE  Content'
    <2>. SUFFICES ASSUME NEW x \in End PROVE Held(x)'
      BY DEF Content
    <2>. QED BY <1>1, <1>a, <1>b, Peers, HeldKept
  <1>2. CASE UNCHANGED vars
    BY <1>1, <1>2 DEF vars, flowVars, historyVars
  <1>3. ASSUME NEW e \in End, CheckWriteFails(e) \/ ProcessActivateRead(e) PROVE Content'
    BY <1>1, <1>3 DEF CheckWriteFails, ProcessActivateRead, flowVars, historyVars
  <1>4. ASSUME NEW e \in End, ProcessActivateWrite(e) PROVE Content'
    BY <1>1, <1>4 DEF ProcessActivateWrite, historyVars
  <1>5. ASSUME NEW e \in End, ProcessPipeTerm(e) PROVE Content'
    <2>1. \A x \in End : state'[x] \in {"active", "delimiter_received"}
                            => state[x] \in {"active", "delimiter_received"}
      BY <1>0, <1>5 DEF ProcessPipeTerm, TermWhileActive, TermWithoutDelay, TermAcknowledged
    <2>. QED BY <1>1, <1>5, <2>1 DEF ProcessPipeTerm, flowVars
  <1>6. ASSUME NEW e \in End, ProcessPipeTermAck(e) PROVE Content'
    <2>1. \A x \in End : state'[x] \in {"active", "delimiter_received"}
                            => state[x] \in {"active", "delimiter_received"}
      BY <1>0, <1>6 DEF ProcessPipeTermAck
    <2>. QED BY <1>1, <1>6, <2>1 DEF ProcessPipeTermAck, flowVars
  \* The queue that e writes changes, and what it holds does not.
  <1>7. ASSUME NEW e \in End, msgsRead' = msgsRead, msgsWritten' = msgsWritten, got' = got,
               \A x \in End : state'[x] \in {"active", "delimiter_received"}
                                 => state[x] \in {"active", "delimiter_received"},
               queue'[e] = queue[e],
               Sound(queue'[peer(e)], msgsRead[peer(e)], msgsWritten[e]),
               state'[e] \in {"active", "delimiter_received"}
                  => undelimited(queue'[peer(e)].ready)
        PROVE  Content'
    <2>1. Held(e)'
      BY <1>7, <1>a, <1>b, Peers, HeldKept
    <2>2. Held(peer(e))'
      BY <1>7, <1>b, Peers DEF Held
    <2>. QED BY <2>1, <2>2, Peers DEF Content
  <1>8. ASSUME NEW e \in End, Rollback(e) PROVE Content'
    <2>1. queue'[e] = queue[e] /\ queue'[peer(e)] = rollback(queue[peer(e)])
      BY <1>0, <1>8, Peers DEF Rollback
    <2>2. Sound(queue'[peer(e)], msgsRead[peer(e)], msgsWritten[e])
      BY <1>0, <1>b, <2>1, Peers, SoundRolledBack
    <2>3. queue'[peer(e)].ready = queue[peer(e)].ready
      BY <1>0, <2>1, Peers, RolledBack
    <2>4. state[e] \in {"active", "delimiter_received"} => undelimited(queue[peer(e)].ready)
      BY <1>b, Peers
    <2>. QED BY <1>7, <1>8, <2>1, <2>2, <2>3, <2>4 DEF Rollback, flowVars, historyVars
  <1>9. ASSUME NEW e \in End, Flush(e) PROVE Content'
    <2>1. queue'[e] = queue[e] /\ queue'[peer(e)] = flush(queue[peer(e)])
      BY <1>0, <1>9, Peers DEF Flush
    <2>2. /\ Sound(queue'[peer(e)], msgsRead[peer(e)], msgsWritten[e])
          /\ undelimited(queue[peer(e)].ready) => undelimited(queue'[peer(e)].ready)
      BY <1>0, <1>b, <2>1, Peers, SoundFlushed
    <2>3. state[e] \in {"active", "delimiter_received"} => undelimited(queue[peer(e)].ready)
      BY <1>b, Peers
    <2>. QED BY <1>7, <1>9, <2>1, <2>2, <2>3 DEF Flush, flowVars, historyVars
  <1>10. ASSUME NEW e \in End, TerminateHurries(e) PROVE Content'
    <2>1. queue'[e] = queue[e] /\ queue'[peer(e)] = rollback(queue[peer(e)])
      BY <1>0, <1>10, Peers DEF TerminateHurries
    <2>2. Sound(queue'[peer(e)], msgsRead[peer(e)], msgsWritten[e])
      BY <1>0, <1>b, <2>1, Peers, SoundRolledBack
    <2>3. /\ state'[e] = "term_ack_sent"
          /\ \A x \in End : state'[x] \in {"active", "delimiter_received"}
                               => state[x] \in {"active", "delimiter_received"}
      BY <1>0, <1>10 DEF TerminateHurries
    <2>. QED BY <1>7, <1>10, <2>1, <2>2, <2>3 DEF TerminateHurries, flowVars
  <1>11. ASSUME NEW e \in End, NEW d \in BOOLEAN, TerminateAsks(e, d) PROVE Content'
    <2>1. queue'[e] = queue[e] /\ queue'[peer(e)] = delimited(queue[peer(e)])
      BY <1>0, <1>11, Peers DEF TerminateAsks
    <2>2. undelimited(queue[peer(e)].ready)
      BY <1>b, <1>11, Peers DEF TerminateAsks
    <2>3. Sound(queue'[peer(e)], msgsRead[peer(e)], msgsWritten[e])
      BY <1>0, <1>b, <2>1, <2>2, Peers, SoundDelimited
    <2>4. /\ state'[e] = "term_req_sent1"
          /\ \A x \in End : state'[x] \in {"active", "delimiter_received"}
                               => state[x] \in {"active", "delimiter_received"}
      BY <1>0, <1>11 DEF TerminateAsks
    <2>. QED BY <1>7, <1>11, <2>1, <2>3, <2>4 DEF TerminateAsks, flowVars, historyVars
  <1>12. ASSUME NEW e \in End, TerminateWaits(e) PROVE Content'
    <2>1. queue'[e] = queue[e] /\ queue'[peer(e)] = delimited(queue[peer(e)])
      BY <1>0, <1>12, Peers DEF TerminateWaits
    <2>2. undelimited(queue[peer(e)].ready)
      BY <1>12 DEF TerminateWaits, undelimited
    <2>3. Sound(queue'[peer(e)], msgsRead[peer(e)], msgsWritten[e])
      BY <1>0, <1>b, <2>1, <2>2, Peers, SoundDelimited
    <2>4. state'[e] = "waiting_for_delimiter"
      BY <1>12 DEF TerminateWaits
    <2>. QED BY <1>7, <1>12, <2>1, <2>3, <2>4 DEF TerminateWaits, flowVars, historyVars
  <1>13. ASSUME NEW e \in End, Write(e, TRUE) PROVE Content'
    <2>1. /\ queue'[e] = queue[e]
          /\ queue'[peer(e)] = putPart(queue[peer(e)], -(msgsWritten[e] + 1))
          /\ msgsWritten' = msgsWritten
      BY <1>0, <1>13, Peers DEF Write
    <2>2. Sound(queue'[peer(e)], msgsRead[peer(e)], msgsWritten[e])
      BY <1>0, <1>b, <2>1, Peers, SoundPutPart
    <2>3. queue'[peer(e)].ready = queue[peer(e)].ready
      <3>1. queue[peer(e)] \in Queue /\ -(msgsWritten[e] + 1) \in Int
        BY <1>0, Peers
      <3>. QED BY <2>1, <3>1, PutPart
    <2>4. undelimited(queue[peer(e)].ready)
      BY <1>13, <1>b, Peers DEF Write
    <2>. QED BY <1>7, <1>13, <2>1, <2>2, <2>3, <2>4 DEF Write, historyVars
  <1>14. ASSUME NEW e \in End, Write(e, FALSE) PROVE Content'
    <2>1. /\ queue'[e] = queue[e]
          /\ queue'[peer(e)] = putLast(queue[peer(e)], msgsWritten[e] + 1)
          /\ msgsWritten'[e] = msgsWritten[e] + 1 /\ msgsWritten'[peer(e)] = msgsWritten[peer(e)]
          /\ UNCHANGED <<state, msgsRead, got>>
      BY <1>0, <1>14, Peers DEF Write, historyVars
    <2>2. undelimited(queue[peer(e)].ready)
      BY <1>14, <1>b, Peers DEF Write
    <2>3. Sound(queue'[peer(e)], msgsRead[peer(e)], msgsWritten[e] + 1)
      BY <1>0, <1>b, <2>1, <2>2, Peers, SoundPutLast
    <2>4. queue'[peer(e)].ready = queue[peer(e)].ready
      <3>1. queue[peer(e)] \in Queue /\ msgsWritten[e] + 1 \in Int
        BY <1>0, Peers
      <3>. QED BY <2>1, <3>1, PutLast
    <2>5. Held(peer(e))'
      BY <1>b, <2>1, <2>2, <2>3, <2>4, Peers DEF Held
    <2>6. Held(e)'
      BY <1>a, <1>b, <2>1, Peers, HeldKept
    <2>. QED BY <2>5, <2>6, Peers DEF Content
  <1>15. ASSUME NEW e \in End, ReadNothing(e) PROVE Content'
    <2>1. /\ \A x \in End : queue'[x].ready = queue[x].ready /\ queue'[x].written = queue[x].written
                                                          /\ queue'[x].parts = queue[x].parts
          /\ UNCHANGED <<state, msgsRead, msgsWritten, got>>
      BY <1>0, <1>15 DEF ReadNothing, Queue, flowVars, historyVars
    <2>. SUFFICES ASSUME NEW x \in End PROVE Held(x)'
      BY DEF Content
    <2>2. Sound(queue'[x], msgsRead[x], msgsWritten[peer(x)])
      BY <1>b, <2>1 DEF Sound
    <2>. QED BY <1>a, <2>1, <2>2, HeldKept
  <1>16. ASSUME NEW e \in End, Read(e) PROVE Content'
    <2>. DEFINE q == queue[e]
                i == Head(q.ready)
                t == [q EXCEPT !.ready = Tail(@)]
    <2>1. /\ queue'[e] = t /\ queue'[peer(e)] = queue[peer(e)]
          /\ q.ready # <<>> /\ i # Delimiter
          /\ UNCHANGED <<state, msgsWritten>>
      BY <1>0, <1>16, Peers DEF Read
    <2>2. /\ msgsRead'[e] = IF i > 0 THEN msgsRead[e] + 1 ELSE msgsRead[e]
          /\ got'[e] = IF i > 0 THEN i ELSE got[e]
          /\ msgsRead'[peer(e)] = msgsRead[peer(e)] /\ got'[peer(e)] = got[peer(e)]
      BY <1>0, <1>16, Peers DEF Read
    <2>3. /\ undelimited(q.ready) => undelimited(t.ready)
          /\ i > 0 => i = msgsRead[e] + 1 /\ Sound(t, msgsRead[e] + 1, msgsWritten[peer(e)])
          /\ ~ (i > 0) => Sound(t, msgsRead[e], msgsWritten[peer(e)])
      BY <1>0, <1>b, <2>1, Peers, SoundPopped
    <2>4. Held(e)'
      <3>. HIDE DEF q, i, t
      <3>1. Sound(t, msgsRead'[e], msgsWritten[peer(e)]) /\ got'[e] = msgsRead'[e]
        BY <1>b, <2>2, <2>3
      <3>. QED BY <1>b, <2>1, <2>3, <3>1 DEF Held, q
    <2>5. Held(peer(e))'
      BY <1>a, <1>b, <2>1, <2>2, Peers, HeldKept
    <2>. QED BY <2>4, <2>5, Peers DEF Content
  <1>17. ASSUME NEW e \in End, ReadDelimiter(e) PROVE Content'
    <2>. DEFINE q == queue[e]
                t == [q EXCEPT !.ready = Tail(@)]
    <2>1. /\ queue'[e] = t /\ queue'[peer(e)] \in {queue[peer(e)], rollback(queue[peer(e)])}
          /\ q.ready # <<>> /\ Head(q.ready) = Delimiter
          /\ UNCHANGED <<msgsRead, msgsWritten, got>>
          /\ state'[peer(e)] = state[peer(e)]
          /\ state'[e] = "active" \/ state'[e] = "delimiter_received" => state[e] = "active"
      BY <1>0, <1>17, Peers DEF ReadDelimiter, processDelimiter, flowVars, historyVars
    <2>2. /\ undelimited(q.ready) => undelimited(t.ready)
          /\ Sound(t, msgsRead[e], msgsWritten[peer(e)])
      BY <1>0, <1>b, <2>1, Peers, SoundPopped
    <2>3. Held(e)'
      BY <1>a, <2>1, <2>2, HeldKept
    <2>4. /\ Sound(queue'[peer(e)], msgsRead[peer(e)], msgsWritten[e])
          /\ queue'[peer(e)].ready = queue[peer(e)].ready
      BY <1>0, <1>b, <2>1, Peers, SoundRolledBack, RolledBack
    <2>5. Held(peer(e))'
      BY <1>a, <2>1, <2>4, Peers, HeldKept
    <2>. QED BY <2>3, <2>5, Peers DEF Content
  <1>. QED
    BY <1>2, <1>3, <1>4, <1>5, <1>6, <1>8, <1>9, <1>10, <1>11, <1>12, <1>13, <1>14, <1>15, <1>16,
       <1>17 DEF Next, Owner, Reader, CheckRead, Process, Terminate

-----------------------------------------------------------------------------
(* Handshake is inductive.                                                 *)

\* Both ends are active and no command is on its way.
LEMMA HandshakeInit == Init => Handshake
  <1>. SUFFICES ASSUME Init PROVE Handshake
    OBVIOUS
  <1>1. /\ \A e \in End : peer(e) \in End
        /\ \A e \in End : state[e] = "active" /\ inbox[e] = <<>> /\ outPipe[e]
    BY Peers DEF Init
  <1>2. Pairs
    BY <1>1 DEF Pairs
  <1>3. Len(<<>>) = 0
    OBVIOUS
  <1>4. \A e \in End : LastAck(inbox[e]) /\ OneTerm(inbox[e])
    BY <1>1, <1>3 DEF LastAck, OneTerm
  <1>5. \A e \in End : ~has(inbox[e], "pipe_term") /\ ~has(inbox[e], "pipe_term_ack")
    BY <1>1, <1>3 DEF has
  <1>6. \A e \in End : ~asked(e) /\ ~acknowledged(e)
    BY <1>1 DEF asked, acknowledged
  <1>. QED BY <1>1, <1>2, <1>4, <1>5, <1>6 DEF Handshake, Expected

\* What is sent to an end that was not acknowledged.
LEMMA ExpectedAppend ==
    ASSUME inbox \in [End -> Seq(Command)], NEW x \in End, NEW c \in Command,
           Expected(x), ~acknowledged(x), c.type = "pipe_term" => ~asked(x)
    PROVE  /\ LastAck(Append(inbox[x], c)) /\ OneTerm(Append(inbox[x], c))
           /\ has(Append(inbox[x], c), "pipe_term") <=> asked(x) \/ c.type = "pipe_term"
           /\ has(Append(inbox[x], c), "pipe_term_ack") <=> c.type = "pipe_term_ack"
  <1>1. /\ inbox[x] \in Seq(Command) /\ LastAck(inbox[x]) /\ OneTerm(inbox[x])
        /\ has(inbox[x], "pipe_term") <=> asked(x)
        /\ ~has(inbox[x], "pipe_term_ack")
    BY DEF Expected
  <1>. QED BY <1>1, HasAppend, OrderAppend

\* What is left when an end handles a command.
LEMMA ExpectedTail ==
    ASSUME inbox \in [End -> Seq(Command)], NEW x \in End, Expected(x), inbox[x] # <<>>
    PROVE  /\ LastAck(Tail(inbox[x])) /\ OneTerm(Tail(inbox[x]))
           /\ Head(inbox[x]).type \notin {"pipe_term", "pipe_term_ack"} =>
                 /\ has(Tail(inbox[x]), "pipe_term") <=> asked(x)
                 /\ has(Tail(inbox[x]), "pipe_term_ack") <=> acknowledged(x)
           /\ Head(inbox[x]).type = "pipe_term" =>
                 /\ asked(x) /\ ~has(Tail(inbox[x]), "pipe_term")
                 /\ has(Tail(inbox[x]), "pipe_term_ack") <=> acknowledged(x)
           /\ Head(inbox[x]).type = "pipe_term_ack" =>
                 acknowledged(x) /\ ~asked(x) /\ Tail(inbox[x]) = <<>>
           /\ state[x] # "gone"
  <1>1. /\ inbox[x] \in Seq(Command) /\ LastAck(inbox[x]) /\ OneTerm(inbox[x])
        /\ has(inbox[x], "pipe_term") <=> asked(x)
        /\ has(inbox[x], "pipe_term_ack") <=> acknowledged(x)
        /\ state[x] # "gone"
    BY DEF Expected
  <1>. QED BY <1>1, HasTail, OrderTail

\* Every action leaves a pair of states and the commands it calls for.
LEMMA HandshakeNext == Shapes /\ Content /\ Handshake /\ [Next]_vars => Handshake'
  <1>. SUFFICES ASSUME Shapes, Content, Handshake, [Next]_vars PROVE Handshake'
    OBVIOUS
  <1>0. /\ state \in [End -> State] /\ inbox \in [End -> Seq(Command)]
        /\ outPipe \in [End -> BOOLEAN] /\ queue \in [End -> Queue]
    BY DEF Shapes
  <1>p. Pairs
    BY DEF Handshake
  <1>x. \A x \in End : Expected(x)
    BY DEF Handshake
  <1>o. \A x \in End : outPipe[x] <=> state[x] \in {"active", "delimiter_received",
                                                    "waiting_for_delimiter", "term_req_sent1"}
    BY <1>x DEF Expected
  <1>1. ASSUME UNCHANGED <<state, inbox, outPipe>> PROVE Handshake'
    BY <1>1 DEF Handshake, Pairs, Expected, asked, acknowledged
  \* A wake-up on its way to the peer of an end that still writes.
  <1>2. ASSUME NEW e \in End, NEW c \in Command, c.type \in {"activate_read", "activate_write"},
               state[e] \in {"active", "delimiter_received", "waiting_for_delimiter",
                             "term_req_sent1"},
               state' = state, outPipe' = outPipe,
               inbox' = [inbox EXCEPT ![peer(e)] = Append(@, c)]
        PROVE  Handshake'
    <2>1. peer(e) \in End /\ peer(e) # e /\ peer(peer(e)) = e
      BY Peers
    <2>2. ~acknowledged(peer(e)) /\ state[peer(e)] # "gone"
      BY <1>2, <1>p, <2>1 DEF acknowledged, Pairs
    <2>3. /\ inbox'[peer(e)] = Append(inbox[peer(e)], c) /\ inbox'[e] = inbox[e]
      BY <1>0, <1>2, <2>1
    <2>4. /\ LastAck(inbox'[peer(e)]) /\ OneTerm(inbox'[peer(e)])
          /\ has(inbox'[peer(e)], "pipe_term") <=> asked(peer(e))
          /\ has(inbox'[peer(e)], "pipe_term_ack") <=> acknowledged(peer(e))
      BY <1>0, <1>2, <1>x, <2>1, <2>2, <2>3, ExpectedAppend
    <2>5. Expected(peer(e))'
      BY <1>2, <1>x, <2>1, <2>2, <2>4 DEF Expected, asked, acknowledged
    <2>6. Expected(e)'
      BY <1>2, <1>x, <2>3 DEF Expected, asked, acknowledged
    <2>7. Pairs'
      BY <1>2, <1>p DEF Pairs
    <2>. QED BY <2>5, <2>6, <2>7, Peers DEF Handshake
  \* A wake-up is handled.
  <1>3. ASSUME NEW e \in End, inbox[e] # <<>>,
               Head(inbox[e]).type \in {"activate_read", "activate_write"},
               state' = state, outPipe' = outPipe, inbox' = handled(e)
        PROVE  Handshake'
    <2>1. peer(e) \in End /\ peer(e) # e /\ peer(peer(e)) = e
      BY Peers
    <2>2. inbox'[e] = Tail(inbox[e]) /\ inbox'[peer(e)] = inbox[peer(e)]
      BY <1>0, <1>3, <2>1 DEF handled
    <2>3. /\ LastAck(inbox'[e]) /\ OneTerm(inbox'[e]) /\ state[e] # "gone"
          /\ has(inbox'[e], "pipe_term") <=> asked(e)
          /\ has(inbox'[e], "pipe_term_ack") <=> acknowledged(e)
      BY <1>0, <1>3, <1>x, <2>2, ExpectedTail
    <2>4. Expected(e)'
      BY <1>3, <1>x, <2>3 DEF Expected, asked, acknowledged
    <2>5. Expected(peer(e))'
      BY <1>3, <1>x, <2>1, <2>2 DEF Expected, asked, acknowledged
    <2>6. Pairs'
      BY <1>3, <1>p DEF Pairs
    <2>. QED BY <2>4, <2>5, <2>6, Peers DEF Handshake
  \* The termination the peer asked for is acknowledged after the delimiter, or at once.
  <1>4. ASSUME NEW e \in End, state[e] = "waiting_for_delimiter",
               state' = [state EXCEPT ![e] = "term_ack_sent"],
               outPipe' = [outPipe EXCEPT ![e] = FALSE],
               inbox' = sent(e, <<command("pipe_term_ack")>>)
        PROVE  Handshake'
    <2>1. peer(e) \in End /\ peer(e) # e /\ peer(peer(e)) = e /\ \A x \in End : x = e \/ x = peer(e)
      BY Peers
    <2>2. state[peer(e)] = "term_req_sent1"
      BY <1>4, <1>p DEF Pairs
    <2>3. /\ state'[e] = "term_ack_sent" /\ state'[peer(e)] = "term_req_sent1"
          /\ ~outPipe'[e] /\ outPipe'[peer(e)] = outPipe[peer(e)]
      BY <1>0, <1>4, <2>1, <2>2
    <2>4. command("pipe_term_ack") \in Command /\ command("pipe_term_ack").type = "pipe_term_ack"
      BY Commands
    <2>5. inbox'[e] = inbox[e] /\ inbox'[peer(e)] = Append(inbox[peer(e)], command("pipe_term_ack"))
      BY <1>0, <1>4, <2>1, <2>4, Sending DEF sent
    <2>6. ~acknowledged(peer(e)) /\ ~asked(peer(e))
      BY <1>4, <2>1, <2>2 DEF acknowledged, asked
    <2>7. /\ LastAck(inbox'[peer(e)]) /\ OneTerm(inbox'[peer(e)])
          /\ ~has(inbox'[peer(e)], "pipe_term") /\ has(inbox'[peer(e)], "pipe_term_ack")
      BY <1>0, <1>x, <2>1, <2>4, <2>5, <2>6, ExpectedAppend
    <2>8. ~asked(peer(e))' /\ acknowledged(peer(e))'
      BY <2>1, <2>3 DEF asked, acknowledged
    <2>9. Expected(peer(e))'
      BY <1>o, <2>1, <2>2, <2>3, <2>7, <2>8 DEF Expected
    <2>10. ~asked(e) /\ ~acknowledged(e) /\ ~asked(e)' /\ ~acknowledged(e)'
      BY <1>4, <2>2, <2>3 DEF asked, acknowledged
    <2>11. Expected(e)'
      BY <1>x, <2>3, <2>5, <2>10 DEF Expected
    <2>12. Pairs'
      BY <2>1, <2>3 DEF Pairs
    <2>. QED BY <2>1, <2>9, <2>11, <2>12 DEF Handshake
  <1>5. CASE UNCHANGED vars
    BY <1>1, <1>5 DEF vars
  <1>6. ASSUME NEW e \in End,
               \/ CheckWriteFails(e) \/ Rollback(e) \/ ReadNothing(e)
               \/ \E more \in BOOLEAN : Write(e, more)
        PROVE  Handshake'
    BY <1>1, <1>6 DEF CheckWriteFails, Rollback, ReadNothing, Write
  <1>7. ASSUME NEW e \in End, Flush(e) PROVE Handshake'
    <2>1. command("activate_read") \in Command /\ command("activate_read").type = "activate_read"
      BY Commands
    <2>2. sent(e, <<command("activate_read")>>)
             = [inbox EXCEPT ![peer(e)] = Append(@, command("activate_read"))]
      BY <1>0, <2>1, Peers, Sending DEF sent
    <2>. QED BY <1>1, <1>2, <1>7, <1>o, <2>1, <2>2 DEF Flush
  <1>8. ASSUME NEW e \in End, Read(e) PROVE Handshake'
    <2>1. state[e] \in {"active", "waiting_for_delimiter"} /\ UNCHANGED <<state, outPipe>>
      BY <1>8 DEF Read, mayRead
    <2>2. PICK n \in Nat : inbox' = IF tellsWriter(e, n)
                                    THEN sent(e, <<[type |-> "activate_write", read |-> n]>>)
                                    ELSE inbox
      <3>1. msgsRead[e] \in Nat /\ msgsRead[e] + 1 \in Nat
        BY DEF Shapes
      <3>. QED BY <1>8, <3>1 DEF Read
    <2>. DEFINE c == [type |-> "activate_write", read |-> n]
    <2>3. c \in Command /\ c.type = "activate_write"
      BY DEF Command
    <2>. HIDE DEF c
    <2>4. sent(e, <<c>>) = [inbox EXCEPT ![peer(e)] = Append(@, c)]
      BY <1>0, <2>3, Peers, Sending DEF sent
    <2>5. inbox' = inbox \/ inbox' = sent(e, <<c>>)
      BY <2>2 DEF c
    <2>. QED BY <1>1, <1>2, <2>1, <2>3, <2>4, <2>5
  <1>9. ASSUME NEW e \in End, TerminateHurries(e) PROVE Handshake'
    BY <1>4, <1>9 DEF TerminateHurries
  <1>10. ASSUME NEW e \in End, TerminateWaits(e) PROVE Handshake'
    <2>1. command("activate_read") \in Command /\ command("activate_read").type = "activate_read"
      BY Commands
    <2>2. sent(e, <<command("activate_read")>>)
             = [inbox EXCEPT ![peer(e)] = Append(@, command("activate_read"))]
      BY <1>0, <2>1, Peers, Sending DEF sent
    <2>3. sent(e, <<>>) = inbox
      <3>1. inbox[peer(e)] \o <<>> = inbox[peer(e)]
        BY <1>0, Peers, ConcatEmptySeq
      <3>. QED BY <1>0, <3>1 DEF sent
    <2>. QED BY <1>1, <1>2, <1>10, <2>1, <2>2, <2>3 DEF TerminateWaits, wakeUp
  <1>11. ASSUME NEW e \in End, ProcessActivateRead(e) \/ ProcessActivateWrite(e) PROVE Handshake'
    BY <1>3, <1>11 DEF ProcessActivateRead, ProcessActivateWrite, arrives
  <1>12. ASSUME NEW e \in End, ReadDelimiter(e) PROVE Handshake'
    <2>1. CASE state[e] = "active"
      <3>1. peer(e) \in End /\ peer(e) # e /\ peer(peer(e)) = e /\ \A x \in End : x = e \/ x = peer(e)
        BY Peers
      <3>2. ~undelimited(queue[e].ready)
        <4>1. queue[e] \in Queue /\ queue[e].ready # <<>> /\ Head(queue[e].ready) = Delimiter
          BY <1>0, <1>12 DEF ReadDelimiter
        <4>2. Sound(queue[e], msgsRead[e], msgsWritten[peer(e)])
          BY DEF Content, Held
        <4>3. msgsRead[e] \in Nat /\ msgsWritten[peer(e)] \in Nat
          BY <3>1 DEF Shapes
        <4>. QED BY <4>1, <4>2, <4>3, SoundPopped
      <3>3. state[peer(e)] \notin {"active", "delimiter_received"}
        BY <3>2 DEF Content, Held
      <3>4. state[peer(e)] = "term_req_sent1"
        BY <1>p, <2>1, <3>3 DEF Pairs
      <3>5. /\ state'[e] = "delimiter_received" /\ state'[peer(e)] = "term_req_sent1"
            /\ UNCHANGED <<inbox, outPipe>>
        BY <1>0, <1>12, <2>1, <3>1, <3>4 DEF ReadDelimiter, processDelimiter
      <3>6. Expected(e)'
        BY <1>x, <2>1, <3>4, <3>5 DEF Expected, asked, acknowledged
      <3>7. Expected(peer(e))'
        BY <1>x, <2>1, <3>1, <3>4, <3>5 DEF Expected, asked, acknowledged
      <3>8. Pairs'
        BY <3>1, <3>5 DEF Pairs
      <3>. QED BY <3>1, <3>6, <3>7, <3>8 DEF Handshake
    <2>2. CASE state[e] # "active"
      <3>1. state[e] = "waiting_for_delimiter"
        BY <1>12, <2>2 DEF ReadDelimiter, mayRead
      <3>. QED BY <1>4, <1>12, <2>2, <3>1 DEF ReadDelimiter, processDelimiter
    <2>. QED BY <2>1, <2>2
  <1>13. ASSUME NEW e \in End, NEW d \in BOOLEAN, TerminateAsks(e, d) PROVE Handshake'
    <2>. DEFINE y == peer(e)
                c == command("pipe_term")
                w == command("activate_read")
    <2>1. y \in End /\ y # e /\ peer(y) = e /\ \A x \in End : x = e \/ x = y
      BY Peers
    <2>2. c \in Command /\ c.type = "pipe_term" /\ w \in Command /\ w.type = "activate_read"
      BY Commands
    <2>3. /\ state[e] \in {"active", "delimiter_received"}
          /\ state[y] \in {"active", "term_req_sent1"}
      BY <1>13, <1>p DEF TerminateAsks, Pairs
    <2>4. /\ state'[e] = "term_req_sent1" /\ state'[y] = state[y] /\ outPipe' = outPipe
      BY <1>0, <1>13, <2>1 DEF TerminateAsks
    <2>5. /\ inbox'[e] = inbox[e]
          /\ inbox'[y] = Append(inbox[y], c) \/ inbox'[y] = Append(Append(inbox[y], c), w)
      <3>1. /\ inbox'[e] = inbox[e]
            /\ inbox'[y] = inbox[y] \o (<<c>> \o <<>>) \/ inbox'[y] = inbox[y] \o (<<c>> \o <<w>>)
        BY <1>0, <1>13, <2>1 DEF TerminateAsks, sent, wakeUp
      <3>2. inbox[y] \in Seq(Command)
        BY <1>0, <2>1
      <3>. HIDE DEF c, w
      <3>. QED BY <2>2, <3>1, <3>2, Sending
    <2>. HIDE DEF c, w
    <2>6. ~acknowledged(y) /\ ~asked(y)
      BY <2>1, <2>3 DEF acknowledged, asked
    <2>7. /\ LastAck(Append(inbox[y], c)) /\ OneTerm(Append(inbox[y], c))
          /\ has(Append(inbox[y], c), "pipe_term") /\ ~has(Append(inbox[y], c), "pipe_term_ack")
      BY <1>0, <1>x, <2>1, <2>2, <2>6, ExpectedAppend
    <2>8. Append(inbox[y], c) \in Seq(Command)
      BY <1>0, <2>1, <2>2, AppendProperties
    <2>9. /\ LastAck(inbox'[y]) /\ OneTerm(inbox'[y])
          /\ has(inbox'[y], "pipe_term") /\ ~has(inbox'[y], "pipe_term_ack")
      <3>. DEFINE q == Append(inbox[y], c)
      <3>. HIDE DEF q
      <3>1. /\ q \in Seq(Command) /\ LastAck(q) /\ OneTerm(q)
            /\ has(q, "pipe_term") /\ ~has(q, "pipe_term_ack")
        BY <2>7, <2>8 DEF q
      <3>2. LastAck(Append(q, w)) /\ OneTerm(Append(q, w))
        BY <2>2, <3>1, OrderAppend
      <3>3. has(Append(q, w), "pipe_term") /\ ~has(Append(q, w), "pipe_term_ack")
        BY <2>2, <3>1, HasAppend
      <3>. QED BY <2>5, <3>1, <3>2, <3>3 DEF q
    <2>10. asked(y)' /\ ~acknowledged(y)'
      BY <2>1, <2>3, <2>4 DEF asked, acknowledged
    <2>11. Expected(y)'
      BY <1>x, <2>1, <2>3, <2>4, <2>9, <2>10 DEF Expected
    <2>12. (asked(e)' <=> asked(e)) /\ ~acknowledged(e) /\ ~acknowledged(e)'
      BY <2>3, <2>4 DEF asked, acknowledged
    <2>13. Expected(e)'
      BY <1>x, <2>3, <2>4, <2>5, <2>12 DEF Expected
    <2>14. Pairs'
      BY <2>1, <2>3, <2>4 DEF Pairs
    <2>. QED BY <2>1, <2>11, <2>13, <2>14 DEF Handshake
  <1>14. ASSUME NEW e \in End, ProcessPipeTerm(e) PROVE Handshake'
    <2>. DEFINE y == peer(e)
                c == command("pipe_term_ack")
    <2>1. y \in End /\ y # e /\ peer(y) = e /\ \A x \in End : x = e \/ x = y
      BY Peers
    <2>2. c \in Command /\ c.type = "pipe_term_ack"
      BY Commands
    <2>3. /\ asked(e) /\ LastAck(Tail(inbox[e])) /\ OneTerm(Tail(inbox[e]))
          /\ ~has(Tail(inbox[e]), "pipe_term")
          /\ has(Tail(inbox[e]), "pipe_term_ack") <=> acknowledged(e)
      BY <1>0, <1>14, <1>x, ExpectedTail DEF ProcessPipeTerm, arrives
    <2>4. handled(e)[e] = Tail(inbox[e]) /\ handled(e)[y] = inbox[y]
      BY <1>0, <2>1 DEF handled
    <2>5. /\ handledAndSent(e, "pipe_term_ack")[e] = Tail(inbox[e])
          /\ handledAndSent(e, "pipe_term_ack")[y] = Append(inbox[y], c)
      BY <1>0, <2>1 DEF handledAndSent
    <2>. HIDE DEF c
    <2>6. CASE TermWhileActive(e)
      <3>1. state[e] = "active" /\ state[y] = "term_req_sent1"
        BY <1>p, <2>3, <2>6 DEF TermWhileActive, asked, Pairs
      <3>2. /\ state'[e] = "waiting_for_delimiter" /\ state'[y] = "term_req_sent1"
            /\ outPipe' = outPipe /\ inbox' = handled(e)
        BY <1>0, <2>1, <2>6, <3>1 DEF TermWhileActive
      <3>3. ~asked(e)' /\ ~acknowledged(e) /\ ~acknowledged(e)'
        BY <3>1, <3>2 DEF asked, acknowledged
      <3>4. Expected(e)'
        BY <1>x, <2>3, <2>4, <3>1, <3>2, <3>3 DEF Expected
      <3>5. ~asked(y) /\ ~asked(y)' /\ ~acknowledged(y) /\ ~acknowledged(y)'
        BY <2>1, <3>1, <3>2 DEF asked, acknowledged
      <3>6. Expected(y)'
        BY <1>x, <2>1, <2>4, <3>1, <3>2, <3>5 DEF Expected
      <3>7. Pairs'
        BY <2>1, <3>2 DEF Pairs
      <3>. QED BY <2>1, <3>4, <3>6, <3>7 DEF Handshake
    <2>7. ASSUME ~acknowledged(y), ~asked(y) \/ asked(y)', asked(y) \/ ~asked(y)',
                 acknowledged(y)', ~asked(e)', acknowledged(e) <=> acknowledged(e)',
                 state'[y] = state[y], state[y] # "gone",
                 state'[e] \in {"term_ack_sent", "term_req_sent2"},
                 inbox' = handledAndSent(e, "pipe_term_ack"), ~outPipe'[e], outPipe'[y] = outPipe[y]
          PROVE  Expected(e)' /\ Expected(y)'
      <3>1. /\ LastAck(inbox'[y]) /\ OneTerm(inbox'[y])
            /\ has(inbox'[y], "pipe_term") <=> asked(y)
            /\ has(inbox'[y], "pipe_term_ack")
        BY <1>0, <1>x, <2>1, <2>2, <2>5, <2>7, ExpectedAppend
      <3>2. Expected(y)'
        BY <1>x, <2>1, <2>7, <3>1 DEF Expected
      <3>3. Expected(e)'
        BY <1>x, <2>3, <2>5, <2>7 DEF Expected
      <3>. QED BY <3>2, <3>3
    <2>8. CASE TermWithoutDelay(e)
      <3>1. state[e] = "active" /\ state[y] = "term_req_sent1"
        BY <1>p, <2>3, <2>8 DEF TermWithoutDelay, asked, Pairs
      <3>2. /\ state'[e] = "term_ack_sent" /\ state'[y] = "term_req_sent1"
            /\ ~outPipe'[e] /\ outPipe'[y] = outPipe[y]
            /\ inbox' = handledAndSent(e, "pipe_term_ack")
        BY <1>0, <2>1, <2>8, <3>1 DEF TermWithoutDelay
      <3>3. /\ ~asked(e)' /\ ~acknowledged(e) /\ ~acknowledged(e)'
            /\ ~asked(y) /\ ~asked(y)' /\ ~acknowledged(y) /\ acknowledged(y)'
        BY <2>1, <3>1, <3>2 DEF asked, acknowledged
      <3>4. Pairs'
        BY <2>1, <3>2 DEF Pairs
      <3>. QED BY <2>1, <2>7, <3>1, <3>2, <3>3, <3>4 DEF Handshake
    <2>9. CASE TermAcknowledged(e)
      <3>1. \/ state[e] = "delimiter_received" /\ state[y] = "term_req_sent1"
            \/ state[e] = "term_req_sent1" /\ state[y] \in {"term_req_sent1", "term_req_sent2"}
        BY <1>p, <2>3, <2>9 DEF TermAcknowledged, asked, Pairs
      <3>2. /\ state'[e] = IF state[e] = "term_req_sent1" THEN "term_req_sent2" ELSE "term_ack_sent"
            /\ state'[y] = state[y]
            /\ ~outPipe'[e] /\ outPipe'[y] = outPipe[y]
            /\ inbox' = handledAndSent(e, "pipe_term_ack")
        BY <1>0, <2>1, <2>9 DEF TermAcknowledged
      <3>3. ~asked(e)' /\ (acknowledged(e) <=> acknowledged(e)')
        BY <3>1, <3>2 DEF asked, acknowledged
      <3>4. (asked(y) <=> asked(y)') /\ ~acknowledged(y) /\ acknowledged(y)'
        BY <2>1, <3>1, <3>2 DEF asked, acknowledged
      <3>5. Pairs'
        BY <2>1, <3>1, <3>2 DEF Pairs
      <3>. QED BY <2>1, <2>7, <3>1, <3>2, <3>3, <3>4, <3>5 DEF Handshake
    <2>. QED BY <1>14, <2>6, <2>8, <2>9 DEF ProcessPipeTerm
  <1>15. ASSUME NEW e \in End, ProcessPipeTermAck(e) PROVE Handshake'
    <2>. DEFINE y == peer(e)
                c == command("pipe_term_ack")
    <2>1. y \in End /\ y # e /\ peer(y) = e /\ \A x \in End : x = e \/ x = y
      BY Peers
    <2>2. c \in Command /\ c.type = "pipe_term_ack"
      BY Commands
    <2>3. acknowledged(e) /\ ~asked(e) /\ Tail(inbox[e]) = <<>>
      BY <1>0, <1>15, <1>x, ExpectedTail DEF ProcessPipeTermAck, arrives
    <2>4. handled(e)[e] = Tail(inbox[e]) /\ handled(e)[y] = inbox[y]
      BY <1>0, <2>1 DEF handled
    <2>5. /\ handledAndSent(e, "pipe_term_ack")[e] = Tail(inbox[e])
          /\ handledAndSent(e, "pipe_term_ack")[y] = Append(inbox[y], c)
      BY <1>0, <2>1 DEF handledAndSent
    <2>. HIDE DEF c
    <2>6. /\ state'[e] = "gone" /\ state'[y] = state[y]
          /\ outPipe'[y] = outPipe[y] /\ inbox'[e] = <<>>
      BY <1>0, <1>15, <2>1, <2>3, <2>4, <2>5 DEF ProcessPipeTermAck
    <2>7. ~outPipe'[e]
      <3>1. outPipe'[e] <=> state[e] # "term_req_sent1" /\ outPipe[e]
        BY <1>0, <1>15 DEF ProcessPipeTermAck
      <3>2. state[e] \in {"term_req_sent1", "term_req_sent2", "term_ack_sent"}
        BY <2>3 DEF acknowledged
      <3>. QED BY <1>o, <3>1, <3>2
    <2>8. Expected(e)'
      <3>1. ~asked(e)' /\ ~acknowledged(e)'
        BY <2>6 DEF asked, acknowledged
      <3>2. Len(<<>>) = 0
        OBVIOUS
      <3>3. /\ LastAck(inbox'[e]) /\ OneTerm(inbox'[e])
            /\ ~has(inbox'[e], "pipe_term") /\ ~has(inbox'[e], "pipe_term_ack")
        BY <2>6, <3>2 DEF LastAck, OneTerm, has
      <3>. QED BY <2>6, <2>7, <3>1, <3>3 DEF Expected
    <2>9. CASE state[e] = "term_req_sent1"
      <3>1. state[y] = "term_ack_sent"
        BY <2>3, <2>9 DEF acknowledged, asked
      <3>2. inbox'[y] = Append(inbox[y], c)
        BY <1>15, <2>5, <2>9 DEF ProcessPipeTermAck
      <3>3. ~asked(y) /\ ~asked(y)' /\ ~acknowledged(y) /\ acknowledged(y)'
        BY <2>1, <2>6, <2>9, <3>1 DEF asked, acknowledged
      <3>4. /\ LastAck(inbox'[y]) /\ OneTerm(inbox'[y])
            /\ ~has(inbox'[y], "pipe_term") /\ has(inbox'[y], "pipe_term_ack")
        BY <1>0, <1>x, <2>1, <2>2, <3>2, <3>3, ExpectedAppend
      <3>5. Expected(y)'
        BY <1>x, <2>1, <2>6, <3>1, <3>3, <3>4 DEF Expected
      <3>6. Pairs'
        BY <2>1, <2>6, <3>1 DEF Pairs
      <3>. QED BY <2>1, <2>8, <3>5, <3>6 DEF Handshake
    <2>10. CASE state[e] # "term_req_sent1"
      <3>1. \/ state[e] = "term_req_sent2" /\ state[y] \in {"term_req_sent2", "gone"}
            \/ state[e] = "term_ack_sent" /\ state[y] = "gone"
        BY <2>3, <2>10 DEF acknowledged
      <3>2. inbox'[y] = inbox[y]
        BY <1>15, <2>4, <2>10 DEF ProcessPipeTermAck
      <3>3. (asked(y)' <=> asked(y)) /\ (acknowledged(y)' <=> acknowledged(y))
        BY <2>1, <2>6, <3>1 DEF asked, acknowledged
      <3>4. Expected(y)'
        BY <1>x, <2>1, <2>6, <3>2, <3>3 DEF Expected
      <3>5. Pairs'
        BY <2>1, <2>6, <3>1 DEF Pairs
      <3>. QED BY <2>1, <2>8, <3>4, <3>5 DEF Handshake
    <2>. QED BY <2>9, <2>10
  <1>. QED
    BY <1>5, <1>6, <1>7, <1>8, <1>9, <1>10, <1>11, <1>12, <1>13, <1>14, <1>15
       DEF Next, Owner, Reader, CheckRead, Process, Terminate

-----------------------------------------------------------------------------
(* Finished is inductive: the delimiter is the last item (Content), and an *)
(* end that met it has a peer that writes no more (Handshake).             *)

\* No end has met the delimiter.
LEMMA FinishedInit == Init => Finished
  BY DEF Init, Finished, finished

\* An end that meets it has read everything, and nothing is written after that.
LEMMA FinishedNext ==
    Shapes /\ Content /\ Handshake /\ Finished /\ [Next]_vars => Finished'
  <1>. SUFFICES ASSUME Shapes, Content, Handshake, Finished, [Next]_vars PROVE Finished'
    OBVIOUS
  <1>0. /\ queue \in [End -> Queue] /\ msgsRead \in [End -> Nat] /\ msgsWritten \in [End -> Nat]
        /\ state \in [End -> State] /\ hurried \in [End -> BOOLEAN]
    BY DEF Shapes
  <1>p. Pairs
    BY DEF Handshake
  <1>1. ASSUME msgsRead' = msgsRead, msgsWritten' = msgsWritten,
               \A x \in End : finished(x)' => finished(x)
        PROVE  Finished'
    BY <1>1 DEF Finished
  <1>2. ASSUME UNCHANGED <<state, hurried, msgsRead, msgsWritten>> PROVE Finished'
    BY <1>1, <1>2 DEF finished
  <1>3. CASE UNCHANGED vars
    BY <1>2, <1>3 DEF vars, flowVars, historyVars
  <1>4. ASSUME NEW e \in End,
               \/ CheckWriteFails(e) \/ Rollback(e) \/ Flush(e) \/ ReadNothing(e)
               \/ TerminateWaits(e) \/ ProcessActivateRead(e) \/ ProcessActivateWrite(e)
        PROVE  Finished'
    BY <1>2, <1>4 DEF CheckWriteFails, Rollback, Flush, ReadNothing, TerminateWaits,
                      ProcessActivateRead, ProcessActivateWrite, flowVars, historyVars
  <1>5. ASSUME NEW e \in End, NEW more \in BOOLEAN, Write(e, more) PROVE Finished'
    <2>1. /\ peer(e) \in End /\ \A x \in End : x = e \/ x = peer(e)
      BY Peers
    <2>2. state[e] = "active" /\ state[peer(e)] \in {"active", "term_req_sent1"}
      BY <1>5, <1>p DEF Write, Pairs
    <2>3. state' = state
      BY <1>5 DEF Write
    <2>4. \A x \in End : ~finished(x)'
      BY <2>1, <2>2, <2>3 DEF finished
    <2>. QED BY <2>4 DEF Finished
  <1>6. ASSUME NEW e \in End, Read(e) PROVE Finished'
    <2>1. /\ peer(e) \in End /\ peer(e) # e /\ \A x \in End : x = e \/ x = peer(e)
      BY Peers
    <2>2. /\ ~finished(e)' /\ UNCHANGED <<state, hurried, msgsWritten>>
          /\ msgsRead'[peer(e)] = msgsRead[peer(e)]
      BY <1>0, <1>6, <2>1 DEF Read, mayRead, finished
    <2>. QED BY <2>1, <2>2 DEF Finished, finished
  <1>7. ASSUME NEW e \in End, ReadDelimiter(e) PROVE Finished'
    <2>1. /\ peer(e) \in End /\ peer(e) # e /\ \A x \in End : x = e \/ x = peer(e)
      BY Peers
    <2>2. /\ UNCHANGED <<msgsRead, msgsWritten, hurried>> /\ state'[peer(e)] = state[peer(e)]
      BY <1>0, <1>7, <2>1 DEF ReadDelimiter, processDelimiter, flowVars, historyVars
    <2>3. msgsRead[e] = msgsWritten[peer(e)]
      <3>1. queue[e] \in Queue /\ queue[e].ready # <<>> /\ Head(queue[e].ready) = Delimiter
        BY <1>0, <1>7 DEF ReadDelimiter
      <3>2. Sound(queue[e], msgsRead[e], msgsWritten[peer(e)])
        BY DEF Content, Held
      <3>3. msgsRead[e] \in Nat /\ msgsWritten[peer(e)] \in Nat
        BY <1>0, <2>1
      <3>. QED BY <3>1, <3>2, <3>3, SoundPopped
    <2>. QED BY <2>1, <2>2, <2>3 DEF Finished, finished
  <1>8. ASSUME NEW e \in End, NEW d \in BOOLEAN, TerminateAsks(e, d) PROVE Finished'
    <2>1. \A x \in End : finished(x)' => finished(x)
      BY <1>0, <1>8 DEF TerminateAsks, historyVars, finished
    <2>. QED BY <1>1, <1>8, <2>1 DEF TerminateAsks, flowVars
  <1>9. ASSUME NEW e \in End, TerminateHurries(e) PROVE Finished'
    <2>1. \A x \in End : finished(x)' => finished(x)
      BY <1>0, <1>9 DEF TerminateHurries, finished
    <2>. QED BY <1>1, <1>9, <2>1 DEF TerminateHurries, flowVars
  <1>10. ASSUME NEW e \in End, ProcessPipeTerm(e) PROVE Finished'
    <2>1. \A x \in End : finished(x)' => finished(x)
      <3>1. CASE TermWhileActive(e)
        BY <1>0, <3>1 DEF TermWhileActive, finished
      <3>2. CASE TermWithoutDelay(e)
        BY <1>0, <3>2 DEF TermWithoutDelay, finished
      <3>3. CASE TermAcknowledged(e)
        BY <1>0, <3>3 DEF TermAcknowledged, finished
      <3>. QED BY <1>10, <3>1, <3>2, <3>3 DEF ProcessPipeTerm
    <2>. QED BY <1>1, <1>10, <2>1 DEF ProcessPipeTerm, flowVars
  <1>11. ASSUME NEW e \in End, ProcessPipeTermAck(e) PROVE Finished'
    <2>1. \A x \in End : finished(x)' => finished(x)
      BY <1>0, <1>11 DEF ProcessPipeTermAck, finished
    <2>. QED BY <1>1, <1>11, <2>1 DEF ProcessPipeTermAck, flowVars
  <1>. QED
    BY <1>3, <1>4, <1>5, <1>6, <1>7, <1>8, <1>9, <1>10, <1>11
       DEF Next, Owner, Reader, CheckRead, Process, Terminate

-----------------------------------------------------------------------------
(* Waking is inductive.                                                    *)

\* Nothing that concerns a stopped reader has changed, but for more commands.
LEMMA AwakeKept ==
    ASSUME NEW x \in End, Awake(x), inActive'[x] = inActive[x],
           state'[x] \in {"active", "waiting_for_delimiter"}
              => state[x] \in {"active", "waiting_for_delimiter"},
           queue'[x].asleep = queue[x].asleep, queue'[x].ready = queue[x].ready,
           has(inbox[x], "activate_read") => has(inbox'[x], "activate_read")
    PROVE  Awake(x)'
  BY DEF Awake

\* Both readers are active.
LEMMA WakingInit == Init => Waking
  BY DEF Init, Waking, Awake

\* What sending a command to the peer changes.
LEMMA HasSent ==
    ASSUME inbox \in [End -> Seq(Command)], NEW e \in End, NEW c \in Command, NEW type
    PROVE  /\ has(sent(e, <<c>>)[peer(e)], type) <=> has(inbox[peer(e)], type) \/ c.type = type
           /\ sent(e, <<c>>)[e] = inbox[e]
           /\ sent(e, <<c>>)[peer(e)] = Append(inbox[peer(e)], c)
  <1>1. peer(e) \in End /\ peer(e) # e /\ inbox[peer(e)] \in Seq(Command)
    BY Peers
  <1>2. sent(e, <<c>>)[e] = inbox[e] /\ sent(e, <<c>>)[peer(e)] = Append(inbox[peer(e)], c)
    BY <1>1, Sending DEF sent
  <1>. QED BY <1>1, <1>2, HasAppend

\* Every flush wakes a reader that sleeps, and no command but activate_read uses it up.
LEMMA WakingNext == Shapes /\ Waking /\ [Next]_vars => Waking'
  <1>. SUFFICES ASSUME Shapes, Waking, [Next]_vars PROVE Waking'
    OBVIOUS
  <1>0. /\ queue \in [End -> Queue] /\ inActive \in [End -> BOOLEAN]
        /\ state \in [End -> State] /\ inbox \in [End -> Seq(Command)]
    BY DEF Shapes
  <1>a. \A x \in End : Awake(x)
    BY DEF Waking
  <1>1. ASSUME UNCHANGED <<inActive, state, queue, inbox>> PROVE Waking'
    BY <1>1 DEF Waking, Awake
  <1>2. CASE UNCHANGED vars
    BY <1>1, <1>2 DEF vars
  <1>3. ASSUME NEW e \in End, CheckWriteFails(e) PROVE Waking'
    BY <1>1, <1>3 DEF CheckWriteFails
  <1>4. ASSUME NEW e \in End, Rollback(e) \/ \E more \in BOOLEAN : Write(e, more) PROVE Waking'
    <2>1. peer(e) \in End /\ queue[peer(e)] \in Queue
      BY <1>0, Peers
    <2>2. /\ \A i \in Int : /\ putPart(queue[peer(e)], i).asleep = queue[peer(e)].asleep
                            /\ putPart(queue[peer(e)], i).ready = queue[peer(e)].ready
                            /\ putLast(queue[peer(e)], i).asleep = queue[peer(e)].asleep
                            /\ putLast(queue[peer(e)], i).ready = queue[peer(e)].ready
          /\ msgsWritten[e] + 1 \in Int /\ -(msgsWritten[e] + 1) \in Int
      <3>1. msgsWritten[e] + 1 \in Int /\ -(msgsWritten[e] + 1) \in Int
        BY DEF Shapes
      <3>. QED BY <2>1, <3>1, PutPart, PutLast
    <2>3. \A x \in End : queue'[x].asleep = queue[x].asleep /\ queue'[x].ready = queue[x].ready
      <3>1. CASE Rollback(e)
        BY <1>0, <2>1, <3>1, RolledBack DEF Rollback
      <3>2. CASE Write(e, TRUE)
        <4>1. queue' = [queue EXCEPT ![peer(e)] = putPart(@, -(msgsWritten[e] + 1))]
          BY <3>2 DEF Write
        <4>. QED BY <1>0, <2>1, <2>2, <4>1
      <3>3. CASE Write(e, FALSE)
        <4>1. queue' = [queue EXCEPT ![peer(e)] = putLast(@, msgsWritten[e] + 1)]
          BY <3>3 DEF Write
        <4>. QED BY <1>0, <2>1, <2>2, <4>1
      <3>. QED BY <1>4, <3>1, <3>2, <3>3
    <2>4. UNCHANGED <<inActive, state, inbox>>
      BY <1>4 DEF Rollback, Write
    <2>. QED BY <1>a, <2>3, <2>4, AwakeKept DEF Waking
  \* The queue that e writes is flushed, and its reader woken if it slept.
  <1>5. ASSUME NEW e \in End, inActive' = inActive, state'[peer(e)] = state[peer(e)],
               state'[e] \in {"active", "waiting_for_delimiter"}
                  => state[e] \in {"active", "waiting_for_delimiter"},
               queue'[e] = queue[e], inbox'[e] = inbox[e],
               has(inbox[peer(e)], "activate_read") \/ queue[peer(e)].asleep
                  => has(inbox'[peer(e)], "activate_read")
        PROVE  Waking'
    <2>1. Awake(e)'
      BY <1>5, <1>a, AwakeKept
    <2>2. Awake(peer(e))'
      BY <1>5, <1>a, Peers DEF Awake
    <2>. QED BY <2>1, <2>2, Peers DEF Waking
  <1>c. command("activate_read") \in Command /\ command("activate_read").type = "activate_read"
    BY Commands
  <1>6. ASSUME NEW e \in End, Flush(e) PROVE Waking'
    <2>1. peer(e) \in End /\ peer(e) # e
      BY Peers
    <2>2. has(inbox[peer(e)], "activate_read") \/ queue[peer(e)].asleep
             => has(inbox'[peer(e)], "activate_read")
      BY <1>0, <1>6, <1>c, HasSent DEF Flush, wakes
    <2>3. queue'[e] = queue[e] /\ inbox'[e] = inbox[e] /\ UNCHANGED <<inActive, state>>
      BY <1>0, <1>6, <1>c, <2>1, HasSent DEF Flush
    <2>. QED BY <1>5, <2>2, <2>3
  <1>7. ASSUME NEW e \in End, TerminateWaits(e) PROVE Waking'
    <2>1. peer(e) \in End /\ peer(e) # e /\ queue[peer(e)] \in Queue
      BY <1>0, Peers
    <2>2. queue'[e] = queue[e] /\ inbox'[e] = inbox[e] /\ UNCHANGED <<inActive, state>>
      BY <1>0, <1>7, <2>1 DEF TerminateWaits, sent
    <2>3. CASE queue[peer(e)].asleep
      <3>1. inbox' = sent(e, <<command("activate_read")>>)
        BY <1>7, <2>1, <2>3, Delimited DEF TerminateWaits
      <3>. QED BY <1>0, <1>5, <1>c, <2>2, <3>1, HasSent
    <2>4. CASE ~queue[peer(e)].asleep
      <3>1. inbox' = sent(e, <<>>)
        BY <1>7, <2>1, <2>4, Delimited DEF TerminateWaits
      <3>2. inbox[peer(e)] \o <<>> = inbox[peer(e)]
        BY <1>0, <2>1, ConcatEmptySeq
      <3>3. inbox'[peer(e)] = inbox[peer(e)]
        BY <1>0, <2>1, <3>1, <3>2 DEF sent
      <3>. QED BY <1>5, <2>2, <2>4, <3>3
    <2>. QED BY <2>3, <2>4
  <1>8. ASSUME NEW e \in End, NEW d \in BOOLEAN, TerminateAsks(e, d) PROVE Waking'
    <2>. DEFINE y == peer(e)
                c == command("pipe_term")
                w == command("activate_read")
    <2>1. y \in End /\ y # e /\ queue[y] \in Queue /\ inbox[y] \in Seq(Command)
      BY <1>0, Peers
    <2>2. /\ queue'[e] = queue[e] /\ inbox'[e] = inbox[e] /\ inActive' = inActive
          /\ state'[e] = "term_req_sent1" /\ state'[y] = state[y]
          /\ inbox'[y] = inbox[y] \o (<<c>> \o wakeUp(queue[y]))
      BY <1>0, <1>8, <2>1 DEF TerminateAsks, sent
    <2>3. c \in Command
      BY Commands
    <2>4. w \in Command /\ w.type = "activate_read"
      BY <1>c
    <2>5. /\ queue[y].asleep => wakeUp(queue[y]) = <<w>>
          /\ ~queue[y].asleep => wakeUp(queue[y]) = <<>>
      BY <2>1, Delimited
    <2>. HIDE DEF c, w
    <2>6. Append(inbox[y], c) \in Seq(Command)
      BY <2>1, <2>3, AppendProperties
    <2>7. /\ queue[y].asleep => inbox'[y] = Append(Append(inbox[y], c), w)
          /\ ~queue[y].asleep => inbox'[y] = Append(inbox[y], c)
      BY <2>1, <2>2, <2>3, <2>4, <2>5, Sending
    <2>8. has(inbox[y], "activate_read") => has(Append(inbox[y], c), "activate_read")
      BY <2>1, <2>3, HasAppend
    <2>9. has(Append(Append(inbox[y], c), w), "activate_read")
      BY <2>4, <2>6, HasAppend
    <2>. QED BY <1>5, <2>2, <2>7, <2>8, <2>9
  <1>9. ASSUME NEW e \in End, TerminateHurries(e) PROVE Waking'
    <2>1. peer(e) \in End /\ peer(e) # e /\ queue[peer(e)] \in Queue
      BY <1>0, Peers
    <2>2. command("pipe_term_ack") \in Command
      BY Commands
    <2>3. /\ inActive' = inActive /\ state'[e] = "term_ack_sent" /\ state'[peer(e)] = state[peer(e)]
          /\ queue'[peer(e)] = rollback(queue[peer(e)])
          /\ inbox' = sent(e, <<command("pipe_term_ack")>>)
      BY <1>0, <1>9, <2>1 DEF TerminateHurries
    <2>4. /\ queue'[peer(e)].asleep = queue[peer(e)].asleep
          /\ queue'[peer(e)].ready = queue[peer(e)].ready
      BY <2>1, <2>3, RolledBack
    <2>5. has(inbox[peer(e)], "activate_read") => has(inbox'[peer(e)], "activate_read")
      BY <1>0, <2>2, <2>3, HasSent
    <2>6. Awake(peer(e))'
      BY <1>a, <2>1, <2>3, <2>4, <2>5, AwakeKept
    <2>7. Awake(e)'
      BY <2>3 DEF Awake
    <2>. QED BY <2>6, <2>7, Peers DEF Waking
  <1>10. ASSUME NEW e \in End, ReadNothing(e) PROVE Waking'
    <2>1. peer(e) \in End /\ peer(e) # e
      BY Peers
    <2>2. /\ queue'[e].asleep /\ queue'[e].ready = <<>> /\ queue'[peer(e)] = queue[peer(e)]
          /\ inActive'[peer(e)] = inActive[peer(e)] /\ UNCHANGED <<state, inbox>>
      BY <1>0, <1>10, <2>1 DEF ReadNothing, Queue
    <2>3. Awake(e)'
      BY <2>2 DEF Awake
    <2>4. Awake(peer(e))'
      BY <1>a, <2>1, <2>2, AwakeKept
    <2>. QED BY <2>3, <2>4, Peers DEF Waking
  <1>11. ASSUME NEW e \in End, ReadDelimiter(e) \/ Read(e) PROVE Waking'
    <2>1. peer(e) \in End /\ peer(e) # e /\ queue[peer(e)] \in Queue
      BY <1>0, Peers
    <2>2. inActive[e] /\ inActive' = inActive /\ state'[peer(e)] = state[peer(e)]
      BY <1>0, <1>11, <2>1 DEF ReadDelimiter, processDelimiter, Read, mayRead
    <2>3. Awake(e)'
      BY <2>2 DEF Awake
    <2>4. queue'[peer(e)] \in {queue[peer(e)], rollback(queue[peer(e)])}
      BY <1>0, <1>11, <2>1 DEF ReadDelimiter, processDelimiter, Read
    <2>5. /\ queue'[peer(e)].asleep = queue[peer(e)].asleep
          /\ queue'[peer(e)].ready = queue[peer(e)].ready
      BY <2>1, <2>4, RolledBack
    <2>6. inbox' = inbox \/ \E c \in Command : inbox' = sent(e, <<c>>)
      <3>1. CASE Read(e)
        <4>1. PICK n \in Nat : inbox' = IF tellsWriter(e, n)
                                        THEN sent(e, <<[type |-> "activate_write", read |-> n]>>)
                                        ELSE inbox
          <5>1. msgsRead[e] \in Nat /\ msgsRead[e] + 1 \in Nat
            BY DEF Shapes
          <5>. QED BY <3>1, <5>1 DEF Read
        <4>2. [type |-> "activate_write", read |-> n] \in Command
          BY DEF Command
        <4>. QED BY <4>1, <4>2
      <3>2. CASE ReadDelimiter(e)
        <4>1. command("pipe_term_ack") \in Command
          BY Commands
        <4>. QED BY <3>2, <4>1 DEF ReadDelimiter, processDelimiter
      <3>. QED BY <1>11, <3>1, <3>2
    <2>7. has(inbox[peer(e)], "activate_read") => has(inbox'[peer(e)], "activate_read")
      BY <1>0, <2>6, HasSent
    <2>8. Awake(peer(e))'
      BY <1>a, <2>1, <2>2, <2>5, <2>7, AwakeKept
    <2>. QED BY <2>3, <2>8, Peers DEF Waking
  <1>12. ASSUME NEW e \in End, ProcessActivateRead(e) PROVE Waking'
    <2>1. peer(e) \in End /\ peer(e) # e
      BY Peers
    <2>2. /\ state[e] \in {"active", "waiting_for_delimiter"} => inActive'[e]
          /\ inActive'[peer(e)] = inActive[peer(e)] /\ inbox'[peer(e)] = inbox[peer(e)]
          /\ UNCHANGED <<state, queue>>
      BY <1>0, <1>12, <2>1 DEF ProcessActivateRead, handled
    <2>3. Awake(e)'
      BY <2>2 DEF Awake
    <2>4. Awake(peer(e))'
      BY <1>a, <2>1, <2>2, AwakeKept
    <2>. QED BY <2>3, <2>4, Peers DEF Waking
  \* Another command is handled.
  <1>13. ASSUME NEW e \in End, inbox[e] # <<>>, Head(inbox[e]).type # "activate_read",
                inActive' = inActive, queue' = queue, state'[peer(e)] = state[peer(e)],
                state'[e] \in {"active", "waiting_for_delimiter"}
                   => state[e] \in {"active", "waiting_for_delimiter"},
                inbox'[e] = Tail(inbox[e]),
                has(inbox[peer(e)], "activate_read") => has(inbox'[peer(e)], "activate_read")
         PROVE  Waking'
    <2>1. has(inbox[e], "activate_read") => has(inbox'[e], "activate_read")
      BY <1>0, <1>13, HasTail
    <2>2. Awake(e)'
      BY <1>a, <1>13, <2>1, AwakeKept
    <2>3. Awake(peer(e))'
      BY <1>a, <1>13, Peers, AwakeKept
    <2>. QED BY <2>2, <2>3, Peers DEF Waking
  <1>h. ASSUME NEW e \in End
        PROVE  /\ handled(e)[e] = Tail(inbox[e]) /\ handled(e)[peer(e)] = inbox[peer(e)]
               /\ handledAndSent(e, "pipe_term_ack")[e] = Tail(inbox[e])
               /\ has(inbox[peer(e)], "activate_read")
                     => has(handledAndSent(e, "pipe_term_ack")[peer(e)], "activate_read")
    <2>1. peer(e) \in End /\ peer(e) # e /\ inbox[peer(e)] \in Seq(Command)
      BY <1>0, Peers
    <2>2. command("pipe_term_ack") \in Command
      BY Commands
    <2>3. handled(e)[e] = Tail(inbox[e]) /\ handled(e)[peer(e)] = inbox[peer(e)]
      BY <1>0, <2>1 DEF handled
    <2>4. /\ handledAndSent(e, "pipe_term_ack")[e] = Tail(inbox[e])
          /\ handledAndSent(e, "pipe_term_ack")[peer(e)]
                = Append(inbox[peer(e)], command("pipe_term_ack"))
      BY <1>0, <2>1 DEF handledAndSent
    <2>5. has(inbox[peer(e)], "activate_read")
             => has(Append(inbox[peer(e)], command("pipe_term_ack")), "activate_read")
      BY <2>1, <2>2, HasAppend
    <2>. QED BY <2>3, <2>4, <2>5
  <1>14. ASSUME NEW e \in End, ProcessActivateWrite(e) PROVE Waking'
    BY <1>13, <1>14, <1>h DEF ProcessActivateWrite, arrives
  <1>15. ASSUME NEW e \in End, ProcessPipeTerm(e) PROVE Waking'
    <2>1. peer(e) \in End /\ peer(e) # e
      BY Peers
    <2>2. inbox' \in {handled(e), handledAndSent(e, "pipe_term_ack")}
      BY <1>15 DEF ProcessPipeTerm, TermWhileActive, TermWithoutDelay, TermAcknowledged
    <2>3. /\ state'[peer(e)] = state[peer(e)]
          /\ state'[e] \in {"active", "waiting_for_delimiter"} => state[e] = "active"
      BY <1>0, <1>15, <2>1
         DEF ProcessPipeTerm, TermWhileActive, TermWithoutDelay, TermAcknowledged
    <2>4. /\ inbox'[e] = Tail(inbox[e])
          /\ has(inbox[peer(e)], "activate_read") => has(inbox'[peer(e)], "activate_read")
      BY <1>h, <2>2
    <2>. QED BY <1>13, <1>15, <2>3, <2>4 DEF ProcessPipeTerm, arrives
  <1>16. ASSUME NEW e \in End, ProcessPipeTermAck(e) PROVE Waking'
    <2>1. peer(e) \in End /\ peer(e) # e
      BY Peers
    <2>2. state'[peer(e)] = state[peer(e)] /\ state'[e] = "gone"
      BY <1>0, <1>16, <2>1 DEF ProcessPipeTermAck
    <2>3. /\ inbox'[e] = Tail(inbox[e])
          /\ has(inbox[peer(e)], "activate_read") => has(inbox'[peer(e)], "activate_read")
      BY <1>16, <1>h DEF ProcessPipeTermAck
    <2>. QED BY <1>13, <1>16, <2>2, <2>3 DEF ProcessPipeTermAck, arrives
  <1>. QED
    BY <1>2, <1>3, <1>4, <1>6, <1>7, <1>8, <1>9, <1>10, <1>11, <1>12, <1>14, <1>15, <1>16
       DEF Next, Owner, Reader, CheckRead, Process, Terminate

-----------------------------------------------------------------------------
(* Arithmetic of the water marks.                                          *)

\* A remainder is below the divisor.
LEMMA ModRange ==
    ASSUME NEW r \in Nat, NEW l \in Nat, l > 0
    PROVE  r % l \in Nat /\ r % l < l /\ r % l <= r
  <1>1. r % l \in 0 .. l - 1
    OBVIOUS
  <1>2. r % l <= r
    OBVIOUS
  <1>. QED BY <1>1, <1>2

\* Division with remainder,
LEMMA DivMod ==
    ASSUME NEW r \in Nat, NEW l \in Nat, l > 0
    PROVE  r = l * (r \div l) + (r % l)
  OBVIOUS

\* in integers.
LEMMA DivInt ==
    ASSUME NEW r \in Nat, NEW l \in Nat, l > 0
    PROVE  r \div l \in Int
  OBVIOUS

\* The multiples of l are l apart.
LEMMA Product ==
    ASSUME NEW p \in Int, NEW q \in Int, NEW l \in Nat, p < q
    PROVE  l * p + l <= l * q
  <1>1. PICK d \in Nat : q = p + 1 + d
    <2>1. q - p - 1 \in Nat /\ q = p + 1 + (q - p - 1)
      OBVIOUS
    <2>. QED BY <2>1
  <1>2. l * q = l * p + l + l * d
    BY <1>1
  <1>3. l * d \in Nat /\ l * p \in Int
    OBVIOUS
  <1>. QED BY <1>2, <1>3

\* The remainder grows by one, or starts again.
LEMMA ModNext ==
    ASSUME NEW r \in Nat, NEW l \in Nat, l > 0
    PROVE  (r + 1) % l = 0 \/ (r + 1) % l = (r % l) + 1
  <1>. DEFINE p == r \div l
              q == (r + 1) \div l
              a == r % l
              b == (r + 1) % l
  <1>1. r = l * p + a /\ p \in Int /\ a \in Nat /\ a < l
    BY DivMod, DivInt, ModRange
  <1>2. r + 1 \in Nat /\ r + 1 = l * q + b /\ q \in Int /\ b \in Nat /\ b < l
    <2>1. r + 1 \in Nat
      OBVIOUS
    <2>. QED BY <2>1, DivMod, DivInt, ModRange
  <1>. HIDE DEF p, q, a, b
  <1>3. l * p \in Int /\ l * q \in Int
    BY <1>1, <1>2
  <1>4. CASE p < q
    <2>1. l * p + l <= l * q
      BY <1>1, <1>2, <1>4, Product
    <2>. HIDE <1>4
    <2>. QED BY <1>1, <1>2, <1>3, <2>1 DEF a, b
  <1>5. CASE q < p
    <2>1. l * q + l <= l * p
      BY <1>1, <1>2, <1>5, Product
    <2>. QED BY <1>1, <1>2, <1>3, <2>1
  <1>6. CASE p = q
    BY <1>1, <1>2, <1>3, <1>6 DEF a, b
  <1>. QED BY <1>1, <1>2, <1>4, <1>5, <1>6

\* The low water mark is between one and the high water mark.
LEMMA Half ==
    ASSUME NEW h \in Nat
    PROVE  /\ (h + 1) \div 2 \in Nat
           /\ h > 0 => (h + 1) \div 2 > 0 /\ (h + 1) \div 2 <= h
  OBVIOUS

-----------------------------------------------------------------------------
(* What a writer knows, as commands are sent and handled.                  *)

\* A command without a count is sent.
LEMMA ReportedOther ==
    ASSUME NEW q \in Seq(Command), NEW c \in Command, NEW old \in Nat, NEW r \in Nat, NEW l \in Nat,
           c.type # "activate_write", Reported(q, old, r, l)
    PROVE  Reported(Append(q, c), old, r, l)
  <1>. DEFINE t == Append(q, c)
  <1>1. /\ Len(q) \in Nat
        /\ Len(t) = Len(q) + 1
        /\ \A k \in 1 .. Len(q) : t[k] = q[k]
        /\ t[Len(q) + 1] = c
    BY AppendProperties
  <1>. HIDE DEF t
  <1>2. ASSUME NEW k \in 1 .. Len(t), counts(t, k) PROVE k \in 1 .. Len(q) /\ t[k] = q[k] /\ counts(q, k)
    BY <1>1, <1>2 DEF counts
  <1>3. \A k \in 1 .. Len(q) : k \in 1 .. Len(t) /\ (counts(q, k) <=> counts(t, k))
    BY <1>1 DEF counts
  <1>4. has(t, "activate_write") <=> has(q, "activate_write")
    BY HasAppend DEF t
  <1>5. \A k \in 1 .. Len(t) : counts(t, k) => old <= t[k].read /\ t[k].read <= r
    BY <1>2 DEF Reported
  <1>6. \A j, k \in 1 .. Len(t) : counts(t, j) /\ counts(t, k) /\ j < k => t[j].read <= t[k].read
    BY <1>2 DEF Reported
  <1>7. ASSUME l > 0, NEW k \in 1 .. Len(t), counts(t, k), \A j \in 1 .. Len(t) : counts(t, j) => j <= k
        PROVE  t[k].read = r - (r % l)
    BY <1>2, <1>3, <1>7 DEF Reported
  <1>8. old <= r /\ (l > 0 => (~has(t, "activate_write") => old = r - (r % l)))
    BY <1>4 DEF Reported
  <1>. QED BY <1>5, <1>6, <1>7, <1>8 DEF Reported, t

\* A multiple of l was reached, and the count is sent.
LEMMA ReportedTold ==
    ASSUME NEW q \in Seq(Command), NEW c \in Command, NEW old \in Nat, NEW r \in Nat, NEW l \in Nat,
           NEW n \in Nat, r <= n, l > 0, n % l = 0,
           c.type = "activate_write", c.read = n, Reported(q, old, r, l)
    PROVE  Reported(Append(q, c), old, n, l)
  <1>. DEFINE t == Append(q, c)
  <1>1. /\ Len(q) \in Nat
        /\ Len(t) = Len(q) + 1
        /\ \A k \in 1 .. Len(q) : t[k] = q[k]
        /\ t[Len(q) + 1] = c
    BY AppendProperties
  <1>. HIDE DEF t
  <1>2. \A k \in 1 .. Len(q) : q[k] \in Command /\ q[k].read \in Nat
    <2>1. \A k \in 1 .. Len(q) : q[k] \in Command
      BY ElementOfSeq
    <2>2. \A x \in Command : x.read \in Nat
      BY DEF Command
    <2>. QED BY <2>1, <2>2
  <1>3. ASSUME NEW k \in 1 .. Len(t), counts(t, k), k # Len(q) + 1
        PROVE  k \in 1 .. Len(q) /\ t[k] = q[k] /\ counts(q, k)
    BY <1>1, <1>3 DEF counts
  <1>4. old <= r /\ old <= n
    BY DEF Reported
  <1>5. \A k \in 1 .. Len(q) : counts(q, k) => old <= q[k].read /\ q[k].read <= n
    BY <1>2 DEF Reported
  <1>6. \A k \in 1 .. Len(t) : counts(t, k) => old <= t[k].read /\ t[k].read <= n
    BY <1>1, <1>3, <1>4, <1>5
  <1>7. ASSUME NEW j \in 1 .. Len(t), NEW k \in 1 .. Len(t), counts(t, j), counts(t, k), j < k
        PROVE  t[j].read <= t[k].read
    <2>1. j # Len(q) + 1
      BY <1>1, <1>7
    <2>2. j \in 1 .. Len(q) /\ t[j] = q[j] /\ counts(q, j)
      BY <1>3, <1>7, <2>1
    <2>3. CASE k = Len(q) + 1
      BY <1>1, <1>5, <2>2, <2>3
    <2>4. CASE k # Len(q) + 1
      <3>1. k \in 1 .. Len(q) /\ t[k] = q[k] /\ counts(q, k)
        BY <1>3, <1>7, <2>4
      <3>. QED BY <1>7, <2>2, <3>1 DEF Reported
    <2>. QED BY <2>3, <2>4
  <1>8. Len(t) \in 1 .. Len(t) /\ counts(t, Len(t)) /\ t[Len(t)] = c
    BY <1>1 DEF counts
  <1>9. has(t, "activate_write")
    BY <1>8 DEF has, counts
  <1>10. ASSUME NEW k \in 1 .. Len(t), counts(t, k), \A j \in 1 .. Len(t) : counts(t, j) => j <= k
         PROVE  t[k].read = n - (n % l)
    <2>1. k = Len(t)
      <3>1. Len(t) <= k
        BY <1>8, <1>10
      <3>2. Len(t) \in Nat
        BY <1>1
      <3>. QED BY <3>1, <3>2
    <2>. QED BY <1>8, <2>1
  <1>. QED BY <1>4, <1>6, <1>7, <1>9, <1>10 DEF Reported, t

\* A message was read, and no multiple of l reached.
LEMMA ReportedNext ==
    ASSUME NEW q \in Seq(Command), NEW old \in Nat, NEW r \in Nat, NEW l \in Nat,
           l = 0 \/ (r + 1) % l # 0, Reported(q, old, r, l)
    PROVE  Reported(q, old, r + 1, l)
  <1>1. \A k \in 1 .. Len(q) : q[k] \in Command /\ q[k].read \in Nat
    <2>1. \A k \in 1 .. Len(q) : q[k] \in Command
      BY ElementOfSeq
    <2>2. \A x \in Command : x.read \in Nat
      BY DEF Command
    <2>. QED BY <2>1, <2>2
  <1>2. l > 0 => (r + 1) - ((r + 1) % l) = r - (r % l)
    <2>. SUFFICES ASSUME l > 0 PROVE (r + 1) - ((r + 1) % l) = r - (r % l)
      OBVIOUS
    <2>1. (r + 1) % l = (r % l) + 1
      <3>1. (r + 1) % l # 0
        OBVIOUS
      <3>2. (r + 1) % l = 0 \/ (r + 1) % l = (r % l) + 1
        BY ModNext
      <3>. QED BY <3>1, <3>2, Zenon
    <2>2. r % l \in Nat
      BY ModRange
    <2>. HIDE DEF Reported
    <2>. QED BY <2>1, <2>2
  <1>3. old <= r + 1
    BY DEF Reported
  <1>4. \A k \in 1 .. Len(q) : counts(q, k) => old <= q[k].read /\ q[k].read <= r + 1
    BY <1>1 DEF Reported
  <1>. QED BY <1>2, <1>3, <1>4 DEF Reported

\* A command is handled, and its count, if any, becomes what is known.
LEMMA ReportedTail ==
    ASSUME NEW q \in Seq(Command), NEW old \in Nat, NEW r \in Nat, NEW l \in Nat, q # <<>>,
           Reported(q, old, r, l)
    PROVE  /\ Head(q).type # "activate_write" => Reported(Tail(q), old, r, l)
           /\ Head(q).type = "activate_write" =>
                 Reported(Tail(q), Head(q).read, r, l) /\ old <= Head(q).read
  <1>. DEFINE t == Tail(q)
              n == IF Head(q).type = "activate_write" THEN Head(q).read ELSE old
  <1>1. /\ Len(q) \in Nat \ {0}
        /\ t \in Seq(Command)
        /\ Len(t) = Len(q) - 1
        /\ \A k \in 1 .. Len(t) : t[k] = q[k + 1]
        /\ Head(q) = q[1]
    BY HeadTailProperties, EmptySeq
  <1>. HIDE DEF t
  <1>2. \A k \in 1 .. Len(t) : k + 1 \in 1 .. Len(q) /\ (counts(t, k) <=> counts(q, k + 1))
    BY <1>1 DEF counts
  <1>3. 1 \in 1 .. Len(q) /\ (counts(q, 1) <=> Head(q).type = "activate_write")
    BY <1>1 DEF counts
  <1>4. n <= r /\ old <= n
    <2>1. old <= r
      BY DEF Reported
    <2>2. Head(q).type = "activate_write" => Head(q).read <= r /\ old <= Head(q).read
      BY <1>1, <1>3 DEF Reported
    <2>. QED BY <2>1, <2>2
  <1>5. \A k \in 1 .. Len(t) : counts(t, k) => n <= t[k].read /\ t[k].read <= r
    <2>. SUFFICES ASSUME NEW k \in 1 .. Len(t), counts(t, k) PROVE n <= t[k].read /\ t[k].read <= r
      OBVIOUS
    <2>1. k + 1 \in 1 .. Len(q) /\ counts(q, k + 1) /\ t[k] = q[k + 1] /\ 1 < k + 1
      BY <1>1, <1>2
    <2>2. old <= t[k].read /\ t[k].read <= r
      BY <2>1 DEF Reported
    <2>3. Head(q).type = "activate_write" => q[1].read <= q[k + 1].read
      BY <1>3, <2>1 DEF Reported
    <2>. QED BY <1>1, <2>1, <2>2, <2>3
  <1>6. ASSUME NEW j \in 1 .. Len(t), NEW k \in 1 .. Len(t), counts(t, j), counts(t, k), j < k
        PROVE  t[j].read <= t[k].read
    <2>1. /\ j + 1 \in 1 .. Len(q) /\ k + 1 \in 1 .. Len(q) /\ counts(q, j + 1) /\ counts(q, k + 1)
          /\ t[j] = q[j + 1] /\ t[k] = q[k + 1] /\ j + 1 < k + 1
      BY <1>1, <1>2, <1>6
    <2>. QED BY <2>1 DEF Reported
  <1>7. ASSUME l > 0, NEW k \in 1 .. Len(t), counts(t, k), \A j \in 1 .. Len(t) : counts(t, j) => j <= k
        PROVE  t[k].read = r - (r % l)
    <2>1. k + 1 \in 1 .. Len(q) /\ counts(q, k + 1) /\ t[k] = q[k + 1]
      BY <1>1, <1>2, <1>7
    <2>2. ASSUME NEW j \in 1 .. Len(q), counts(q, j) PROVE j <= k + 1
      <3>1. CASE j = 1
        BY <3>1
      <3>2. CASE j # 1
        <4>1. j - 1 \in 1 .. Len(t) /\ (j - 1) + 1 = j
          BY <1>1, <3>2
        <4>2. counts(t, j - 1)
          BY <1>2, <2>2, <4>1
        <4>3. j - 1 <= k
          BY <1>7, <4>1, <4>2
        <4>. QED BY <4>3
      <3>. QED BY <3>1, <3>2
    <2>. QED BY <1>7, <2>1, <2>2 DEF Reported
  <1>8. ASSUME l > 0, ~has(t, "activate_write") PROVE n = r - (r % l)
    <2>1. CASE Head(q).type = "activate_write"
      <3>1. ASSUME NEW j \in 1 .. Len(q), counts(q, j) PROVE j <= 1
        <4>. SUFFICES ASSUME j # 1 PROVE FALSE
          OBVIOUS
        <4>1. j - 1 \in 1 .. Len(t) /\ (j - 1) + 1 = j
          BY <1>1
        <4>2. counts(t, j - 1)
          BY <1>2, <3>1, <4>1
        <4>. QED BY <1>8, <4>1, <4>2 DEF has, counts
      <3>2. q[1].read = r - (r % l)
        BY <1>3, <1>8, <2>1, <3>1 DEF Reported
      <3>. QED BY <1>1, <2>1, <3>2
    <2>2. CASE Head(q).type # "activate_write"
      <3>1. ~has(q, "activate_write")
        BY <1>8, <2>2, HasTail DEF t
      <3>. QED BY <1>8, <2>2, <3>1 DEF Reported
    <2>. QED BY <2>1, <2>2
  <1>9. Reported(t, n, r, l)
    <2>. HIDE DEF n
    <2>. QED BY <1>4, <1>5, <1>6, <1>7, <1>8 DEF Reported
  <1>. QED BY <1>4, <1>9 DEF t

-----------------------------------------------------------------------------
(* Flow is inductive.                                                      *)

\* The marks of an end.
LEMMA Marks ==
    ASSUME NEW e \in End
    PROVE  /\ Hwm[e] \in Nat /\ MaxMessages[e] \in Nat
           /\ lwm(peer(e)) \in Nat
           /\ Hwm[e] > 0 => lwm(peer(e)) > 0 /\ lwm(peer(e)) <= Hwm[e]
  <1>1. Hwm[e] \in Nat /\ MaxMessages[e] \in Nat
    BY PipeAssumption
  <1>2. lwm(peer(e)) = (Hwm[e] + 1) \div 2
    BY Peers DEF lwm
  <1>. QED BY <1>1, <1>2, Half

\* The writer x is neither told anything nor started, and may stop for good.
LEMMA MeteredKept ==
    ASSUME NEW x \in End, Metered(x),
           Reported(inbox'[x], peersRead[x], msgsRead[peer(x)], lwm(peer(x))),
           peersRead'[x] = peersRead[x], msgsRead'[peer(x)] = msgsRead[peer(x)],
           msgsWritten'[x] = msgsWritten[x],
           state'[x] = "active" => state[x] = "active" /\ outActive'[x] = outActive[x],
           queue'[peer(x)].parts \in {queue[peer(x)].parts, <<>>}
    PROVE  Metered(x)'
  BY DEF Metered, full

\* Nothing was written, read or reported.
LEMMA FlowInit == Init => Flow
  <1>. SUFFICES ASSUME Init, NEW e \in End PROVE Metered(e)
    BY DEF Flow
  <1>1. /\ inbox[e] = <<>> /\ peersRead[e] = 0 /\ msgsRead[peer(e)] = 0 /\ msgsWritten[e] = 0
        /\ outActive[e] /\ queue[peer(e)].parts = <<>>
    BY Peers DEF Init, emptyQueue
  <1>2. lwm(peer(e)) \in Nat /\ MaxMessages[e] \in Nat /\ Hwm[e] \in Nat
    BY Marks
  <1>3. Len(<<>>) = 0
    OBVIOUS
  <1>4. lwm(peer(e)) > 0 => 0 % lwm(peer(e)) = 0
    BY <1>2, ModRange
  <1>5. Reported(<<>>, 0, 0, lwm(peer(e)))
    BY <1>3, <1>4 DEF Reported
  <1>. QED BY <1>1, <1>2, <1>5 DEF Metered

\* Every action keeps the counts and the writer's state in step.
LEMMA FlowNext == Shapes /\ Flow /\ [Next]_vars => Flow'
  <1>. SUFFICES ASSUME Shapes, Flow, [Next]_vars PROVE Flow'
    OBVIOUS
  <1>0. /\ queue \in [End -> Queue] /\ outActive \in [End -> BOOLEAN]
        /\ state \in [End -> State] /\ inbox \in [End -> Seq(Command)]
        /\ msgsRead \in [End -> Nat] /\ msgsWritten \in [End -> Nat] /\ peersRead \in [End -> Nat]
    BY DEF Shapes
  <1>m. \A x \in End : Metered(x)
    BY DEF Flow
  <1>r. \A x \in End : Reported(inbox[x], peersRead[x], msgsRead[peer(x)], lwm(peer(x)))
    BY <1>m DEF Metered
  <1>1. ASSUME UNCHANGED <<flowVars, inbox, state, outActive>>,
               \A x \in End : queue'[x].parts \in {queue[x].parts, <<>>}
        PROVE  Flow'
    BY <1>1, <1>m, <1>r, Peers, MeteredKept DEF Flow, flowVars
  <1>2. CASE UNCHANGED vars
    BY <1>1, <1>2 DEF vars
  <1>3. ASSUME NEW e \in End, CheckWriteFails(e) PROVE Flow'
    <2>1. peer(e) \in End /\ peer(e) # e /\ peer(peer(e)) = e
      BY Peers
    <2>2. full(e) /\ UNCHANGED <<flowVars, inbox, state, queue>> /\ outActive'[peer(e)] = outActive[peer(e)]
          /\ state[e] = "active"
      BY <1>0, <1>3, <2>1 DEF CheckWriteFails
    <2>3. Metered(peer(e))'
      BY <1>m, <1>r, <2>1, <2>2, MeteredKept DEF flowVars
    <2>4. Metered(e)'
      BY <1>m, <2>2 DEF Metered, full, flowVars
    <2>. QED BY <2>3, <2>4, Peers DEF Flow
  <1>4. ASSUME NEW e \in End, Write(e, TRUE) PROVE Flow'
    <2>1. peer(e) \in End /\ peer(e) # e /\ peer(peer(e)) = e
      BY Peers
    <2>2. /\ outActive[e] /\ ~full(e) /\ queue'[e] = queue[e]
          /\ UNCHANGED <<msgsWritten, msgsRead, peersRead, inbox, state, outActive>>
      BY <1>0, <1>4, <2>1 DEF Write
    <2>3. Metered(peer(e))'
      BY <1>m, <1>r, <2>1, <2>2, MeteredKept
    <2>4. Metered(e)'
      BY <1>m, <2>2 DEF Metered, full
    <2>. QED BY <2>3, <2>4, Peers DEF Flow
  <1>5. ASSUME NEW e \in End, Write(e, FALSE) PROVE Flow'
    <2>1. peer(e) \in End /\ peer(e) # e /\ peer(peer(e)) = e
      BY Peers
    <2>2. /\ outActive[e] /\ ~full(e) /\ queue'[e] = queue[e] /\ msgsWritten[e] < MaxMessages[e]
          /\ msgsWritten'[e] = msgsWritten[e] + 1 /\ msgsWritten'[peer(e)] = msgsWritten[peer(e)]
          /\ UNCHANGED <<msgsRead, peersRead, inbox, state, outActive>>
      BY <1>0, <1>5, <2>1 DEF Write
    <2>3. Metered(peer(e))'
      BY <1>m, <1>r, <2>1, <2>2, MeteredKept
    <2>4. queue'[peer(e)].parts = <<>>
      <3>1. queue'[peer(e)] = putLast(queue[peer(e)], msgsWritten[e] + 1)
        BY <1>0, <1>5, <2>1 DEF Write
      <3>2. queue[peer(e)] \in Queue /\ msgsWritten[e] + 1 \in Int
        BY <1>0, <2>1
      <3>3. \A i \in Int : putLast(queue[peer(e)], i).parts = <<>>
        BY <3>2, PutLast
      <3>. QED BY <3>1, <3>2, <3>3
    <2>5. /\ msgsWritten[e] + 1 <= MaxMessages[e]
          /\ Hwm[e] > 0 => (msgsWritten[e] + 1) - msgsRead[peer(e)] <= Hwm[e]
      <3>1. /\ Hwm[e] \in Nat /\ MaxMessages[e] \in Nat /\ msgsWritten[e] \in Nat
            /\ msgsRead[peer(e)] \in Nat /\ peersRead[e] \in Nat
        BY <1>0, <2>1, Marks
      <3>2. peersRead[e] <= msgsRead[peer(e)]
        BY <1>r DEF Reported
      <3>3. Hwm[e] > 0 => msgsWritten[e] - peersRead[e] < Hwm[e]
        BY <2>2, <3>1 DEF full
      <3>. QED BY <2>2, <3>1, <3>2, <3>3
    <2>6. Metered(e)'
      BY <1>r, <2>1, <2>2, <2>4, <2>5 DEF Metered
    <2>. QED BY <2>3, <2>6, Peers DEF Flow
  <1>6. ASSUME NEW e \in End, Rollback(e) PROVE Flow'
    <2>1. \A x \in End : queue'[x].parts \in {queue[x].parts, <<>>}
      BY <1>0, <1>6, Peers, RolledBack DEF Rollback
    <2>. QED BY <1>1, <1>6, <2>1 DEF Rollback
  <1>7. ASSUME NEW e \in End, ReadNothing(e) PROVE Flow'
    <2>1. \A x \in End : queue'[x].parts \in {queue[x].parts, <<>>}
      BY <1>0, <1>7 DEF ReadNothing, Queue
    <2>. QED BY <1>1, <1>7, <2>1 DEF ReadNothing
  <1>a. ASSUME NEW y \in End, NEW c \in Command, c.type # "activate_write"
        PROVE  Reported(Append(inbox[y], c), peersRead[y], msgsRead[peer(y)], lwm(peer(y)))
    BY <1>0, <1>a, <1>r, Peers, Marks, ReportedOther
  <1>c. /\ command("activate_read") \in Command /\ command("activate_read").type = "activate_read"
        /\ command("pipe_term") \in Command /\ command("pipe_term").type = "pipe_term"
        /\ command("pipe_term_ack") \in Command /\ command("pipe_term_ack").type = "pipe_term_ack"
    BY Commands
  \* The owner of e sends its peer something else than a count.
  <1>8. ASSUME NEW e \in End, UNCHANGED flowVars,
               inbox'[e] = inbox[e],
               Reported(inbox'[peer(e)], peersRead[peer(e)], msgsRead[e], lwm(e)),
               state'[peer(e)] = state[peer(e)], outActive'[peer(e)] = outActive[peer(e)],
               state'[e] = "active" => state[e] = "active" /\ outActive'[e] = outActive[e],
               queue'[e].parts \in {queue[e].parts, <<>>},
               queue'[peer(e)].parts \in {queue[peer(e)].parts, <<>>}
        PROVE  Flow'
    <2>1. peer(e) \in End /\ peer(e) # e /\ peer(peer(e)) = e
      BY Peers
    <2>2. Metered(e)'
      BY <1>8, <1>m, <1>r, <2>1, MeteredKept DEF flowVars
    <2>3. Metered(peer(e))'
      BY <1>8, <1>m, <2>1, MeteredKept DEF flowVars
    <2>. QED BY <2>2, <2>3, Peers DEF Flow
  <1>9. ASSUME NEW e \in End, Flush(e) PROVE Flow'
    <2>1. peer(e) \in End /\ peer(e) # e /\ peer(peer(e)) = e /\ queue[peer(e)] \in Queue
      BY <1>0, Peers
    <2>2. inbox'[e] = inbox[e]
      BY <1>0, <1>9, <1>c, HasSent DEF Flush
    <2>3. inbox'[peer(e)] \in {inbox[peer(e)], Append(inbox[peer(e)], command("activate_read"))}
      BY <1>0, <1>9, <1>c, HasSent DEF Flush
    <2>4. Reported(inbox'[peer(e)], peersRead[peer(e)], msgsRead[e], lwm(e))
      BY <1>a, <1>c, <1>r, <2>1, <2>3
    <2>5. queue'[e] = queue[e] /\ queue'[peer(e)].parts = queue[peer(e)].parts
      BY <1>0, <1>9, <2>1, Flushed DEF Flush
    <2>. QED BY <1>8, <1>9, <2>2, <2>4, <2>5 DEF Flush
  <1>10. ASSUME NEW e \in End, ReadDelimiter(e) PROVE Flow'
    <2>1. peer(e) \in End /\ peer(e) # e /\ peer(peer(e)) = e /\ queue[peer(e)] \in Queue
      BY <1>0, Peers
    <2>2. /\ inbox'[e] = inbox[e]
          /\ inbox'[peer(e)] \in {inbox[peer(e)], Append(inbox[peer(e)], command("pipe_term_ack"))}
      <3>. DEFINE c == command("pipe_term_ack")
      <3>1. inbox' = inbox \/ inbox' = sent(e, <<c>>)
        BY <1>10 DEF ReadDelimiter, processDelimiter
      <3>2. sent(e, <<c>>)[e] = inbox[e] /\ sent(e, <<c>>)[peer(e)] = Append(inbox[peer(e)], c)
        BY <1>0, <1>c, HasSent
      <3>. QED BY <3>1, <3>2
    <2>3. Reported(inbox'[peer(e)], peersRead[peer(e)], msgsRead[e], lwm(e))
      BY <1>a, <1>c, <1>r, <2>1, <2>2
    <2>4. queue'[e].parts = queue[e].parts
      BY <1>0, <1>10, <2>1, Popped DEF ReadDelimiter, processDelimiter
    <2>5. queue'[peer(e)].parts \in {queue[peer(e)].parts, <<>>}
      BY <1>0, <1>10, <2>1, RolledBack DEF ReadDelimiter, processDelimiter
    <2>6. state'[e] # "active" /\ state'[peer(e)] = state[peer(e)] /\ UNCHANGED <<flowVars, outActive>>
      BY <1>0, <1>10, <2>1 DEF ReadDelimiter, processDelimiter
    <2>. QED BY <1>8, <2>2, <2>3, <2>4, <2>5, <2>6
  <1>11. ASSUME NEW e \in End, TerminateHurries(e) PROVE Flow'
    <2>1. peer(e) \in End /\ peer(e) # e /\ peer(peer(e)) = e /\ queue[peer(e)] \in Queue
      BY <1>0, Peers
    <2>2. /\ inbox'[e] = inbox[e]
          /\ inbox'[peer(e)] = Append(inbox[peer(e)], command("pipe_term_ack"))
      BY <1>0, <1>11, <1>c, HasSent DEF TerminateHurries
    <2>3. Reported(inbox'[peer(e)], peersRead[peer(e)], msgsRead[e], lwm(e))
      BY <1>a, <1>c, <2>1, <2>2
    <2>4. queue'[e] = queue[e] /\ queue'[peer(e)].parts = <<>>
      BY <1>0, <1>11, <2>1, RolledBack DEF TerminateHurries
    <2>5. /\ state'[e] # "active" /\ state'[peer(e)] = state[peer(e)] /\ UNCHANGED flowVars
          /\ outActive'[peer(e)] = outActive[peer(e)]
      BY <1>0, <1>11, <2>1 DEF TerminateHurries, stopsWriting
    <2>. QED BY <1>8, <2>2, <2>3, <2>4, <2>5
  <1>12. ASSUME NEW e \in End, TerminateWaits(e) PROVE Flow'
    <2>1. peer(e) \in End /\ peer(e) # e /\ peer(peer(e)) = e /\ queue[peer(e)] \in Queue
      BY <1>0, Peers
    <2>2. inbox'[e] = inbox[e]
      BY <1>0, <1>12, <2>1 DEF TerminateWaits, sent
    <2>3. inbox'[peer(e)] \in {inbox[peer(e)], Append(inbox[peer(e)], command("activate_read"))}
      <3>1. inbox'[peer(e)] \in {inbox[peer(e)] \o <<>>, inbox[peer(e)] \o <<command("activate_read")>>}
        BY <1>0, <1>12, <2>1 DEF TerminateWaits, sent, wakeUp
      <3>2. inbox[peer(e)] \in Seq(Command)
        BY <1>0, <2>1
      <3>. QED BY <1>c, <3>1, <3>2, Sending
    <2>4. Reported(inbox'[peer(e)], peersRead[peer(e)], msgsRead[e], lwm(e))
      BY <1>a, <1>c, <1>r, <2>1, <2>3
    <2>5. queue'[e] = queue[e] /\ queue'[peer(e)].parts = <<>>
      BY <1>0, <1>12, <2>1, Delimited DEF TerminateWaits
    <2>6. /\ state'[e] # "active" /\ state' = state /\ UNCHANGED flowVars
          /\ outActive'[peer(e)] = outActive[peer(e)]
      BY <1>0, <1>12, <2>1 DEF TerminateWaits, stopsWriting
    <2>. QED BY <1>8, <2>2, <2>4, <2>5, <2>6
  <1>13. ASSUME NEW e \in End, NEW d \in BOOLEAN, TerminateAsks(e, d) PROVE Flow'
    <2>. DEFINE y == peer(e)
                c == command("pipe_term")
                w == command("activate_read")
    <2>1. y \in End /\ y # e /\ peer(y) = e /\ queue[y] \in Queue /\ inbox[y] \in Seq(Command)
      BY <1>0, Peers
    <2>2. /\ inbox'[e] = inbox[e]
          /\ inbox'[y] \in {inbox[y] \o (<<c>> \o <<>>), inbox[y] \o (<<c>> \o <<w>>)}
      BY <1>0, <1>13, <2>1 DEF TerminateAsks, sent, wakeUp
    <2>3. c \in Command /\ w \in Command /\ c.type # "activate_write" /\ w.type # "activate_write"
      BY <1>c
    <2>. HIDE DEF c, w
    <2>4. inbox'[y] \in {Append(inbox[y], c), Append(Append(inbox[y], c), w)}
      BY <2>1, <2>2, <2>3, Sending
    <2>5. /\ Append(inbox[y], c) \in Seq(Command)
          /\ Reported(Append(inbox[y], c), peersRead[y], msgsRead[e], lwm(e))
      BY <1>a, <2>1, <2>3, AppendProperties
    <2>6. lwm(e) \in Nat /\ peersRead[y] \in Nat /\ msgsRead[e] \in Nat
      BY <1>0, <2>1, Marks
    <2>7. Reported(Append(Append(inbox[y], c), w), peersRead[y], msgsRead[e], lwm(e))
      <3>. DEFINE q == Append(inbox[y], c)
      <3>1. q \in Seq(Command) /\ Reported(q, peersRead[y], msgsRead[e], lwm(e))
        BY <2>5
      <3>. HIDE DEF q
      <3>2. Reported(Append(q, w), peersRead[y], msgsRead[e], lwm(e))
        BY <2>3, <2>6, <3>1, ReportedOther
      <3>. QED BY <3>2 DEF q
    <2>8. Reported(inbox'[y], peersRead[y], msgsRead[e], lwm(e))
      BY <2>4, <2>5, <2>7
    <2>9. queue'[e] = queue[e] /\ queue'[y].parts = <<>>
      BY <1>0, <1>13, <2>1, Delimited DEF TerminateAsks
    <2>10. /\ state'[e] # "active" /\ state'[y] = state[y] /\ UNCHANGED flowVars
           /\ outActive'[y] = outActive[y]
      BY <1>0, <1>13, <2>1 DEF TerminateAsks, stopsWriting
    <2>. QED BY <1>8, <2>2, <2>8, <2>9, <2>10
  <1>14. ASSUME NEW e \in End, Read(e) PROVE Flow'
    <2>. DEFINE y == peer(e)
                r == msgsRead[e]
                l == lwm(e)
    <2>1. y \in End /\ y # e /\ peer(y) = e /\ queue[e] \in Queue /\ inbox[y] \in Seq(Command)
      BY <1>0, Peers
    <2>2. r \in Nat /\ l \in Nat /\ peersRead[y] \in Nat /\ msgsWritten[y] \in Nat /\ Hwm[y] \in Nat
      BY <1>0, <2>1, Marks
    <2>3. PICK n \in {r, r + 1} :
             /\ msgsRead' = [msgsRead EXCEPT ![e] = n]
             /\ inbox' = IF tellsWriter(e, n)
                         THEN sent(e, <<[type |-> "activate_write", read |-> n]>>) ELSE inbox
      BY <1>14 DEF Read
    <2>4. n \in Nat /\ r <= n /\ msgsRead'[e] = n /\ msgsRead'[y] = msgsRead[y]
      BY <1>0, <2>1, <2>2, <2>3
    <2>5. /\ UNCHANGED <<msgsWritten, peersRead, state, outActive>>
          /\ queue'[y] = queue[y] /\ queue'[e].parts = queue[e].parts
      BY <1>0, <1>14, <2>1, Popped DEF Read
    <2>6. Reported(inbox[y], peersRead[y], r, l)
      BY <1>r, <2>1
    <2>7. Reported(inbox'[y], peersRead[y], n, l) /\ inbox'[e] = inbox[e]
      <3>1. CASE tellsWriter(e, n)
        <4>. DEFINE c == [type |-> "activate_write", read |-> n]
        <4>1. c \in Command /\ c.type = "activate_write" /\ c.read = n
          BY <2>4 DEF Command
        <4>2. inbox' = sent(e, <<c>>)
          BY <2>3, <3>1
        <4>. HIDE DEF c
        <4>3. inbox'[y] = Append(inbox[y], c) /\ inbox'[e] = inbox[e]
          BY <1>0, <4>1, <4>2, HasSent
        <4>4. l > 0 /\ n % l = 0
          BY <3>1 DEF tellsWriter
        <4>. HIDE DEF l, r
        <4>5. Reported(Append(inbox[y], c), peersRead[y], n, l)
          BY <2>1, <2>2, <2>4, <2>6, <4>1, <4>4, ReportedTold
        <4>. QED BY <4>3, <4>5
      <3>2. CASE ~tellsWriter(e, n)
        <4>1. inbox' = inbox
          BY <2>3, <3>2
        <4>2. l = 0 \/ n % l # 0
          <5>1. ~ (l > 0 /\ n % l = 0)
            BY <3>2 DEF tellsWriter
          <5>. HIDE DEF l
          <5>. QED BY <2>2, <5>1
        <4>. HIDE DEF l, r
        <4>3. CASE n = r
          BY <2>6, <4>1, <4>3
        <4>4. CASE n = r + 1
          BY <2>1, <2>2, <2>6, <4>1, <4>2, <4>4, ReportedNext
        <4>. QED BY <2>3, <4>3, <4>4
      <3>. QED BY <3>1, <3>2
    <2>8. Metered(e)'
      BY <1>m, <1>r, <2>1, <2>4, <2>5, <2>7, MeteredKept
    <2>9. Hwm[y] > 0 => msgsWritten[y] - n <= Hwm[y]
      <3>1. Hwm[y] > 0 => msgsWritten[y] - r <= Hwm[y]
        BY <1>m, <2>1 DEF Metered
      <3>. HIDE DEF r
      <3>. QED BY <2>2, <2>4, <3>1
    <2>10. Metered(y)'
      BY <1>m, <2>1, <2>4, <2>5, <2>7, <2>9 DEF Metered, full
    <2>. QED BY <2>8, <2>10, Peers DEF Flow
  <1>t. ASSUME NEW e \in End, inbox[e] # <<>>
        PROVE  /\ Head(inbox[e]).type # "activate_write" =>
                     Reported(Tail(inbox[e]), peersRead[e], msgsRead[peer(e)], lwm(peer(e)))
               /\ Head(inbox[e]).type = "activate_write" =>
                     /\ Reported(Tail(inbox[e]), Head(inbox[e]).read, msgsRead[peer(e)], lwm(peer(e)))
                     /\ peersRead[e] <= Head(inbox[e]).read
               /\ Head(inbox[e]).read \in Nat
    <2>1. /\ inbox[e] \in Seq(Command) /\ peersRead[e] \in Nat /\ msgsRead[peer(e)] \in Nat
          /\ lwm(peer(e)) \in Nat
      BY <1>0, Peers, Marks
    <2>2. Head(inbox[e]) \in Command
      BY <1>t, <2>1, HeadTailProperties
    <2>3. Head(inbox[e]).read \in Nat
      BY <2>2 DEF Command
    <2>. QED BY <1>r, <1>t, <2>1, <2>3, ReportedTail
  <1>h. ASSUME NEW e \in End
        PROVE  /\ handled(e)[e] = Tail(inbox[e]) /\ handled(e)[peer(e)] = inbox[peer(e)]
               /\ handledAndSent(e, "pipe_term_ack")[e] = Tail(inbox[e])
               /\ handledAndSent(e, "pipe_term_ack")[peer(e)]
                     = Append(inbox[peer(e)], command("pipe_term_ack"))
    BY <1>0, Peers DEF handled, handledAndSent
  <1>15. ASSUME NEW e \in End, ProcessActivateWrite(e) PROVE Flow'
    <2>. DEFINE n == Head(inbox[e]).read
    <2>1. peer(e) \in End /\ peer(e) # e /\ peer(peer(e)) = e
      BY Peers
    <2>2. /\ peersRead'[e] = n /\ peersRead'[peer(e)] = peersRead[peer(e)]
          /\ outActive'[peer(e)] = outActive[peer(e)]
          /\ outActive'[e] <=> outActive[e] \/ state[e] = "active"
          /\ UNCHANGED <<state, queue, msgsRead, msgsWritten>>
      BY <1>0, <1>15, <2>1 DEF ProcessActivateWrite
    <2>3. inbox'[e] = Tail(inbox[e]) /\ inbox'[peer(e)] = inbox[peer(e)]
      BY <1>15, <1>h DEF ProcessActivateWrite
    <2>4. /\ Reported(inbox'[e], n, msgsRead[peer(e)], lwm(peer(e)))
          /\ peersRead[e] <= n /\ n \in Nat
      BY <1>15, <1>t, <2>3 DEF ProcessActivateWrite, arrives
    <2>. HIDE DEF n
    <2>5. Metered(peer(e))'
      BY <1>m, <1>r, <2>1, <2>2, <2>3, MeteredKept
    <2>6. full(e)' => full(e)
      <3>1. Hwm[e] \in Nat /\ msgsWritten[e] \in Nat /\ peersRead[e] \in Nat
        BY <1>0, Marks
      <3>. QED BY <2>2, <2>4, <3>1 DEF full
    <2>7. Metered(e)'
      BY <1>m, <2>2, <2>4, <2>6 DEF Metered
    <2>. QED BY <2>5, <2>7, Peers DEF Flow
  \* A command that carries no count is handled, and perhaps answered.
  <1>16. ASSUME NEW e \in End, inbox[e] # <<>>, Head(inbox[e]).type # "activate_write",
                inbox' \in {handled(e), handledAndSent(e, "pipe_term_ack")},
                UNCHANGED <<flowVars, queue, outActive>>, state'[peer(e)] = state[peer(e)],
                state'[e] = "active" => state[e] = "active"
         PROVE  Flow'
    <2>1. peer(e) \in End /\ peer(e) # e /\ peer(peer(e)) = e
      BY Peers
    <2>2. Reported(inbox'[e], peersRead[e], msgsRead[peer(e)], lwm(peer(e)))
      BY <1>16, <1>t, <1>h
    <2>3. Reported(inbox'[peer(e)], peersRead[peer(e)], msgsRead[e], lwm(e))
      BY <1>16, <1>a, <1>c, <1>h, <1>r, <2>1
    <2>4. Metered(e)'
      BY <1>m, <1>16, <2>1, <2>2, MeteredKept DEF flowVars
    <2>5. Metered(peer(e))'
      BY <1>m, <1>16, <2>1, <2>3, MeteredKept DEF flowVars
    <2>. QED BY <2>4, <2>5, Peers DEF Flow
  <1>17. ASSUME NEW e \in End, ProcessActivateRead(e) PROVE Flow'
    BY <1>16, <1>17 DEF ProcessActivateRead, arrives
  <1>18. ASSUME NEW e \in End, ProcessPipeTerm(e) PROVE Flow'
    <2>1. peer(e) \in End /\ peer(e) # e
      BY Peers
    <2>2. /\ inbox' \in {handled(e), handledAndSent(e, "pipe_term_ack")}
          /\ state'[peer(e)] = state[peer(e)] /\ state'[e] # "active"
      BY <1>0, <1>18, <2>1 DEF ProcessPipeTerm, TermWhileActive, TermWithoutDelay, TermAcknowledged
    <2>. QED BY <1>16, <1>18, <2>2 DEF ProcessPipeTerm, arrives
  <1>19. ASSUME NEW e \in End, ProcessPipeTermAck(e) PROVE Flow'
    <2>1. peer(e) \in End /\ peer(e) # e
      BY Peers
    <2>2. /\ inbox' \in {handled(e), handledAndSent(e, "pipe_term_ack")}
          /\ state'[peer(e)] = state[peer(e)] /\ state'[e] # "active"
      BY <1>0, <1>19, <2>1 DEF ProcessPipeTermAck
    <2>. QED BY <1>16, <1>19, <2>2 DEF ProcessPipeTermAck, arrives
  <1>. QED
    BY <1>2, <1>3, <1>4, <1>5, <1>6, <1>7, <1>9, <1>10, <1>11, <1>12, <1>13, <1>14, <1>15, <1>17,
       <1>18, <1>19 DEF Next, Owner, Reader, CheckRead, Process, Terminate

-----------------------------------------------------------------------------
(* The theorems.                                                           *)

(* PipeInv is an invariant of the pipe, for all high water marks and       *)
(* bounds: every call of pipe_t's owner and every command its object       *)
(* handles keeps all six layers.                                           *)
THEOREM PipeInvariant == Spec => []PipeInv
  <1>1. Init => PipeInv
    BY ShapesInit, ContentInit, HandshakeInit, FinishedInit, WakingInit, FlowInit DEF PipeInv
  <1>2. PipeInv /\ [Next]_vars => PipeInv'
    BY ShapesNext, ContentNext, HandshakeNext, FinishedNext, WakingNext, FlowNext DEF PipeInv
  <1>. QED BY <1>1, <1>2, PTL DEF Spec

(* Type correctness, with the counts in order: the writer never believes   *)
(* more messages read than were, nor were more read than written           *)
(* (_peers_msgs_read, _msgs_read, _msgs_written).                          *)
THEOREM TypeCorrect == Spec => []TypeOK
  <1>1. PipeInv => TypeOK
    <2>. SUFFICES ASSUME PipeInv PROVE TypeOK
      OBVIOUS
    <2>1. Shapes /\ Content /\ Flow
      BY DEF PipeInv
    <2>2. state \in [End -> State]
      BY <2>1 DEF Shapes
    <2>3. \A v \in {delay, inActive, outActive, outPipe, hurried} : v \in [End -> BOOLEAN]
      BY <2>1, Zenon DEF Shapes
    <2>4. ASSUME NEW e \in End
          PROVE  /\ msgsWritten[e] \in 0 .. MaxMessages[e]
                 /\ peersRead[e] \in 0 .. msgsWritten[e]
                 /\ msgsRead[e] \in 0 .. msgsWritten[peer(e)]
      <3>1. /\ peer(e) \in End /\ peer(peer(e)) = e /\ MaxMessages[e] \in Nat
            /\ msgsWritten[e] \in Nat /\ peersRead[e] \in Nat /\ msgsRead[e] \in Nat
            /\ msgsWritten[peer(e)] \in Nat /\ msgsRead[peer(e)] \in Nat
        BY <2>1, Peers, Marks DEF Shapes
      <3>2. msgsWritten[e] <= MaxMessages[e] /\ peersRead[e] <= msgsRead[peer(e)]
        BY <2>1 DEF Flow, Metered, Reported
      <3>3. msgsRead[e] <= msgsWritten[peer(e)] /\ msgsRead[peer(e)] <= msgsWritten[e]
        BY <2>1, <3>1 DEF Content, Held, Sound, Chain
      <3>. QED BY <3>1, <3>2, <3>3
    <2>. QED BY <2>2, <2>3, <2>4 DEF TypeOK, State
  <1>. QED BY <1>1, PipeInvariant, PTL

(* Whichever end terminates first, with or without delay, or both at once: *)
(* the assertions of process_pipe_term and process_pipe_term_ack hold, and *)
(* no command is sent to, and no queue used of, an end that was            *)
(* deallocated.                                                            *)
THEOREM TerminationIsSafe == Spec => []TerminationSafe
  <1>1. PipeInv => TerminationSafe
    <2>. SUFFICES ASSUME PipeInv PROVE TerminationSafe
      OBVIOUS
    <2>1. /\ Pairs /\ \A e \in End : Expected(e)
          /\ inbox \in [End -> Seq(Command)]
      BY DEF PipeInv, Handshake, Shapes
    <2>2. ASSUME NEW e \in End, arrives(e, "pipe_term")
          PROVE  state[e] \in {"active", "delimiter_received", "term_req_sent1"}
      <3>1. asked(e)
        BY <2>1, <2>2, ExpectedTail DEF arrives
      <3>. QED BY <3>1 DEF asked
    <2>3. ASSUME NEW e \in End, arrives(e, "pipe_term_ack")
          PROVE  state[e] \in {"term_req_sent1", "term_req_sent2", "term_ack_sent"}
      <3>1. acknowledged(e)
        BY <2>1, <2>3, ExpectedTail DEF arrives
      <3>. QED BY <3>1 DEF acknowledged
    <2>4. ASSUME NEW e \in End, state[e] = "gone"
          PROVE  inbox[e] = <<>> /\ (state[peer(e)] # "gone" => ~outPipe[peer(e)])
      <3>1. state[peer(e)] \in {"term_ack_sent", "term_req_sent2", "gone"}
        BY <2>1, <2>4 DEF Pairs
      <3>2. ~outPipe[peer(e)]
        BY <2>1, <3>1, Peers DEF Expected
      <3>3. inbox[e] = <<>>
        BY <2>1, <2>4 DEF Expected
      <3>. QED BY <3>2, <3>3
    <2>. QED BY <2>2, <2>3, <2>4 DEF TerminationSafe, AssertionsHold, GoneIsUnused
  <1>. QED BY <1>1, PipeInvariant, PTL

(* No wake-up is lost: a stopped reader with something to read, or a       *)
(* stopped writer all of whose messages were read, is being told so,       *)
(* whatever the high water mark.  The writer: it stopped at its mark, so   *)
(* if it is not told, it knows of all but the remainder of the reads by    *)
(* the low water mark (read reports the multiples), and that remainder is  *)
(* less than the high water mark.                                          *)
THEOREM NoWakeUpLost == Spec => []WakeUpsDue
  <1>1. PipeInv => WakeUpsDue
    <2>. SUFFICES ASSUME PipeInv PROVE WakeUpsDue
      OBVIOUS
    <2>1. Shapes /\ Waking /\ Flow
      BY DEF PipeInv
    <2>2. ReaderIsWoken
      BY <2>1 DEF ReaderIsWoken, Waking, Awake, told, has
    <2>3. ASSUME NEW e \in End, ~outActive[e], state[e] = "active",
                 msgsRead[peer(e)] = msgsWritten[e], ~told(e, "activate_write")
          PROVE  FALSE
      <3>. DEFINE l == lwm(peer(e))
                  r == msgsRead[peer(e)]
      <3>1. /\ peersRead[e] \in Nat /\ r \in Nat /\ Hwm[e] \in Nat /\ l \in Nat
        BY <2>1, Peers, Marks DEF Shapes
      <3>2. Hwm[e] > 0 /\ r - peersRead[e] >= Hwm[e]
        BY <2>1, <2>3 DEF Flow, Metered, full
      <3>3. l > 0 /\ l <= Hwm[e]
        BY <3>2, Marks
      <3>4. ~has(inbox[e], "activate_write")
        BY <2>3 DEF told, has
      <3>5. peersRead[e] = r - (r % l)
        BY <2>1, <3>3, <3>4 DEF Flow, Metered, Reported
      <3>. HIDE DEF l, r
      <3>6. r % l \in Nat /\ r % l < l
        BY <3>1, <3>3, ModRange
      <3>. QED BY <3>1, <3>2, <3>3, <3>5, <3>6
    <2>. QED BY <2>2, <2>3 DEF WakeUpsDue, WriterIsTold
  <1>. QED BY <1>1, PipeInvariant, PTL

(* check_hwm keeps the messages between the ends within the high water     *)
(* mark although the writer's count is late and rough, and never stops a   *)
(* writer between the parts of a message.                                  *)
THEOREM MarksKept == Spec => []WithinMarks
  <1>1. PipeInv => WithinMarks
    BY DEF PipeInv, Flow, Metered, WithinMarks, QueueWithinMark, StartedCanFinish
  <1>. QED BY <1>1, PipeInvariant, PTL

(* Messages are read whole, once and in order, rollbacks and the delimiter *)
(* that terminate writes included (pipe_t::read, rollback, terminate).     *)
THEOREM MessagesWhole == Spec => []WholeAndInOrder
  <1>1. PipeInv => WholeAndInOrder
    <2>. SUFFICES ASSUME PipeInv, NEW e \in End
                  PROVE  /\ got[e] = msgsRead[e]
                         /\ LET all == queue[e].ready \o queue[e].written
                            IN  \A k \in 1 .. Len(all) : all[k] < 0 =>
                                   k < Len(all) /\ all[k + 1] \in {all[k], -all[k]}
      BY DEF WholeAndInOrder
    <2>. DEFINE all == queue[e].ready \o queue[e].written
                w == msgsWritten[peer(e)]
    <2>1. Shapes /\ Held(e)
      BY DEF PipeInv, Content
    <2>2. w \in Nat /\ queue[e].ready \in Seq(Int) /\ queue[e].written \in Seq(Int)
      BY <2>1, Peers DEF Shapes, Queue
    <2>3. all \in Seq(Int) /\ Len(all) \in Nat /\ \A k \in 1 .. Len(all) : all[k] \in Int
      <3>1. all \in Seq(Int)
        BY <2>2, ConcatProperties
      <3>. HIDE DEF all
      <3>. QED BY <3>1, LenProperties, ElementOfSeq
    <2>4. Chain(all, msgsRead[e], w) /\ got[e] = msgsRead[e]
      BY <2>1 DEF Held, Sound
    <2>. HIDE DEF all, w
    <2>5. ASSUME NEW k \in 1 .. Len(all), all[k] < 0
          PROVE  k < Len(all) /\ all[k + 1] \in {all[k], -all[k]}
      <3>1. k # Len(all)
        BY <2>2, <2>3, <2>4, <2>5 DEF Chain, Delimiter
      <3>2. k \in 1 .. Len(all) - 1
        BY <2>3, <3>1
      <3>3. follows(all[k], all[k + 1])
        BY <2>4, <3>2 DEF Chain
      <3>4. all[k + 1] \in {all[k], -all[k]}
        BY <2>3, <2>5, <3>3 DEF follows
      <3>. QED BY <2>3, <3>2, <3>4
    <2>. QED BY <2>4, <2>5 DEF all
  <1>. QED BY <1>1, PipeInvariant, PTL

(* With delay the pending messages are processed before the shutdown, as   *)
(* pipe.hpp says: an end acknowledges only when it has read everything its *)
(* peer finished, unless its owner gave the rest up (process_delimiter).   *)
THEOREM PendingAreDelivered == Spec => []PendingDelivered
  <1>1. PipeInv => PendingDelivered
    BY DEF PipeInv, Finished, finished, PendingDelivered
  <1>. QED BY <1>1, PipeInvariant, PTL

=============================================================================
