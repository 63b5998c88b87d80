----------------------------- MODULE IPC_proofs -----------------------------
(***************************************************************************)
(* The link between the cores for every number of callers, services,       *)
(* messages and fragments.                                                 *)
(***************************************************************************)
EXTENDS IPCInv, SequenceTheorems, TLAPS

LEMMA PeerFacts ==
    /\ \A c \in Cores : Peer(c) \in Cores /\ Peer(c) # c /\ Peer(Peer(c)) = c
    /\ \A c, d \in Cores : d # c => d = Peer(c)
  BY DEF Cores, Peer

LEMMA CoreOfType == \A x \in Senders : CoreOf(x) \in Cores
  BY IPCAssumption DEF Senders, Servers, CoreOf

LEMMA JobType ==
    \A t \in Callers : /\ Job[t].core \in Cores /\ Job[t].ser \in Service
                       /\ Job[t].sync \in BOOLEAN
                       /\ Job[t].req \in Nat \ {0} /\ Job[t].resp \in Nat \ {0}
  BY IPCAssumption

LEMMA FragmentsType == \A m \in Msg : Fragments(m) \in Nat \ {0}
  BY JobType DEF Fragments, Msg

\* Three blocks in a row are different ones.
LEMMA BlocksApart ==
    ASSUME NEW n \in Nat
    PROVE  /\ n % BLOCK_SIZE \in 0 .. BLOCK_SIZE - 1
           /\ n % BLOCK_SIZE # (n + 1) % BLOCK_SIZE
           /\ n % BLOCK_SIZE # (n + 2) % BLOCK_SIZE
  <1> DEFINE B == BLOCK_SIZE
  <1>1. B \in Nat /\ B >= 3
    BY IPCAssumption
  <1> HIDE DEF B
  <1>2. \A k \in Nat : k \div B \in Int /\ k % B \in 0 .. B - 1 /\ k = B * (k \div B) + (k % B)
    BY <1>1
  <1>3. ASSUME NEW p \in Int, NEW q \in Int, B * p - B * q \in {1, 2} PROVE FALSE
    <2>1. B * p - B * q = B * (p - q)
      BY <1>1
    <2>2. CASE p - q <= 0
      BY <1>1, <1>3, <2>1, <2>2
    <2>3. CASE p - q >= 1
      BY <1>1, <1>3, <2>1, <2>3
    <2> QED
      BY <2>2, <2>3
  <1>4. ASSUME NEW d \in {1, 2}, n % B = (n + d) % B PROVE FALSE
    <2>1. n + d \in Nat
      OBVIOUS
    <2> DEFINE p == (n + d) \div B
               q == n \div B
    <2>2. p \in Int /\ q \in Int /\ B * p \in Int /\ B * q \in Int
      BY <1>1, <1>2, <2>1
    <2>3. n + d = B * p + (n % B) /\ n = B * q + (n % B) /\ n % B \in Int
      BY <1>1, <1>2, <1>4, <2>1
    <2> HIDE DEF p, q
    <2>4. B * p - B * q = d
      BY <2>2, <2>3
    <2> QED
      BY <1>3, <2>2, <2>4
  <1> QED
    BY <1>2, <1>4 DEF B
-----------------------------------------------------------------------------
(* Types. *)

LEMMA IsrTypes ==
    ASSUME TypeOK, NEW c \in Cores, Isr(c)
    PROVE  TypeOK'
  <1>1. CASE IsrEnter(c)
    <2>1. \A i \in Interrupts : EventOf(i) \in Events
      BY DEF EventOf, Events, Interrupts
    <2>2. irq[c] \subseteq Interrupts /\ evt[c] \subseteq Events
      BY DEF TypeOK
    <2>3. evt' \in [Cores -> SUBSET Events] /\ isr' \in [Cores -> SUBSET Interrupts]
      BY <1>1, <2>1, <2>2 DEF TypeOK, IsrEnter
    <2> QED
      BY <1>1, <2>3 DEF TypeOK, IsrEnter, tasks
  <1>2. CASE IsrExit(c)
    BY <1>2 DEF TypeOK, IsrExit, tasks
  <1> QED
    BY <1>1, <1>2 DEF Isr

LEMMA FillTypes ==
    ASSUME TypeOK, NEW x \in Senders, Fill(x)
    PROVE  TypeOK'
  <1> DEFINE c == CoreOf(x)
  <1>1. c \in Cores /\ Block(c) \in 0 .. BLOCK_SIZE - 1
    BY CoreOfType, BlocksApart DEF TypeOK, Block
  <1>2. snd[x] \in Sending
    BY DEF TypeOK, Fill, Idle
  <1>3. shm' \in [Cores -> [0 .. BLOCK_SIZE - 1 -> Fragment \cup {None}]]
    BY <1>1, <1>2 DEF TypeOK, Fill, Fragment, Sending
  <1>4. snd' \in [Senders -> {Idle} \cup Sending]
    BY <1>1, <1>2 DEF TypeOK, Fill, Sending
  <1>5. tx' \in [Cores -> Senders \cup {None}]
    BY <1>1 DEF TypeOK, Fill
  <1> QED
    BY <1>3, <1>4, <1>5 DEF TypeOK, Fill

LEMMA WaitWriteTypes ==
    ASSUME TypeOK, NEW x \in Senders, WaitWrite(x)
    PROVE  TypeOK'
  <1>1. snd[x] \in Sending
    BY DEF TypeOK, WaitWrite, Idle
  <1>2. snd' \in [Senders -> {Idle} \cup Sending]
    BY <1>1 DEF TypeOK, WaitWrite, Sending
  <1>3. evt' \in [Cores -> SUBSET Events]
    BY CoreOfType DEF TypeOK, WaitWrite, Events
  <1> QED
    BY <1>2, <1>3 DEF TypeOK, WaitWrite

LEMMA PutTypes ==
    ASSUME TypeOK, NEW x \in Senders, Put(x)
    PROVE  TypeOK'
  <1> DEFINE c == CoreOf(x)
             m == snd[x].msg
             h == [ser |-> Job[m.t].ser, msg |-> m, i |-> snd[x].i, blk |-> snd[x].blk,
                   seq |-> seq[c]]
  <1>1. c \in Cores /\ Peer(c) \in Cores
    BY CoreOfType, PeerFacts
  <1>2. snd[x] \in Sending
    BY DEF TypeOK, Put, Idle
  <1>3. h \in Header
    BY <1>1, <1>2, JobType DEF TypeOK, Header, Msg, Sending
  <1>4. slot' = [slot EXCEPT ![c] = h] /\ irq' = [irq EXCEPT ![Peer(c)] = @ \cup {"data"}]
    BY DEF Put, PutMessage, Trigger
  <1>5. slot' \in [Cores -> Header \cup {None}] /\ irq' \in [Cores -> SUBSET Interrupts]
    <2> HIDE DEF h
    <2> QED
      BY <1>1, <1>3, <1>4 DEF TypeOK, Interrupts
  <1>6. seq' \in [Cores -> Nat]
    BY <1>1 DEF TypeOK, Put
  <1>7. CASE snd[x].i < Fragments(m)
    <2>1. /\ snd' = [snd EXCEPT ![x] = [@ EXCEPT !.pc = "fill", !.i = snd[x].i + 1]]
          /\ UNCHANGED <<tx, caller, server>>
      BY <1>7 DEF Put
    <2>2. snd[x].i + 1 \in Nat \ {0}
      BY <1>2 DEF Sending
    <2>3. snd' \in [Senders -> {Idle} \cup Sending]
      BY <1>2, <2>1, <2>2 DEF TypeOK, Sending
    <2> QED
      BY <1>5, <1>6, <2>1, <2>3 DEF TypeOK, Put
  <1>8. CASE ~(snd[x].i < Fragments(m))
    <2>1. snd' = [snd EXCEPT ![x] = Idle] /\ tx' = [tx EXCEPT ![c] = None] /\ Sent(x)
      BY <1>8 DEF Put
    <2>2. snd' \in [Senders -> {Idle} \cup Sending] /\ tx' \in [Cores -> Senders \cup {None}]
      BY <1>1, <2>1 DEF TypeOK
    <2>3. caller' \in [Callers -> Calling]
      <3>1. CASE x \in Callers
        <4>1. caller[x] \in Calling
          BY <3>1 DEF TypeOK
        <4>2. [caller[x] EXCEPT !.pc = "await"] \in Calling
              /\ [pc |-> "idle", n |-> caller[x].n + 1] \in Calling
          BY <4>1 DEF Calling
        <4> QED
          BY <2>1, <3>1, <4>2 DEF TypeOK, Sent
      <3> QED
        BY <2>1, <3>1 DEF TypeOK, Sent
    <2>4. server' \in [Servers -> Serving]
      BY <2>1 DEF TypeOK, Sent, Serving
    <2> QED
      BY <1>5, <1>6, <2>2, <2>3, <2>4 DEF TypeOK, Put
  <1> QED
    BY <1>7, <1>8

LEMMA RecvWaitTypes ==
    ASSUME TypeOK, NEW c \in Cores, RecvWait(c)
    PROVE  TypeOK'
  <1>1. recv[c] \in Receiving /\ recv[c].pc = "wait"
    BY DEF TypeOK, RecvWait
  <1>2. [recv[c] EXCEPT !.pc = "get"] \in Receiving
    BY <1>1 DEF Receiving
  <1>3. recv' \in [Cores -> Receiving] /\ evt' \in [Cores -> SUBSET Events]
    BY <1>2 DEF TypeOK, RecvWait
  <1> QED
    BY <1>3 DEF TypeOK, RecvWait

LEMMA RecvGetTypes ==
    ASSUME TypeOK, NEW c \in Cores, RecvGet(c)
    PROVE  TypeOK'
  <1> DEFINE m == slot[Peer(c)]
  <1>1. Peer(c) \in Cores /\ m \in Header \cup {None}
    BY PeerFacts DEF TypeOK
  <1>2. recv' \in [Cores -> Receiving]
    <2>1. [pc |-> "wait", m |-> None] \in Receiving
          /\ (m # None => [pc |-> "copy", m |-> m] \in Receiving)
      BY <1>1 DEF Receiving
    <2> QED
      BY <2>1 DEF TypeOK, RecvGet
  <1>3. bake' \in [Cores -> Nat]
    <2>1. (IF m = None THEN 1 ELSE m.seq) \in Nat
      BY <1>1 DEF Header
    <2> QED
      BY <2>1 DEF TypeOK, RecvGet
  <1>4. irq' \in [Cores -> SUBSET Interrupts]
    BY <1>1 DEF TypeOK, RecvGet, Trigger, Interrupts
  <1> QED
    BY <1>2, <1>3, <1>4 DEF TypeOK, RecvGet

\* A block that is copied has been written.
LEMMA RecvCopyTypes ==
    ASSUME TypeOK, NEW c \in Cores, RecvCopy(c), shm[Peer(c)][recv[c].m.blk] \in Fragment
    PROVE  TypeOK'
  <1>1. recv[c] \in [pc : {"copy"}, m : Header]
    BY DEF TypeOK, RecvCopy, Receiving
  <1>2. [pc |-> "give", m |-> [ser |-> recv[c].m.ser, hd |-> recv[c].m.msg,
                               data |-> shm[Peer(c)][recv[c].m.blk]]] \in Receiving
    BY <1>1 DEF Receiving, Header
  <1>3. recv' \in [Cores -> Receiving]
    BY <1>2 DEF TypeOK, RecvCopy
  <1> QED
    BY <1>3 DEF TypeOK, RecvCopy, link

LEMMA RecvGiveTypes ==
    ASSUME TypeOK, NEW c \in Cores, RecvGive(c)
    PROVE  TypeOK'
  <1> DEFINE m == recv[c].m
             v == <<c, m.ser>>
             f == [hd |-> m.hd, data |-> m.data]
  <1>1. recv[c] \in [pc : {"give"}, m : [ser : Service, hd : Msg, data : Fragment]]
    BY DEF TypeOK, RecvGive, Receiving
  <1>2. v \in Servers /\ f \in Copied
    BY <1>1 DEF Servers, Copied
  <1>3. /\ \/ queue' = [queue EXCEPT ![v] = Append(queue[v], f)] /\ Len(queue[v]) < QueueLen
           \/ queue' = queue
        /\ recv' = [recv EXCEPT ![c] = [pc |-> "wait", m |-> None]]
        /\ UNCHANGED <<link, tx, rx, snd, server, caller, reply, handled, added>>
    BY DEF RecvGive
  <1> HIDE DEF v, f
  <1>4. queue[v] \in Seq(Copied) /\ Append(queue[v], f) \in Seq(Copied)
        /\ Len(Append(queue[v], f)) = Len(queue[v]) + 1 /\ Len(queue[v]) \in Nat
    BY <1>2, AppendProperties, LenProperties DEF TypeOK
  <1>5. queue' \in [Servers -> Seq(Copied)]
    BY <1>2, <1>3, <1>4 DEF TypeOK
  <1>6. \A w \in Servers : Len(queue'[w]) <= QueueLen
    <2>1. CASE queue' = queue
      BY <2>1 DEF TypeOK
    <2>2. CASE queue' = [queue EXCEPT ![v] = Append(queue[v], f)] /\ Len(queue[v]) < QueueLen
      BY <1>2, <1>4, <2>2, IPCAssumption DEF TypeOK
    <2> QED
      BY <1>3, <2>1, <2>2
  <1>7. recv' \in [Cores -> Receiving]
    <2>1. [pc |-> "wait", m |-> None] \in Receiving
      BY DEF Receiving
    <2> QED
      BY <1>3, <2>1 DEF TypeOK
  <1> QED
    BY <1>3, <1>5, <1>6, <1>7 DEF TypeOK, link

\* What ServerWait and ServerCollect take from the queue.
LEMMA TakeTypes ==
    ASSUME TypeOK, NEW v \in Servers, queue[v] # <<>>
    PROVE  /\ Head(queue[v]) \in Copied
           /\ [queue EXCEPT ![v] = Tail(@)] \in [Servers -> Seq(Copied)]
           /\ \A w \in Servers : Len([queue EXCEPT ![v] = Tail(@)][w]) <= QueueLen
  <1>1. queue[v] \in Seq(Copied) /\ Len(queue[v]) \in Nat
    BY LenProperties DEF TypeOK
  <1>2. Head(queue[v]) \in Copied /\ Tail(queue[v]) \in Seq(Copied)
        /\ Len(Tail(queue[v])) = Len(queue[v]) - 1
    BY <1>1, HeadTailProperties
  <1> QED
    BY <1>1, <1>2, IPCAssumption DEF TypeOK

LEMMA ServerWaitTypes ==
    ASSUME TypeOK, NEW v \in Servers, ServerWait(v)
    PROVE  TypeOK'
  <1>1. Head(queue[v]) \in Copied
        /\ queue' \in [Servers -> Seq(Copied)] /\ \A w \in Servers : Len(queue'[w]) <= QueueLen
    BY TakeTypes DEF ServerWait
  <1>2. [pc |-> "lock", got |-> <<Head(queue[v])>>] \in Serving
    BY <1>1 DEF Serving
  <1>3. server' \in [Servers -> Serving]
    BY <1>2 DEF TypeOK, ServerWait
  <1> QED
    BY <1>1, <1>3 DEF TypeOK, ServerWait, link

LEMMA ServerLockTypes ==
    ASSUME TypeOK, NEW v \in Servers, ServerLock(v)
    PROVE  TypeOK'
  <1>1. v[1] \in Cores
    BY DEF Servers
  <1>2. PICK q \in {"undefined", "handle", "collect"} : server' = [server EXCEPT ![v].pc = q]
    BY DEF ServerLock
  <1>3. server' \in [Servers -> Serving]
    BY <1>2 DEF TypeOK, Serving
  <1>4. rx' \in [Cores -> Servers \cup {None}]
    BY <1>1 DEF TypeOK, ServerLock
  <1> QED
    BY <1>3, <1>4 DEF TypeOK, ServerLock, link

LEMMA ServerCollectTypes ==
    ASSUME TypeOK, NEW v \in Servers, ServerCollect(v)
    PROVE  TypeOK'
  <1> DEFINE g == Append(server[v].got, Head(queue[v]))
  <1>1. v[1] \in Cores
    BY DEF Servers
  <1>2. Head(queue[v]) \in Copied
        /\ queue' \in [Servers -> Seq(Copied)] /\ \A w \in Servers : Len(queue'[w]) <= QueueLen
    BY TakeTypes DEF ServerCollect
  <1>3. g \in Seq(Copied)
    BY <1>2, AppendProperties DEF TypeOK, Serving
  <1>4. PICK q \in {"handle", "collect"} : server' = [server EXCEPT ![v] = [pc |-> q, got |-> g]]
    BY DEF ServerCollect
  <1> HIDE DEF g
  <1>5. server' \in [Servers -> Serving]
    BY <1>3, <1>4 DEF TypeOK, Serving
  <1>6. rx' \in [Cores -> Servers \cup {None}]
    BY <1>1 DEF TypeOK, ServerCollect
  <1> QED
    BY <1>2, <1>5, <1>6 DEF TypeOK, ServerCollect, link

LEMMA ServerAnswerTypes ==
    ASSUME TypeOK, NEW v \in Servers, ServerAnswer(v)
    PROVE  TypeOK'
  <1>1. server' \in [Servers -> Serving]
    BY EmptySeq DEF TypeOK, ServerAnswer, Serving
  <1>2. reply' \in [Callers -> Seq(Seq(Copied))]
    <2>1. server[v].got \in Seq(Copied)
      BY DEF TypeOK, Serving
    <2>2. \A t \in Callers : Append(reply[t], server[v].got) \in Seq(Seq(Copied))
      BY <2>1, AppendProperties DEF TypeOK
    <2>3. PICK t : reply' = reply \/ reply' = [reply EXCEPT ![t] = Append(@, server[v].got)]
      BY DEF ServerAnswer
    <2>4. CASE t \in Callers
      BY <2>2, <2>3, <2>4 DEF TypeOK
    <2>5. CASE t \notin Callers
      <3>1. reply' = reply
        BY <2>3, <2>5 DEF TypeOK
      <3> QED
        BY <3>1 DEF TypeOK
    <2> QED
      BY <2>4, <2>5
  <1> QED
    BY <1>1, <1>2 DEF TypeOK, ServerAnswer, link

\* The message that is processed is one that has been collected.
LEMMA ServerProcessTypes ==
    ASSUME TypeOK, NEW v \in Servers, ServerProcess(v), server[v].got # <<>>
    PROVE  TypeOK'
  <1> DEFINE m == Last(server[v].got)
  <1>1. m \in Msg
    <2>1. server[v].got \in Seq(Copied)
      BY DEF TypeOK, Serving
    <2>2. Len(server[v].got) \in 1 .. Len(server[v].got)
      BY <2>1, EmptySeq
    <2>3. server[v].got[Len(server[v].got)] \in Copied
      BY <2>1, <2>2, ElementOfSeq
    <2> QED
      BY <2>3 DEF Last, Copied
  <1>2. handled' \in [Callers -> Seq(Nat)]
    <2>1. m.n \in Nat /\ m.t \in Callers
      BY <1>1 DEF Msg
    <2>2. Append(handled[m.t], m.n) \in Seq(Nat)
      BY <2>1, AppendProperties DEF TypeOK
    <2> QED
      BY <2>1, <2>2 DEF TypeOK, ServerProcess
  <1>3. server' \in [Servers -> Serving]
    <2>1. [pc |-> "ack", got |-> <<>>] \in Serving /\ [pc |-> "wait", got |-> <<>>] \in Serving
      BY EmptySeq DEF Serving
    <2> QED
      BY <2>1 DEF TypeOK, ServerProcess
  <1>4. snd' \in [Senders -> {Idle} \cup Sending]
    <2>1. Started([m EXCEPT !.ack = TRUE]) \in Sending
      <3> HIDE DEF m
      <3>1. [m EXCEPT !.ack = TRUE] \in Msg
        BY <1>1 DEF Msg
      <3> QED
        BY <3>1, IPCAssumption DEF Started, Sending
    <2>2. v \in Senders
      BY DEF Senders
    <2> QED
      BY <2>1, <2>2 DEF TypeOK, ServerProcess
  <1> QED
    BY <1>2, <1>3, <1>4 DEF TypeOK, ServerProcess, link

LEMMA CallTypes ==
    ASSUME TypeOK, NEW t \in Callers, Call(t)
    PROVE  TypeOK'
  <1>1. caller[t] \in Calling
    BY DEF TypeOK
  <1>2. Started([t |-> t, n |-> caller[t].n + 1, ack |-> FALSE]) \in Sending
    <2>1. [t |-> t, n |-> caller[t].n + 1, ack |-> FALSE] \in Msg
      BY <1>1 DEF Calling, Msg
    <2> QED
      BY <2>1, IPCAssumption DEF Started, Sending
  <1>3. snd' \in [Senders -> {Idle} \cup Sending]
    BY <1>2 DEF TypeOK, Call, Senders
  <1>4. caller' \in [Callers -> Calling]
    BY <1>1 DEF TypeOK, Call, Calling
  <1> QED
    BY <1>3, <1>4 DEF TypeOK, Call, link

LEMMA AnsweredTypes ==
    ASSUME TypeOK, NEW t \in Callers, Answered(t)
    PROVE  TypeOK'
  <1>1. caller[t].n + 1 \in Nat
    BY DEF TypeOK, Calling
  <1>2. [pc |-> "idle", n |-> caller[t].n + 1] \in Calling
    BY <1>1 DEF Calling
  <1>3. caller' \in [Callers -> Calling] /\ reply' \in [Callers -> Seq(Seq(Copied))]
    BY <1>2, EmptySeq DEF TypeOK, Answered
  <1> QED
    BY <1>3 DEF TypeOK, Answered, link
LEMMA AddServiceTypes ==
    ASSUME TypeOK, NEW v \in Servers, AddService(v)
    PROVE  TypeOK'
  <1>1. v[1] \in Cores
    BY DEF Servers
  <1>2. /\ evt' \in [Cores -> SUBSET Events]
        /\ Servers \ Late \subseteq added' /\ added' \subseteq Servers
    BY <1>1 DEF TypeOK, AddService, Events
  <1> QED
    BY <1>2 DEF TypeOK, AddService, tasks
-----------------------------------------------------------------------------
(* The link, action by action. *)

LEMMA IsrEnterLink ==
    ASSUME LinkSound, NEW c \in Cores, IsrEnter(c)
    PROVE  LinkSound'
  <1> DEFINE r == Peer(c)
  <1>1. r \in Cores /\ r # c /\ Peer(r) = c /\ \A d \in Cores : d = c \/ d = r
    BY PeerFacts
  <1> HIDE DEF r
  <1>2. TypeOK'
    BY IsrTypes DEF LinkSound, Isr
  <1>3. /\ isr[c] = {} /\ isr'[c] = irq[c] /\ isr'[r] = isr[r]
        /\ irq' = irq /\ evt'[r] = evt[r]
        /\ "write" \in evt'[c] <=> "write" \in evt[c] \/ "ack" \in irq[c]
        /\ "read" \in evt'[c] <=> "read" \in evt[c] \/ "data" \in irq[c]
    <2>1. /\ irq[c] \subseteq Interrupts /\ c \in DOMAIN isr /\ c \in DOMAIN evt
      BY DEF LinkSound, TypeOK
    <2>2. evt'[c] = evt[c] \cup {EventOf(i) : i \in irq[c]}
      BY <2>1 DEF IsrEnter
    <2>3. /\ "write" \in {EventOf(i) : i \in irq[c]} <=> "ack" \in irq[c]
          /\ "read" \in {EventOf(i) : i \in irq[c]} <=> "data" \in irq[c]
      BY <2>1 DEF EventOf, Interrupts
    <2> QED
      BY <1>1, <2>1, <2>2, <2>3 DEF IsrEnter
  <1>4. UNCHANGED <<slot, shm, seq, bake, tx, recv, snd, server, caller>>
    BY DEF IsrEnter, tasks
  <1>5. \A d \in Cores : (Putting(d)' <=> Putting(d)) /\ (InFlight(d)' <=> InFlight(d)) /\ (Blocks(d)' <=> Blocks(d))
    BY <1>4 DEF Putting, InFlight, Blocks, Stored, Block
  <1>6. \A x \in Senders : (Mutex(x) /\ Busy(x))'
    BY <1>4 DEF LinkSound, Mutex, Busy, Holding, Active
  <1>7. \A v \in Servers : Got(v)'
    BY <1>4 DEF LinkSound, Got
  <1>8. \E p \in Place : Token(c, p)'
    <2>1. PICK p \in Place : Token(c, p)
      BY DEF LinkSound
    <2>2. CASE p = "ack"
      BY <1>1, <1>3, <1>4, <1>5, <2>1, <2>2 DEF Token, Place, r
    <2>3. CASE p # "ack"
      BY <1>1, <1>3, <1>4, <1>5, <2>1, <2>3 DEF Token, Place, r
    <2> QED
      BY <2>2, <2>3
  <1>9. \E p \in Place : Token(r, p)'
    <2>1. PICK p \in Place : Token(r, p)
      BY <1>1 DEF LinkSound
    <2>2. CASE p = "data"
      BY <1>1, <1>3, <1>4, <1>5, <2>1, <2>2 DEF Token, Place
    <2>3. CASE p # "data"
      BY <1>1, <1>3, <1>4, <1>5, <2>1, <2>3 DEF Token, Place
    <2> QED
      BY <2>2, <2>3
  <1>10. \A d \in Cores : Handler(d)'
    BY <1>1, <1>3 DEF LinkSound, Handler
  <1> QED
    BY <1>1, <1>2, <1>5, <1>6, <1>7, <1>8, <1>9, <1>10 DEF LinkSound

LEMMA IsrExitLink ==
    ASSUME LinkSound, NEW c \in Cores, IsrExit(c)
    PROVE  LinkSound'
  <1>1. \A d \in Cores : Peer(d) \in Cores
    BY PeerFacts
  <1>2. TypeOK'
    BY IsrTypes DEF LinkSound, Isr
  <1>3. \A d \in Cores : irq'[d] \ isr'[d] = irq[d] \ isr[d]
    BY DEF LinkSound, TypeOK, IsrExit
  <1>4. UNCHANGED <<evt, slot, shm, seq, bake, tx, recv, snd, server, caller>>
    BY DEF IsrExit, tasks
  <1>5. \A d \in Cores : (Putting(d)' <=> Putting(d)) /\ (InFlight(d)' <=> InFlight(d))
                         /\ (Blocks(d)' <=> Blocks(d))
    BY <1>4 DEF Putting, InFlight, Blocks, Stored, Block
  <1>6. \A x \in Senders : (Mutex(x) /\ Busy(x))'
    BY <1>4 DEF LinkSound, Mutex, Busy, Holding, Active
  <1>7. \A v \in Servers : Got(v)'
    BY <1>4 DEF LinkSound, Got
  <1>8. ASSUME NEW d \in Cores PROVE \E p \in Place : Token(d, p)'
    <2>1. PICK p \in Place : Token(d, p)
      BY DEF LinkSound
    <2>2. Token(d, p)'
      BY <1>1, <1>3, <1>4, <1>5, <2>1 DEF Token
    <2> QED
      BY <2>2
  <1>9. \A d \in Cores : Handler(d)'
    BY <1>4 DEF LinkSound, Handler, IsrExit, TypeOK
  <1> QED
    BY <1>2, <1>5, <1>6, <1>7, <1>8, <1>9 DEF LinkSound

\* At most one sender of a core is at its block, its event or the slot.
LEMMA OneSender ==
    ASSUME LinkSound, NEW x \in Senders, NEW y \in Senders, CoreOf(x) = CoreOf(y),
           Holding(x), Holding(y)
    PROVE  x = y
  BY DEF LinkSound, Mutex

LEMMA FillLink ==
    ASSUME LinkSound, NEW x \in Senders, Fill(x)
    PROVE  LinkSound'
  <1> DEFINE c == CoreOf(x)
             r == Peer(c)
  <1>1. c \in Cores /\ r \in Cores /\ r # c /\ Peer(r) = c /\ \A d \in Cores : d = c \/ d = r
    BY PeerFacts, CoreOfType
  <1>2. TypeOK /\ TypeOK' /\ snd[x] \in Sending
    <2>1. TypeOK
      BY DEF LinkSound
    <2>2. TypeOK'
      BY <2>1, FillTypes
    <2>3. snd[x] \in Sending
      BY <2>1 DEF TypeOK, Fill, Idle
    <2> QED
      BY <2>1, <2>2, <2>3
  <1>3. /\ UNCHANGED <<evt, irq, isr, slot, seq, bake, recv, server, caller>>
        /\ snd[x].pc = "fill" /\ tx[c] \in {None, x} /\ tx' = [tx EXCEPT ![c] = x]
        /\ snd' = [snd EXCEPT ![x] = [@ EXCEPT !.pc = "wait", !.blk = Block(c)]]
        /\ shm' = [shm EXCEPT ![c][Block(c)] = [msg |-> snd[x].msg, i |-> snd[x].i]]
    BY DEF Fill
  <1> HIDE DEF c, r
  <1>4. /\ snd'[x].pc = "wait" /\ snd'[x].blk = Block(c)
        /\ snd'[x].msg = snd[x].msg /\ snd'[x].i = snd[x].i
        /\ \A y \in Senders : y # x => snd'[y] = snd[y]
    BY <1>2, <1>3 DEF TypeOK, Sending
  <1>5. \A d \in Cores : (Putting(d)' <=> Putting(d)) /\ (InFlight(d)' <=> InFlight(d))
    BY <1>3, <1>4 DEF Putting, InFlight
  <1>6. ASSUME NEW d \in Cores PROVE (\E p \in Place : Token(d, p)') /\ Handler(d)'
    <2>1. PICK p \in Place : Token(d, p)
      BY DEF LinkSound
    <2>2. Token(d, p)'
      BY <1>3, <1>5, <2>1 DEF Token
    <2> QED
      BY <1>3, <2>2 DEF LinkSound, Handler
  <1>7. \A y \in Senders : y # x /\ CoreOf(y) = c => ~Holding(y)
    BY <1>2, <1>3, IPCAssumption DEF LinkSound, Mutex, c, Senders, Servers
  <1>8. \A y \in Senders : (Mutex(y) /\ Busy(y))'
    <2>1. ASSUME NEW y \in Senders, y # x PROVE (Mutex(y) /\ Busy(y))'
      <3>1. CASE CoreOf(y) = c
        <4>1. tx'[c] = x /\ tx[c] # y
          BY <1>1, <1>2, <1>3, <2>1, IPCAssumption DEF TypeOK, Senders, Servers
        <4> QED
          BY <1>3, <1>4, <1>7, <2>1, <3>1, <4>1 DEF LinkSound, Mutex, Busy, Holding, Active
      <3>2. CASE CoreOf(y) # c
        <4>1. tx'[CoreOf(y)] = tx[CoreOf(y)]
          BY <1>2, <1>3, <3>2, CoreOfType DEF TypeOK
        <4> QED
          BY <1>3, <1>4, <2>1, <4>1 DEF LinkSound, Mutex, Busy, Holding, Active
      <3> QED
        BY <3>1, <3>2
    <2>2. (Mutex(x) /\ Busy(x))'
      <3>1. tx'[CoreOf(x)] = x
        BY <1>1, <1>2, <1>3 DEF TypeOK, c
      <3> QED
        BY <1>3, <1>4, <3>1 DEF LinkSound, Mutex, Busy, Holding, Active
    <2> QED
      BY <2>1, <2>2
  <1>9. \A v \in Servers : Got(v)'
    BY <1>3 DEF LinkSound, Got
  <1>10. Blocks(c)'
    <2>1. /\ Block(c) \in 0 .. BLOCK_SIZE - 1 /\ Block(c)' = Block(c)
          /\ seq[c] \in Nat /\ bake[r] \in Nat
      BY <1>1, <1>2, <1>3, BlocksApart DEF TypeOK, Block
    <2>2. /\ shm'[c][Block(c)] = [msg |-> snd[x].msg, i |-> snd[x].i]
          /\ \A b \in 0 .. BLOCK_SIZE - 1 : b # Block(c) => shm'[c][b] = shm[c][b]
      BY <1>1, <1>2, <1>3, <2>1 DEF TypeOK
    <2>3. seq[c] = bake[r] + 1 \/ seq[c] = bake[r] + 2
      <3>1. PICK p \in Place : Token(c, p)
        BY <1>1 DEF LinkSound
      <3> QED
        BY <3>1 DEF Token, Place, InFlight, r
    <2>4. /\ bake[r] % BLOCK_SIZE \in 0 .. BLOCK_SIZE - 1 /\ bake[r] % BLOCK_SIZE # Block(c)
          /\ (bake[r] + 1) % BLOCK_SIZE \in 0 .. BLOCK_SIZE - 1
          /\ seq[c] = bake[r] + 2 => (bake[r] + 1) % BLOCK_SIZE # Block(c)
      <3>1. bake[r] + 1 \in Nat /\ (bake[r] + 1) + 1 = bake[r] + 2
        BY <2>1
      <3>2. /\ bake[r] % BLOCK_SIZE # (bake[r] + 1) % BLOCK_SIZE
            /\ bake[r] % BLOCK_SIZE # (bake[r] + 2) % BLOCK_SIZE
            /\ bake[r] % BLOCK_SIZE \in 0 .. BLOCK_SIZE - 1
        BY <2>1, BlocksApart
      <3>3. /\ (bake[r] + 1) % BLOCK_SIZE # (bake[r] + 2) % BLOCK_SIZE
            /\ (bake[r] + 1) % BLOCK_SIZE \in 0 .. BLOCK_SIZE - 1
        BY <3>1, BlocksApart
      <3> QED
        BY <2>3, <3>2, <3>3 DEF Block
    <2>5. InFlight(c)' => (slot[c] \in Header /\ slot[c].seq = bake[r] + 1 /\ Stored(c, slot[c]))'
      <3>1. InFlight(c) => /\ slot[c] \in Header /\ slot[c].seq = bake[r] + 1
                           /\ Stored(c, slot[c])
        BY <1>1 DEF LinkSound, Blocks, r
      <3>2. InFlight(c) => /\ slot[c].blk \in 0 .. BLOCK_SIZE - 1
                           /\ slot[c].blk # Block(c)
        BY <2>4, <3>1 DEF Stored, InFlight, r
      <3>3. InFlight(c)' => InFlight(c)
        BY <1>1, <1>5
      <3> QED
        BY <1>3, <2>2, <3>1, <3>2, <3>3 DEF Stored
    <2>6. (recv[r].pc = "copy" => recv[r].m.seq = bake[r] /\ Stored(c, recv[r].m))'
      <3>1. recv[r].pc = "copy" => recv[r].m.seq = bake[r] /\ Stored(c, recv[r].m)
        BY <1>1 DEF LinkSound, Blocks, r
      <3>2. recv[r].pc = "copy" => /\ recv[r].m.blk \in 0 .. BLOCK_SIZE - 1
                                   /\ recv[r].m.blk # Block(c)
        BY <2>4, <3>1 DEF Stored
      <3> QED
        BY <1>3, <2>2, <3>1, <3>2 DEF Stored
    <2>7. \A y \in Senders : CoreOf(y) = c /\ snd'[y].pc \in {"wait", "put"} => y = x
      BY <1>4, <1>7 DEF Holding
    <2> QED
      BY <1>4, <2>1, <2>2, <2>5, <2>6, <2>7 DEF Blocks, r
  <1>11. Blocks(r)'
    <2>1. shm'[r] = shm[r]
      BY <1>1, <1>2, <1>3 DEF TypeOK
    <2>2. \A y \in Senders : CoreOf(y) = r => snd'[y] = snd[y]
      BY <1>1, <1>4 DEF c
    <2>3. Blocks(r)
      BY <1>1 DEF LinkSound
    <2> QED
      BY <1>1, <1>3, <1>5, <2>1, <2>2, <2>3, ZenonT(60) DEF Blocks, Stored, Block
  <1> QED
    BY <1>1, <1>2, <1>6, <1>8, <1>9, <1>10, <1>11 DEF LinkSound

LEMMA WaitWriteLink ==
    ASSUME LinkSound, NEW x \in Senders, WaitWrite(x)
    PROVE  LinkSound'
  <1> DEFINE c == CoreOf(x)
             r == Peer(c)
  <1>1. c \in Cores /\ r \in Cores /\ r # c /\ Peer(r) = c /\ \A d \in Cores : d = c \/ d = r
    BY PeerFacts, CoreOfType
  <1>2. TypeOK
    BY DEF LinkSound
  <1>3. TypeOK'
    BY <1>2, WaitWriteTypes
  <1>4. snd[x] \in Sending
    BY <1>2 DEF TypeOK, WaitWrite, Idle
  <1>5. /\ UNCHANGED <<irq, isr, slot, shm, seq, bake, tx, recv, server, caller>>
        /\ isr[c] = {} /\ snd[x].pc = "wait" /\ "write" \in evt[c]
        /\ evt' = [evt EXCEPT ![c] = @ \ {"write"}]
        /\ snd' = [snd EXCEPT ![x].pc = "put"]
    BY DEF WaitWrite, Running
  <1> HIDE DEF c, r
  <1>6. /\ snd'[x].pc = "put" /\ snd'[x].blk = snd[x].blk
        /\ snd'[x].msg = snd[x].msg /\ snd'[x].i = snd[x].i
        /\ \A y \in Senders : y # x => snd'[y] = snd[y]
    BY <1>2, <1>4, <1>5 DEF TypeOK, Sending
  <1>7. evt'[c] = evt[c] \ {"write"} /\ evt'[r] = evt[r]
    BY <1>1, <1>2, <1>5 DEF TypeOK
  <1>8. \A d \in Cores : InFlight(d)' <=> InFlight(d)
    BY <1>5 DEF InFlight
  <1>9. Putting(c)' /\ (Putting(r)' <=> Putting(r))
    BY <1>1, <1>6 DEF Putting, c
  <1>10. \E p \in Place : Token(c, p)'
    <2>1. Token(c, "write")
      <3>1. PICK p \in Place : Token(c, p)
        BY <1>1 DEF LinkSound
      <3> QED
        BY <1>5, <3>1 DEF Token
    <2>2. Token(c, "put")'
      BY <1>1, <1>5, <1>7, <1>8, <1>9, <2>1 DEF Token, r
    <2> QED
      BY <2>2 DEF Place
  <1>11. \E p \in Place : Token(r, p)'
    <2>1. PICK p \in Place : Token(r, p)
      BY <1>1 DEF LinkSound
    <2>2. Token(r, p)'
      BY <1>1, <1>5, <1>7, <1>8, <1>9, <2>1 DEF Token
    <2> QED
      BY <2>2
  <1>12. \A d \in Cores : Handler(d)'
    BY <1>1, <1>5, <1>7 DEF LinkSound, Handler
  <1>13. \A y \in Senders : (Mutex(y) /\ Busy(y))'
    BY <1>5, <1>6 DEF LinkSound, Mutex, Busy, Holding, Active
  <1>14. \A v \in Servers : Got(v)'
    BY <1>5 DEF LinkSound, Got
  <1>15. \A d \in Cores : Blocks(d)'
    BY <1>5, <1>6, <1>8 DEF LinkSound, Blocks, Stored, Block
  <1> QED
    BY <1>1, <1>3, <1>10, <1>11, <1>12, <1>13, <1>14, <1>15 DEF LinkSound

LEMMA PutLink ==
    ASSUME LinkSound, NEW x \in Senders, Put(x)
    PROVE  LinkSound'
  <1> DEFINE c == CoreOf(x)
             r == Peer(c)
             m == snd[x].msg
             h == [ser |-> Job[m.t].ser, msg |-> m, i |-> snd[x].i, blk |-> snd[x].blk,
                   seq |-> seq[c]]
  <1>1. c \in Cores /\ r \in Cores /\ r # c /\ Peer(r) = c /\ \A d \in Cores : d = c \/ d = r
    BY PeerFacts, CoreOfType
  <1>2. TypeOK
    BY DEF LinkSound
  <1>3. TypeOK'
    BY <1>2, PutTypes
  <1>4. snd[x] \in Sending
    BY <1>2 DEF TypeOK, Put, Idle
  <1>5. /\ UNCHANGED <<evt, isr, shm, bake, recv>>
        /\ isr[c] = {} /\ snd[x].pc = "put"
        /\ slot' = [slot EXCEPT ![c] = h]
        /\ irq' = [irq EXCEPT ![r] = @ \cup {"data"}]
        /\ seq' = [seq EXCEPT ![c] = @ + 1]
    BY DEF Put, PutMessage, Trigger, Running
  <1>6. \/ /\ snd[x].i < Fragments(m)
           /\ snd' = [snd EXCEPT ![x] = [@ EXCEPT !.pc = "fill", !.i = snd[x].i + 1]]
           /\ UNCHANGED <<tx, caller, server>>
        \/ /\ snd' = [snd EXCEPT ![x] = Idle]
           /\ tx' = [tx EXCEPT ![c] = None]
           /\ Sent(x)
    BY DEF Put
  <1> HIDE DEF c, r, h
  <1>7. /\ \A y \in Senders : y # x => snd'[y] = snd[y]
        /\ snd'[x].pc = "fill" \/ snd'[x].pc = "off"
    <2>1. CASE snd' = [snd EXCEPT ![x] = [@ EXCEPT !.pc = "fill", !.i = snd[x].i + 1]]
      <3>1. snd'[x].pc = "fill"
        BY <1>2, <1>4, <2>1 DEF TypeOK, Sending
      <3> QED
        BY <1>2, <2>1, <3>1 DEF TypeOK
    <2>2. CASE snd' = [snd EXCEPT ![x] = Idle]
      BY <1>2, <2>2 DEF TypeOK, Idle
    <2> QED
      BY <1>6, <2>1, <2>2
  <1>8. \A y \in Senders : CoreOf(y) = c /\ snd'[y].pc \in {"wait", "put"} => FALSE
    BY <1>5, <1>7, OneSender DEF Holding, c
  <1>9. ~Putting(c)' /\ (Putting(r)' <=> Putting(r))
    BY <1>1, <1>7, <1>8 DEF Putting, c
  <1>10. /\ seq'[c] = seq[c] + 1 /\ seq'[r] = seq[r] /\ slot'[c] = h /\ slot'[r] = slot[r]
         /\ irq'[r] = irq[r] \cup {"data"} /\ irq'[c] = irq[c]
         /\ seq[c] \in Nat /\ bake[r] \in Nat
    BY <1>1, <1>2, <1>5 DEF TypeOK
  <1>11. Token(c, "put")
    <2>1. PICK p \in Place : Token(c, p)
      BY <1>1 DEF LinkSound
    <2>2. Putting(c)
      BY <1>5 DEF Putting, c
    <2> QED
      BY <2>1, <2>2 DEF Token
  <1>12. InFlight(c)' /\ (InFlight(r)' <=> InFlight(r))
    BY <1>1, <1>5, <1>10, <1>11 DEF InFlight, Token, r
  <1>13. \E p \in Place : Token(c, p)'
    <2>1. "data" \notin isr[r]
      BY <1>1, <1>11 DEF LinkSound, Handler, Token, r
    <2>2. Token(c, "data")'
      BY <1>1, <1>5, <1>9, <1>10, <1>11, <1>12, <2>1 DEF Token, r
    <2> QED
      BY <2>2 DEF Place
  <1>14. \E p \in Place : Token(r, p)'
    <2>1. PICK p \in Place : Token(r, p)
      BY <1>1 DEF LinkSound
    <2>2. Token(r, p)'
      BY <1>1, <1>5, <1>9, <1>10, <1>12, <2>1 DEF Token
    <2> QED
      BY <2>2
  <1>15. \A d \in Cores : Handler(d)'
    BY <1>1, <1>5, <1>10 DEF LinkSound, Handler
  <1>16. Blocks(c)'
    <2>1. (slot[c] \in Header /\ slot[c].seq = bake[r] + 1 /\ Stored(c, slot[c]))'
      <3>1. snd[x].blk = Block(c) /\ shm[c][Block(c)] = [msg |-> snd[x].msg, i |-> snd[x].i]
        BY <1>1, <1>5 DEF LinkSound, Blocks, c
      <3>2. h.seq = seq[c] /\ h.blk = snd[x].blk /\ h.msg = m /\ h.i = snd[x].i
            /\ h.ser = Job[m.t].ser
        BY DEF h
      <3>3. seq[c] = bake[r] + 1
        BY <1>11 DEF Token, r
      <3>4. h \in Header
        BY <1>1, <1>2, <1>4, JobType DEF TypeOK, Header, Msg, Sending, h
      <3> QED
        BY <1>5, <1>10, <3>1, <3>2, <3>3, <3>4 DEF Stored, Block
    <2>2. recv[r].pc = "copy" => recv[r].m.seq = bake[r] /\ Stored(c, recv[r].m)
      BY <1>1 DEF LinkSound, Blocks, r
    <2>3. (recv[r].pc = "copy" => recv[r].m.seq = bake[r] /\ Stored(c, recv[r].m))'
      BY <1>5, <2>2 DEF Stored
    <2> QED
      BY <1>8, <2>1, <2>3 DEF Blocks, r
  <1>17. Blocks(r)'
    <2>1. Blocks(r)
      BY <1>1 DEF LinkSound
    <2>2. \A y \in Senders : CoreOf(y) = r => snd'[y] = snd[y]
      BY <1>1, <1>7 DEF c
    <2> QED
      BY <1>1, <1>5, <1>10, <1>12, <2>1, <2>2 DEF Blocks, Stored, Block
  <1>18. CASE /\ snd[x].i < Fragments(m)
              /\ snd' = [snd EXCEPT ![x] = [@ EXCEPT !.pc = "fill", !.i = snd[x].i + 1]]
              /\ UNCHANGED <<tx, caller, server>>
    <2>1. /\ snd'[x].pc = "fill" /\ snd'[x].i = snd[x].i + 1 /\ snd'[x].msg = m
          /\ snd[x].i \in Nat \ {0} /\ m \in Msg
      BY <1>2, <1>4, <1>18 DEF TypeOK, Sending
    <2>2. snd[x].i + 1 > 1 /\ snd[x].i + 1 <= Fragments(m)
      BY <1>18, <2>1, FragmentsType
    <2>3. \A y \in Senders : (Mutex(y) /\ Busy(y))'
      <3>1. (Mutex(x) /\ Busy(x))'
        BY <1>5, <1>18, <2>1, <2>2 DEF LinkSound, Mutex, Busy, Holding, Active
      <3> QED
        BY <1>7, <1>18, <3>1 DEF LinkSound, Mutex, Busy, Holding, Active
    <2>4. \A v \in Servers : Got(v)'
      BY <1>18 DEF LinkSound, Got
    <2> QED
      BY <1>1, <1>3, <1>13, <1>14, <1>15, <1>16, <1>17, <2>3, <2>4 DEF LinkSound
  <1>19. CASE /\ snd' = [snd EXCEPT ![x] = Idle]
              /\ tx' = [tx EXCEPT ![c] = None]
              /\ Sent(x)
    <2>1. snd'[x].pc = "off" /\ snd'[x].i = 0
      BY <1>2, <1>19 DEF TypeOK, Idle
    <2>2. /\ tx'[c] = None /\ tx[c] = x
          /\ \A d \in Cores : d # c => tx'[d] = tx[d]
      BY <1>1, <1>2, <1>5, <1>19 DEF TypeOK, LinkSound, Mutex, Holding, c
    <2>3. None \notin Senders
      BY IPCAssumption DEF Senders, Servers
    <2>4. \A y \in Senders : Mutex(y)'
      <3>1. Mutex(x)'
        BY <2>1, <2>2, <2>3 DEF Mutex, Holding, Active, c
      <3>2. ASSUME NEW y \in Senders, y # x PROVE Mutex(y)'
        BY <1>7, <2>2, <2>3, <3>2, CoreOfType DEF LinkSound, Mutex, Holding, Active
      <3> QED
        BY <3>1, <3>2
    <2>5. /\ \A y \in Callers : y # x => caller'[y] = caller[y]
          /\ x \in Callers => caller'[x].pc # "send"
      BY <1>2, <1>19 DEF TypeOK, Sent, Calling
    <2>6. /\ \A v \in Servers : v # x => server'[v] = server[v]
          /\ x \in Servers => server'[x].pc = "wait" /\ server'[x].got = server[x].got
      BY <1>2, <1>19 DEF TypeOK, Sent, Serving
    <2>7. \A y \in Senders : Busy(y)'
      <3>1. Busy(x)'
        BY <2>1, <2>5, <2>6 DEF Busy, Active, Senders
      <3>2. ASSUME NEW y \in Senders, y # x PROVE Busy(y)'
        BY <1>7, <2>5, <2>6, <3>2 DEF LinkSound, Busy, Active, Senders
      <3> QED
        BY <3>1, <3>2
    <2>8. \A v \in Servers : Got(v)'
      <3>1. x \in Servers => server[x].got = <<>>
        BY <1>5, IPCAssumption DEF LinkSound, Busy, Active, Got, Senders, Servers
      <3> QED
        BY <2>6, <3>1 DEF LinkSound, Got
    <2> QED
      BY <1>1, <1>3, <1>13, <1>14, <1>15, <1>16, <1>17, <2>4, <2>7, <2>8 DEF LinkSound
  <1> QED
    BY <1>6, <1>18, <1>19

LEMMA RecvWaitLink ==
    ASSUME LinkSound, NEW c \in Cores, RecvWait(c)
    PROVE  LinkSound'
  <1> DEFINE s == Peer(c)
  <1>1. s \in Cores /\ s # c /\ Peer(s) = c /\ \A d \in Cores : d = c \/ d = s
    BY PeerFacts
  <1>2. TypeOK
    BY DEF LinkSound
  <1>3. TypeOK'
    BY <1>2, RecvWaitTypes
  <1>4. /\ UNCHANGED <<irq, isr, slot, shm, seq, bake, tx, snd, server, caller>>
        /\ isr[c] = {} /\ recv[c].pc = "wait" /\ "read" \in evt[c]
        /\ evt' = [evt EXCEPT ![c] = @ \ {"read"}]
        /\ recv' = [recv EXCEPT ![c].pc = "get"]
    BY DEF RecvWait, Running
  <1> HIDE DEF s
  <1>5. /\ evt'[c] = evt[c] \ {"read"} /\ evt'[s] = evt[s]
        /\ recv'[c].pc = "get" /\ recv'[s] = recv[s]
    BY <1>1, <1>2, <1>4 DEF TypeOK, Receiving
  <1>6. \A d \in Cores : (InFlight(d)' <=> InFlight(d)) /\ (Putting(d)' <=> Putting(d))
    BY <1>4 DEF InFlight, Putting
  <1>7. \E p \in Place : Token(s, p)'
    <2>1. Token(s, "read")
      <3>1. PICK p \in Place : Token(s, p)
        BY <1>1 DEF LinkSound
      <3> QED
        BY <1>1, <1>4, <3>1 DEF Token
    <2>2. Token(s, "get")'
      BY <1>1, <1>4, <1>5, <1>6, <2>1 DEF Token
    <2> QED
      BY <2>2 DEF Place
  <1>8. \E p \in Place : Token(c, p)'
    <2>1. PICK p \in Place : Token(c, p)
      BY DEF LinkSound
    <2>2. Token(c, p)'
      BY <1>1, <1>4, <1>5, <1>6, <2>1 DEF Token, s
    <2> QED
      BY <2>2
  <1>9. \A d \in Cores : Handler(d)'
    BY <1>1, <1>4, <1>5 DEF LinkSound, Handler
  <1>10. \A x \in Senders : (Mutex(x) /\ Busy(x))'
    BY <1>4 DEF LinkSound, Mutex, Busy, Holding, Active
  <1>11. \A v \in Servers : Got(v)'
    BY <1>4 DEF LinkSound, Got
  <1>12. Blocks(s)'
    <2>1. Blocks(s)
      BY <1>1 DEF LinkSound
    <2> QED
      BY <1>1, <1>4, <1>5, <1>6, <2>1 DEF Blocks, Stored, Block
  <1>13. Blocks(c)'
    <2>1. Blocks(c)
      BY DEF LinkSound
    <2> QED
      BY <1>1, <1>4, <1>5, <1>6, <2>1 DEF Blocks, Stored, Block, s
  <1> QED
    BY <1>1, <1>3, <1>7, <1>8, <1>9, <1>10, <1>11, <1>12, <1>13 DEF LinkSound

\* The receive task finds in the slot the header after the one it read last.
LEMMA SlotRead ==
    ASSUME LinkSound, NEW c \in Cores, recv[c].pc = "get"
    PROVE  LET s == Peer(c) IN
           /\ Token(s, "get") /\ slot[s] \in Header /\ slot[s].seq = bake[c] + 1
           /\ Stored(s, slot[s])
  <1> DEFINE s == Peer(c)
  <1>1. s \in Cores /\ Peer(s) = c
    BY PeerFacts
  <1> HIDE DEF s
  <1>2. PICK p \in Place : Token(s, p)
    BY <1>1 DEF LinkSound
  <1>3. p = "get" /\ InFlight(s)
    BY <1>1, <1>2 DEF Token
  <1>4. Blocks(s)
    BY <1>1 DEF LinkSound
  <1> QED
    BY <1>1, <1>2, <1>3, <1>4 DEF Blocks, s

LEMMA RecvGetLink ==
    ASSUME LinkSound, NEW c \in Cores, RecvGet(c)
    PROVE  LinkSound'
  <1> DEFINE s == Peer(c)
  <1>1. s \in Cores /\ s # c /\ Peer(s) = c /\ \A d \in Cores : d = c \/ d = s
    BY PeerFacts
  <1>2. TypeOK
    BY DEF LinkSound
  <1>4. Token(s, "get") /\ slot[s] \in Header /\ slot[s].seq = bake[c] + 1 /\ Stored(s, slot[s])
    BY SlotRead DEF RecvGet
  <1>3. /\ UNCHANGED <<evt, isr, slot, shm, seq, tx, snd, server, caller>>
        /\ isr[c] = {} /\ recv[c].pc = "get"
        /\ irq' = [irq EXCEPT ![s] = @ \cup {"ack"}]
        /\ bake' = [bake EXCEPT ![c] = slot[s].seq]
        /\ recv' = [recv EXCEPT ![c] = [pc |-> "copy", m |-> slot[s]]]
    <2>1. slot[s] # None
      BY <1>4, NoneAssumption
    <2> QED
      BY <2>1 DEF RecvGet, Running, Trigger
  <1>5. TypeOK'
    BY <1>2, RecvGetTypes
  <1> HIDE DEF s
  <1>6. /\ irq'[s] = irq[s] \cup {"ack"} /\ irq'[c] = irq[c]
        /\ bake'[c] = bake[c] + 1 /\ bake'[s] = bake[s]
        /\ recv'[c] = [pc |-> "copy", m |-> slot[s]] /\ recv'[s] = recv[s]
        /\ bake[c] \in Nat /\ seq[s] \in Nat
    BY <1>1, <1>2, <1>3, <1>4 DEF TypeOK
  <1>7. \A d \in Cores : Putting(d)' <=> Putting(d)
    BY <1>3 DEF Putting
  <1>8. seq[s] = bake'[c] + 1 /\ ~InFlight(s)' /\ (InFlight(c)' <=> InFlight(c))
    BY <1>1, <1>3, <1>4, <1>6 DEF InFlight, Token, s
  <1>9. \E p \in Place : Token(s, p)'
    <2>1. "ack" \notin isr[s]
      BY <1>1, <1>4 DEF LinkSound, Handler, Token
    <2>2. Token(s, "ack")'
      BY <1>1, <1>3, <1>4, <1>6, <1>7, <1>8, <2>1 DEF Token
    <2> QED
      BY <2>2 DEF Place
  <1>10. \E p \in Place : Token(c, p)'
    <2>1. PICK p \in Place : Token(c, p)
      BY DEF LinkSound
    <2>2. Token(c, p)'
      BY <1>1, <1>3, <1>6, <1>7, <1>8, <2>1 DEF Token, s
    <2> QED
      BY <2>2
  <1>11. \A d \in Cores : Handler(d)'
    BY <1>1, <1>3, <1>6 DEF LinkSound, Handler
  <1>12. \A x \in Senders : (Mutex(x) /\ Busy(x))'
    BY <1>3 DEF LinkSound, Mutex, Busy, Holding, Active
  <1>13. \A v \in Servers : Got(v)'
    BY <1>3 DEF LinkSound, Got
  <1>14. Blocks(s)'
    <2>1. Blocks(s)
      BY <1>1 DEF LinkSound
    <2>2. recv'[c].m = slot[s] /\ Stored(s, recv[c].m)'
      BY <1>3, <1>4, <1>6 DEF Stored
    <2> QED
      BY <1>1, <1>3, <1>4, <1>6, <1>8, <2>1, <2>2 DEF Blocks, Block
  <1>15. Blocks(c)'
    <2>1. Blocks(c)
      BY DEF LinkSound
    <2> QED
      BY <1>1, <1>3, <1>6, <1>8, <2>1 DEF Blocks, Stored, Block, s
  <1> QED
    BY <1>1, <1>5, <1>9, <1>10, <1>11, <1>12, <1>13, <1>14, <1>15 DEF LinkSound

\* RecvCopy and RecvGive leave the link alone.
LEMMA RecvMoves ==
    ASSUME LinkSound, NEW c \in Cores, recv[c].pc # "get",
           UNCHANGED <<link, tx, snd, server, caller>>,
           NEW q, recv' = [recv EXCEPT ![c] = q], q.pc \in {"give", "wait"},
           TypeOK'
    PROVE  LinkSound'
  <1>1. TypeOK /\ \A d \in Cores : Peer(d) \in Cores
    BY PeerFacts DEF LinkSound
  <1>2. UNCHANGED <<evt, irq, isr, slot, shm, seq, bake, tx, snd, server, caller>>
    BY DEF link
  <1>3. \A d \in Cores : /\ recv'[d].pc = "get" <=> recv[d].pc = "get"
                         /\ recv'[d].pc = "copy" => recv'[d] = recv[d]
    BY <1>1 DEF TypeOK
  <1>4. \A d \in Cores : (InFlight(d)' <=> InFlight(d)) /\ (Putting(d)' <=> Putting(d))
    BY <1>2 DEF InFlight, Putting
  <1>5. ASSUME NEW d \in Cores PROVE (\E p \in Place : Token(d, p)') /\ Handler(d)' /\ Blocks(d)'
    <2>1. PICK p \in Place : Token(d, p)
      BY DEF LinkSound
    <2>2. Token(d, p)'
      BY <1>1, <1>2, <1>3, <1>4, <2>1 DEF Token
    <2>3. Handler(d)'
      BY <1>2 DEF LinkSound, Handler
    <2>4. Blocks(d)
      BY DEF LinkSound
    <2>5. Blocks(d)'
      BY <1>1, <1>2, <1>3, <1>4, <2>4 DEF Blocks, Stored, Block
    <2> QED
      BY <2>2, <2>3, <2>5
  <1>6. \A x \in Senders : (Mutex(x) /\ Busy(x))'
    BY <1>2 DEF LinkSound, Mutex, Busy, Holding, Active
  <1>7. \A v \in Servers : Got(v)'
    BY <1>2 DEF LinkSound, Got
  <1> QED
    BY <1>5, <1>6, <1>7 DEF LinkSound

LEMMA RecvCopyLink ==
    ASSUME LinkSound, NEW c \in Cores, RecvCopy(c)
    PROVE  LinkSound'
  <1> DEFINE m == recv[c].m
             q == [pc |-> "give", m |-> [ser |-> m.ser, hd |-> m.msg, data |-> shm[Peer(c)][m.blk]]]
  <1>1. TypeOK /\ Peer(c) \in Cores /\ Peer(Peer(c)) = c
    BY PeerFacts DEF LinkSound
  <1>2. /\ recv[c].pc = "copy" /\ recv' = [recv EXCEPT ![c] = q]
        /\ UNCHANGED <<link, tx, snd, server, caller>>
    BY DEF RecvCopy
  <1>3. m \in Header
    BY <1>1, <1>2 DEF TypeOK, Receiving
  <1>4. shm[Peer(c)][m.blk] = [msg |-> m.msg, i |-> m.i]
    <2>1. Blocks(Peer(c))
      BY <1>1 DEF LinkSound
    <2>2. Stored(Peer(c), m)
      BY <1>1, <1>2, <2>1 DEF Blocks
    <2> QED
      BY <2>2 DEF Stored
  <1>5. shm[Peer(c)][m.blk] \in Fragment
    BY <1>3, <1>4 DEF Fragment, Header
  <1>6. TypeOK'
    BY <1>1, <1>5, RecvCopyTypes
  <1>7. q.pc = "give"
    OBVIOUS
  <1> HIDE DEF q, m
  <1> QED
    BY <1>2, <1>6, <1>7, RecvMoves

LEMMA RecvGiveLink ==
    ASSUME LinkSound, NEW c \in Cores, RecvGive(c)
    PROVE  LinkSound'
  <1> DEFINE q == [pc |-> "wait", m |-> None]
  <1>1. TypeOK
    BY DEF LinkSound
  <1>2. /\ recv[c].pc = "give" /\ recv' = [recv EXCEPT ![c] = q]
        /\ UNCHANGED <<link, tx, snd, server, caller>>
    BY DEF RecvGive
  <1>3. TypeOK'
    BY <1>1, RecvGiveTypes
  <1>4. q.pc = "wait"
    OBVIOUS
  <1> HIDE DEF q
  <1> QED
    BY <1>2, <1>3, <1>4, RecvMoves

\* Services and callers leave the link alone; a sender that starts does not
\* have tx_mutex yet.
LEMMA TaskMoves ==
    ASSUME LinkSound, TypeOK', UNCHANGED <<link, tx, recv>>,
           \A x \in Senders : \/ snd'[x] = snd[x]
                              \/ /\ snd[x].pc = "off" /\ snd'[x].pc = "fill"
                                 /\ snd'[x].i = 1 /\ snd'[x].msg \in Msg,
           \A x \in Senders : Busy(x)',
           \A v \in Servers : Got(v)'
    PROVE  LinkSound'
  <1>1. UNCHANGED <<evt, irq, isr, slot, shm, seq, bake, tx, recv>>
    BY DEF link
  <1>2. \A d \in Cores : (InFlight(d)' <=> InFlight(d)) /\ (Putting(d)' <=> Putting(d))
    BY <1>1 DEF InFlight, Putting
  <1>3. ASSUME NEW d \in Cores PROVE (\E p \in Place : Token(d, p)') /\ Handler(d)' /\ Blocks(d)'
    <2>1. PICK p \in Place : Token(d, p)
      BY DEF LinkSound
    <2>2. Token(d, p)'
      BY <1>1, <1>2, <2>1 DEF Token
    <2>3. Handler(d)'
      BY <1>1 DEF LinkSound, Handler
    <2>4. Blocks(d)
      BY DEF LinkSound
    <2>5. Blocks(d)'
      BY <1>1, <1>2, <2>4 DEF Blocks, Stored, Block
    <2> QED
      BY <2>2, <2>3, <2>5
  <1>4. ASSUME NEW x \in Senders PROVE Mutex(x)'
    <2>1. CASE snd'[x] = snd[x]
      BY <1>1, <2>1 DEF LinkSound, Mutex, Holding, Active
    <2>2. CASE /\ snd[x].pc = "off" /\ snd'[x].pc = "fill"
               /\ snd'[x].i = 1 /\ snd'[x].msg \in Msg
      BY <1>1, <2>2, FragmentsType DEF LinkSound, Mutex, Holding, Active
    <2> QED
      BY <2>1, <2>2
  <1> QED
    BY <1>3, <1>4 DEF LinkSound

\* The steps of a service that do not start an answer.
LEMMA ServiceMoves ==
    ASSUME LinkSound, TypeOK', NEW v \in Servers, UNCHANGED <<link, tx, recv, snd, caller>>,
           NEW q, server' = [server EXCEPT ![v] = q],
           server[v].pc # "ack", q.pc # "ack",
           q.pc = "wait" => q.got = <<>>,
           q.pc # "wait" => q.got # <<>>
    PROVE  LinkSound'
  <1>1. server'[v] = q /\ \A w \in Servers : w # v => server'[w] = server[w]
    BY DEF LinkSound, TypeOK
  <1>2. \A w \in Servers : Got(w)'
    BY <1>1 DEF LinkSound, Got
  <1>3. \A x \in Senders : Busy(x)'
    BY <1>1 DEF LinkSound, Busy, Active, Senders
  <1> QED
    BY <1>2, <1>3, TaskMoves

LEMMA ServeLink ==
    ASSUME LinkSound, NEW v \in Servers, Serve(v)
    PROVE  LinkSound'
  <1>1. TypeOK /\ server[v] \in Serving /\ v \in DOMAIN server /\ Got(v)
    BY DEF LinkSound, TypeOK
  <1>2. CASE ServerWait(v)
    <2> DEFINE q == [pc |-> "lock", got |-> <<Head(queue[v])>>]
    <2>1. TypeOK' /\ server' = [server EXCEPT ![v] = q] /\ server[v].pc = "wait"
          /\ UNCHANGED <<link, tx, recv, snd, caller>>
      BY <1>1, <1>2, ServerWaitTypes DEF ServerWait
    <2>2. q.pc = "lock" /\ q.got # <<>>
      OBVIOUS
    <2> HIDE DEF q
    <2> QED
      BY <2>1, <2>2, ServiceMoves
  <1>3. CASE ServerLock(v)
    <2>1. PICK p \in {"undefined", "handle", "collect"} : server' = [server EXCEPT ![v].pc = p]
      BY <1>3 DEF ServerLock
    <2> DEFINE q == [server[v] EXCEPT !.pc = p]
    <2>2. TypeOK' /\ server[v].pc = "lock" /\ UNCHANGED <<link, tx, recv, snd, caller>>
      BY <1>1, <1>3, ServerLockTypes DEF ServerLock
    <2>3. server' = [server EXCEPT ![v] = q]
      BY <2>1
    <2>4. q.pc = p /\ q.got = server[v].got
      BY <1>1 DEF Serving
    <2>5. server[v].got # <<>>
      BY <1>1, <2>2 DEF Got
    <2> HIDE DEF q
    <2> QED
      BY <2>2, <2>3, <2>4, <2>5, ServiceMoves
  <1>4. CASE ServerCollect(v)
    <2> DEFINE g == Append(server[v].got, Head(queue[v]))
    <2>1. PICK p \in {"handle", "collect"} : server' = [server EXCEPT ![v] = [pc |-> p, got |-> g]]
      BY <1>4 DEF ServerCollect
    <2> DEFINE q == [pc |-> p, got |-> g]
    <2>2. TypeOK' /\ server[v].pc = "collect" /\ UNCHANGED <<link, tx, recv, snd, caller>>
      BY <1>1, <1>4, ServerCollectTypes DEF ServerCollect
    <2>3. g # <<>>
      <3>1. Head(queue[v]) \in Copied /\ server[v].got \in Seq(Copied)
        BY <1>1, <1>4, TakeTypes DEF ServerCollect, Serving
      <3> QED
        BY <3>1, AppendProperties
    <2>4. q.pc = p /\ q.got = g
      OBVIOUS
    <2> HIDE DEF q, g
    <2>5. server' = [server EXCEPT ![v] = q]
      BY <2>1 DEF q
    <2> QED
      BY <2>2, <2>3, <2>4, <2>5, ServiceMoves
  <1>5. CASE ServerAnswer(v) \/ (ServerProcess(v) /\ UNCHANGED snd)
    <2> DEFINE q == [pc |-> "wait", got |-> <<>>]
    <2>1. server[v].pc = "handle" /\ UNCHANGED <<link, tx, recv, snd, caller>>
      BY <1>5 DEF ServerAnswer, ServerProcess
    <2>2. server[v].got # <<>>
      BY <1>1, <2>1 DEF Got
    <2>3. TypeOK'
      BY <1>1, <1>5, <2>2, ServerAnswerTypes, ServerProcessTypes
    <2>4. server' = [server EXCEPT ![v] = q]
      <3>1. ServerProcess(v) /\ UNCHANGED snd => ~Job[Last(server[v].got).t].sync
        <4>1. SUFFICES ASSUME ServerProcess(v), snd' = snd, Job[Last(server[v].got).t].sync
                       PROVE  FALSE
          OBVIOUS
        <4>2. snd' = [snd EXCEPT ![v] = Started([Last(server[v].got) EXCEPT !.ack = TRUE])]
          BY <4>1 DEF ServerProcess
        <4>3. v \in Senders /\ v \notin Callers
          BY IPCAssumption DEF Senders, Servers
        <4>4. snd[v].pc = "off"
          BY <2>1, <4>3 DEF LinkSound, Busy, Active
        <4>5. snd'[v].pc = "fill"
          BY <1>1, <4>2, <4>3 DEF TypeOK, Started
        <4> QED
          BY <4>1, <4>4, <4>5
      <3> QED
        BY <1>5, <3>1 DEF ServerAnswer, ServerProcess
    <2>5. q.pc = "wait" /\ q.got = <<>>
      OBVIOUS
    <2> HIDE DEF q
    <2> QED
      BY <2>1, <2>3, <2>4, <2>5, ServiceMoves
  <1>6. CASE ServerProcess(v) /\ ~UNCHANGED snd
    <2> DEFINE m == Last(server[v].got)
    <2>1. /\ snd' = [snd EXCEPT ![v] = Started([m EXCEPT !.ack = TRUE])]
          /\ server' = [server EXCEPT ![v] = [pc |-> "ack", got |-> <<>>]]
          /\ server[v].pc = "handle" /\ UNCHANGED <<link, tx, recv, caller>>
      BY <1>6 DEF ServerProcess
    <2>2. server[v].got # <<>>
      BY <1>1, <2>1 DEF Got
    <2>3. TypeOK'
      BY <1>1, <1>6, <2>2, ServerProcessTypes
    <2>4. v \in Senders /\ v \notin Callers
      BY IPCAssumption DEF Senders, Servers
    <2>5. /\ snd'[v] = Started([m EXCEPT !.ack = TRUE])
          /\ \A x \in Senders : x # v => snd'[x] = snd[x]
          /\ server'[v] = [pc |-> "ack", got |-> <<>>]
          /\ \A w \in Servers : w # v => server'[w] = server[w]
      BY <1>1, <2>1, <2>4 DEF TypeOK
    <2>6. snd[v].pc = "off"
      BY <2>1, <2>4 DEF LinkSound, Busy, Active
    <2>7. snd'[v].pc = "fill" /\ snd'[v].i = 1
      BY <2>5 DEF Started
    <2>8. snd'[v].msg \in Msg
      BY <2>3, <2>4, <2>7 DEF TypeOK, Sending, Idle
    <2>9. \A w \in Servers : Got(w)'
      BY <2>5 DEF LinkSound, Got
    <2>10. \A x \in Senders : Busy(x)'
      BY <2>1, <2>4, <2>5, <2>7 DEF LinkSound, Busy, Active, Senders
    <2> QED
      BY <2>1, <2>3, <2>5, <2>6, <2>7, <2>8, <2>9, <2>10, TaskMoves
  <1> QED
    BY <1>2, <1>3, <1>4, <1>5, <1>6 DEF Serve

LEMMA CallLink ==
    ASSUME LinkSound, NEW t \in Callers, Call(t)
    PROVE  LinkSound'
  <1>1. TypeOK
    BY DEF LinkSound
  <1>2. TypeOK'
    BY <1>1, CallTypes
  <1>3. t \in Senders
    BY DEF Senders
  <1>4. /\ caller'[t].pc = "send" /\ caller[t].pc = "idle"
        /\ \A u \in Callers : u # t => caller'[u] = caller[u]
    BY <1>1 DEF TypeOK, Call, Calling
  <1>5. /\ snd'[t].pc = "fill" /\ snd'[t].i = 1
        /\ \A x \in Senders : x # t => snd'[x] = snd[x]
    BY <1>1, <1>3 DEF TypeOK, Call, Started
  <1>6. snd'[t].msg \in Msg
    BY <1>2, <1>3, <1>5 DEF TypeOK, Sending, Idle
  <1>7. snd[t].pc = "off"
    BY <1>3, <1>4 DEF LinkSound, Busy, Active
  <1>8. UNCHANGED <<link, tx, recv, server>>
    BY DEF Call
  <1>9. \A w \in Servers : Got(w)'
    BY <1>8 DEF LinkSound, Got
  <1>10. \A x \in Senders : Busy(x)'
    BY <1>4, <1>5, <1>8 DEF LinkSound, Busy, Active, Senders
  <1> QED
    BY <1>2, <1>5, <1>6, <1>7, <1>8, <1>9, <1>10, TaskMoves

LEMMA AnsweredLink ==
    ASSUME LinkSound, NEW t \in Callers, Answered(t)
    PROVE  LinkSound'
  <1>1. TypeOK
    BY DEF LinkSound
  <1>2. TypeOK'
    BY <1>1, AnsweredTypes
  <1>3. /\ caller'[t].pc = "idle" /\ caller[t].pc = "await"
        /\ \A u \in Callers : u # t => caller'[u] = caller[u]
    BY <1>1 DEF TypeOK, Answered
  <1>4. UNCHANGED <<link, tx, recv, snd, server>>
    BY DEF Answered
  <1>5. \A w \in Servers : Got(w)'
    BY <1>4 DEF LinkSound, Got
  <1>6. \A x \in Senders : Busy(x)'
    BY <1>3, <1>4 DEF LinkSound, Busy, Active, Senders
  <1> QED
    BY <1>2, <1>4, <1>5, <1>6, TaskMoves
-----------------------------------------------------------------------------
(* The theorems. *)

LEMMA LinkInit == Init => LinkSound
  <1> SUFFICES ASSUME Init PROVE LinkSound
    OBVIOUS
  <1>1. TypeOK
    <2>1. <<>> \in Seq(Copied) /\ <<>> \in Seq(Seq(Copied)) /\ <<>> \in Seq(Nat) /\ Len(<<>>) = 0
      BY EmptySeq
    <2>2. [pc |-> "wait", m |-> None] \in Receiving /\ [pc |-> "idle", n |-> 0] \in Calling
      BY DEF Receiving, Calling
    <2>3. [pc |-> "wait", got |-> <<>>] \in Serving
      BY <2>1 DEF Serving
    <2> QED
      BY <2>1, <2>2, <2>3, IPCAssumption DEF Init, TypeOK, Events
  <1>2. \A c \in Cores : Token(c, "write") /\ Handler(c) /\ Blocks(c)
    BY PeerFacts DEF Init, Token, Handler, Blocks, Putting, InFlight, Idle
  <1>3. \A x \in Senders : Mutex(x) /\ Busy(x)
    BY CoreOfType, IPCAssumption DEF Init, Mutex, Holding, Busy, Active, Idle, Senders, Servers
  <1>4. \A v \in Servers : Got(v)
    BY DEF Init, Got
  <1> QED
    BY <1>1, <1>2, <1>3, <1>4 DEF LinkSound, Place

\* Only a late registration ends the settled state.
LEMMA StaysSettled ==
    ASSUME TypeOK, [Next]_vars, Settled'
    PROVE  Settled /\ \A v \in Servers : ~AddService(v)
  <1>1. ASSUME NEW v \in Servers, AddService(v) PROVE FALSE
    <2>1. v \in added' /\ v \notin added
      BY <1>1 DEF AddService
    <2>2. v \in Servers \ Late
      BY <2>1 DEF Settled
    <2> QED
      BY <2>1, <2>2 DEF TypeOK
  <1>2. UNCHANGED added
    BY <1>1 DEF Next, Step, Isr, IsrEnter, IsrExit, Send, Fill, WaitWrite, Put, Recv, RecvWait,
       RecvGet, RecvCopy, RecvGive, Serve, ServerWait, ServerLock, ServerCollect, ServerAnswer,
       ServerProcess, Call, Answered, vars
  <1> QED
    BY <1>1, <1>2 DEF Settled

LEMMA LinkNext == (TypeOK /\ LinkInv) /\ [Next]_vars => LinkInv'
  <1> SUFFICES ASSUME TypeOK, LinkInv, [Next]_vars, Settled' PROVE LinkSound'
    BY DEF LinkInv
  <1>0. LinkSound /\ \A v \in Servers : ~AddService(v)
    BY StaysSettled DEF LinkInv
  <1>1. ASSUME NEW c \in Cores, Step(c) PROVE LinkSound'
    <2>1. CASE Isr(c)
      BY <1>0, <2>1, IsrEnterLink, IsrExitLink DEF Isr
    <2>2. CASE Recv(c)
      BY <1>0, <2>2, RecvWaitLink, RecvGetLink, RecvCopyLink, RecvGiveLink DEF Recv
    <2>3. ASSUME NEW x \in Senders, Send(x) PROVE LinkSound'
      BY <1>0, <2>3, FillLink, WaitWriteLink, PutLink DEF Send
    <2>4. ASSUME NEW v \in Servers, Serve(v) PROVE LinkSound'
      BY <1>0, <2>4, ServeLink
    <2>5. ASSUME NEW t \in Callers, Answered(t) PROVE LinkSound'
      BY <1>0, <2>5, AnsweredLink
    <2> QED
      BY <1>1, <2>1, <2>2, <2>3, <2>4, <2>5 DEF Step
  <1>2. ASSUME NEW t \in Callers, Call(t) PROVE LinkSound'
    BY <1>0, <1>2, CallLink
  <1>3. CASE UNCHANGED vars
    <2>1. UNCHANGED <<evt, irq, isr, slot, shm, seq, bake, tx, rx, queue, recv, snd, server,
                      caller, reply, handled, added>>
      BY <1>3 DEF vars, link, tasks
    <2>2. LinkSound
      BY <1>0
    <2>3. TypeOK'
      BY <2>1 DEF TypeOK
    <2> QED
      BY <2>1, <2>2, <2>3 DEF LinkSound, Token, Handler, Blocks, Stored, Block, InFlight,
                  Putting, Mutex, Holding, Busy, Active, Got
  <1>4. ~(\E v \in Servers : AddService(v))
    BY <1>0
  <1>5. CASE Next
    BY <1>1, <1>2, <1>4, <1>5 DEF Next
  <1> QED
    BY <1>3, <1>5
-----------------------------------------------------------------------------
(* Types after a late registration too: a header that was put names a block *)
(* that has been filled, whoever has filled it since.                       *)
Filled ==
    /\ \A c \in Cores : slot[c] # None => shm[c][slot[c].blk] # None
    /\ \A c \in Cores : recv[c].pc = "copy" => shm[Peer(c)][recv[c].m.blk] # None
    /\ \A x \in Senders : snd[x].pc \in {"wait", "put"} => shm[CoreOf(x)][snd[x].blk] # None
    /\ \A v \in Servers : server[v].pc \in {"lock", "collect", "handle"} => server[v].got # <<>>

LEMMA FilledTypes == TypeOK /\ Filled /\ [Next]_vars => TypeOK'
  <1> SUFFICES ASSUME TypeOK, Filled, [Next]_vars PROVE TypeOK'
    OBVIOUS
  <1>1. ASSUME NEW c \in Cores, RecvCopy(c) PROVE TypeOK'
    <2>1. Peer(c) \in Cores /\ recv[c].m.blk \in 0 .. BLOCK_SIZE - 1
      BY <1>1, PeerFacts DEF TypeOK, RecvCopy, Receiving, Header
    <2>2. shm[Peer(c)][recv[c].m.blk] \in Fragment \cup {None}
      <3>1. shm \in [Cores -> [0 .. BLOCK_SIZE - 1 -> Fragment \cup {None}]]
        BY DEF TypeOK
      <3> HIDE DEF Fragment
      <3> QED
        BY <2>1, <3>1
    <2>3. shm[Peer(c)][recv[c].m.blk] # None
      BY <1>1 DEF RecvCopy, Filled
    <2> QED
      BY <1>1, <2>2, <2>3, RecvCopyTypes
  <1>2. ASSUME NEW v \in Servers, Serve(v) PROVE TypeOK'
    <2>1. CASE ServerProcess(v)
      BY <2>1, ServerProcessTypes DEF Filled, ServerProcess
    <2> QED
      BY <1>2, <2>1, ServerWaitTypes, ServerLockTypes, ServerCollectTypes, ServerAnswerTypes
      DEF Serve
  <1>3. ASSUME NEW c \in Cores, Step(c) PROVE TypeOK'
    <2>1. CASE Isr(c)
      BY <2>1, IsrTypes
    <2>2. CASE Recv(c)
      BY <1>1, <2>2, RecvWaitTypes, RecvGetTypes, RecvGiveTypes DEF Recv
    <2>3. ASSUME NEW x \in Senders, Send(x) PROVE TypeOK'
      BY <2>3, FillTypes, WaitWriteTypes, PutTypes DEF Send
    <2> QED
      BY <1>2, <1>3, <2>1, <2>2, <2>3, AnsweredTypes DEF Step
  <1>4. CASE UNCHANGED vars
    BY <1>4 DEF TypeOK, vars, link, tasks
  <1> QED
    BY <1>3, <1>4, CallTypes, AddServiceTypes DEF Next

\* A block is never emptied.
LEMMA NeverEmptied ==
    ASSUME TypeOK, [Next]_vars, NEW c \in Cores, NEW b \in 0 .. BLOCK_SIZE - 1,
           shm[c][b] # None
    PROVE  shm'[c][b] # None
  <1>1. ASSUME NEW x \in Senders, Fill(x) PROVE shm'[c][b] # None
    <2> DEFINE d == CoreOf(x)
               f == [msg |-> snd[x].msg, i |-> snd[x].i]
    <2>1. d \in Cores /\ Block(d) \in 0 .. BLOCK_SIZE - 1
      BY CoreOfType, BlocksApart DEF TypeOK, Block
    <2>2. f \in Fragment
      BY <1>1 DEF TypeOK, Fill, Idle, Sending, Fragment
    <2>3. shm' = [shm EXCEPT ![d][Block(d)] = f]
      BY <1>1 DEF Fill
    <2> HIDE DEF d, f
    <2> QED
      BY <2>1, <2>2, <2>3, NoneAssumption DEF TypeOK
  <1>2. CASE UNCHANGED shm
    BY <1>2
  <1> QED
    BY <1>1, <1>2 DEF Next, Step, Isr, IsrEnter, IsrExit, Send, WaitWrite, Put, Recv, RecvWait,
       RecvGet, RecvCopy, RecvGive, Serve, ServerWait, ServerLock, ServerCollect, ServerAnswer,
       ServerProcess, Call, Answered, AddService, vars, link

\* A sender that has a block has filled it.
LEMMA SenderFilled ==
    ASSUME TypeOK, Filled, [Next]_vars, NEW x \in Senders, snd'[x].pc \in {"wait", "put"}
    PROVE  shm'[CoreOf(x)][snd'[x].blk] # None
  <1>1. CoreOf(x) \in Cores
    BY CoreOfType
  <1>2. CASE snd'[x].blk = snd[x].blk /\ snd[x].pc \in {"wait", "put"}
    <2>1. snd[x].blk \in 0 .. BLOCK_SIZE - 1
      BY <1>2 DEF TypeOK, Idle, Sending
    <2> QED
      BY <1>1, <1>2, <2>1, NeverEmptied DEF Filled
  <1>3. CASE Fill(x)
    <2> DEFINE c == CoreOf(x)
               f == [msg |-> snd[x].msg, i |-> snd[x].i]
    <2>1. Block(c) \in 0 .. BLOCK_SIZE - 1
      BY <1>1, BlocksApart DEF TypeOK, Block
    <2>2. f \in Fragment
      BY <1>3 DEF TypeOK, Fill, Idle, Sending, Fragment
    <2>3. shm' = [shm EXCEPT ![c][Block(c)] = f] /\ snd'[x].blk = Block(c)
      BY <1>3 DEF TypeOK, Fill, Idle, Sending
    <2> HIDE DEF c, f
    <2>4. c \in Cores
      BY <1>1 DEF c
    <2> QED
      BY <2>1, <2>2, <2>3, <2>4, NoneAssumption DEF TypeOK, c
  <1>4. ASSUME NEW y \in Senders, Send(y), ~Fill(x)
        PROVE  snd'[x].blk = snd[x].blk /\ snd[x].pc \in {"wait", "put"}
    <2>1. CASE y # x
      <3>1. snd'[x] = snd[x]
        BY <1>4, <2>1 DEF TypeOK, Send, Fill, WaitWrite, Put
      <3> QED
        BY <3>1
    <2>2. CASE y = x /\ WaitWrite(x)
      BY <2>2 DEF TypeOK, WaitWrite, Idle, Sending
    <2>3. CASE y = x /\ Put(x)
      <3>1. snd[x] \in Sending
        BY <2>3 DEF TypeOK, Put, Idle
      <3>2. \/ snd' = [snd EXCEPT ![x] = [@ EXCEPT !.pc = "fill", !.i = snd[x].i + 1]]
            \/ snd' = [snd EXCEPT ![x] = Idle]
        BY <2>3 DEF Put
      <3>3. CASE snd' = [snd EXCEPT ![x] = Idle]
        BY <3>3 DEF TypeOK, Idle
      <3>4. CASE snd' = [snd EXCEPT ![x] = [@ EXCEPT !.pc = "fill", !.i = snd[x].i + 1]]
        BY <3>1, <3>4 DEF TypeOK, Sending
      <3> QED
        BY <3>2, <3>3, <3>4
    <2> QED
      BY <1>4, <2>1, <2>2, <2>3 DEF Send
  <1>5. ASSUME NEW m, NEW y \in Senders, snd' = [snd EXCEPT ![y] = Started(m)]
        PROVE  snd'[x] = snd[x]
    <2>1. snd'[y].pc = "fill"
      BY <1>5 DEF TypeOK, Started
    <2> QED
      BY <1>5, <2>1 DEF TypeOK
  <1>6. ASSUME NEW v \in Servers, ServerProcess(v) PROVE snd'[x] = snd[x]
    BY <1>5, <1>6 DEF ServerProcess, Senders
  <1>7. ASSUME NEW t \in Callers, Call(t) PROVE snd'[x] = snd[x]
    BY <1>5, <1>7 DEF Call, Senders
  <1>8. CASE UNCHANGED snd
    BY <1>2, <1>8
  <1> QED
    BY <1>2, <1>3, <1>4, <1>6, <1>7, <1>8 DEF Next, Step, Isr, IsrEnter, IsrExit, Recv, RecvWait,
       RecvGet, RecvCopy, RecvGive, Serve, ServerWait, ServerLock, ServerCollect, ServerAnswer,
       Answered, AddService, vars, tasks

\* What is put in a slot names a block that has been filled.
LEMMA SlotFilled ==
    ASSUME TypeOK, Filled, [Next]_vars, NEW c \in Cores, slot'[c] # None
    PROVE  shm'[c][slot'[c].blk] # None
  <1>1. CASE slot'[c] = slot[c]
    <2>1. slot[c].blk \in 0 .. BLOCK_SIZE - 1
      BY <1>1 DEF TypeOK, Header
    <2> QED
      BY <1>1, <2>1, NeverEmptied DEF Filled
  <1>2. ASSUME NEW x \in Senders, Put(x), slot'[c] # slot[c]
        PROVE  shm'[c][slot'[c].blk] # None
    <2>1. CoreOf(x) = c /\ slot'[c].blk = snd[x].blk /\ snd[x].pc = "put" /\ UNCHANGED shm
      BY <1>2 DEF TypeOK, Put, PutMessage
    <2> QED
      BY <2>1 DEF Filled
  <1>3. CASE UNCHANGED slot
    BY <1>1, <1>3
  <1> QED
    BY <1>1, <1>2, <1>3 DEF Next, Step, Isr, IsrEnter, IsrExit, Send, Fill, WaitWrite, Recv,
       RecvWait, RecvGet, RecvCopy, RecvGive, Serve, ServerWait, ServerLock, ServerCollect,
       ServerAnswer, ServerProcess, Call, Answered, AddService, vars, link

LEMMA RecvFilled ==
    ASSUME TypeOK, Filled, [Next]_vars, NEW c \in Cores, recv'[c].pc = "copy"
    PROVE  shm'[Peer(c)][recv'[c].m.blk] # None
  <1>1. Peer(c) \in Cores
    BY PeerFacts
  <1>2. CASE recv'[c] = recv[c]
    <2>1. recv[c].m.blk \in 0 .. BLOCK_SIZE - 1
      BY <1>2 DEF TypeOK, Receiving, Header
    <2> QED
      BY <1>1, <1>2, <2>1, NeverEmptied DEF Filled
  <1>3. ASSUME NEW d \in Cores, Recv(d), recv'[c] # recv[c]
        PROVE  shm'[Peer(c)][recv'[c].m.blk] # None
    <2>1. c = d
      BY <1>3 DEF TypeOK, Recv, RecvWait, RecvGet, RecvCopy, RecvGive
    <2>2. recv[c] \in Receiving
      BY DEF TypeOK
    <2>3. CASE RecvGet(c)
      <3>1. slot[Peer(c)] # None /\ recv'[c].m = slot[Peer(c)] /\ UNCHANGED shm
        BY <2>3 DEF TypeOK, RecvGet
      <3> QED
        BY <1>1, <3>1 DEF Filled
    <2>4. CASE RecvWait(c) \/ RecvCopy(c) \/ RecvGive(c)
      <3>1. recv'[c].pc \in {"get", "give", "wait"}
        BY <2>2, <2>4 DEF TypeOK, RecvWait, RecvCopy, RecvGive, Receiving
      <3> QED
        BY <3>1
    <2> QED
      BY <1>3, <2>1, <2>3, <2>4 DEF Recv
  <1>4. CASE UNCHANGED recv
    BY <1>2, <1>4
  <1> QED
    BY <1>2, <1>3, <1>4 DEF Next, Step, Isr, IsrEnter, IsrExit, Send, Fill, WaitWrite, Put,
       Serve, ServerWait, ServerLock, ServerCollect, ServerAnswer, ServerProcess, Call, Answered,
       AddService, vars, tasks

LEMMA ServerFilled ==
    ASSUME TypeOK, Filled, [Next]_vars, NEW v \in Servers,
           server'[v].pc \in {"lock", "collect", "handle"}
    PROVE  server'[v].got # <<>>
  <1>1. CASE server'[v] = server[v]
    BY <1>1 DEF Filled
  <1>2. ASSUME NEW w \in Servers, Serve(w), server'[v] # server[v] PROVE server'[v].got # <<>>
    <2>1. v = w
      BY <1>2 DEF TypeOK, Serve, ServerWait, ServerLock, ServerCollect, ServerAnswer, ServerProcess
    <2>2. server[v] \in Serving
      BY DEF TypeOK
    <2>3. CASE ServerWait(v)
      BY <2>3 DEF TypeOK, ServerWait
    <2>4. CASE ServerLock(v)
      BY <2>2, <2>4 DEF TypeOK, ServerLock, Serving, Filled
    <2>5. CASE ServerCollect(v)
      <3> DEFINE g == Append(server[v].got, Head(queue[v]))
      <3>1. server'[v].got = g
        BY <2>5 DEF TypeOK, ServerCollect
      <3>2. Head(queue[v]) \in Copied
        BY <2>5, TakeTypes DEF ServerCollect
      <3>3. g # <<>>
        BY <2>2, <3>2, AppendProperties DEF Serving
      <3> QED
        BY <3>1, <3>3
    <2>6. CASE ServerAnswer(v) \/ ServerProcess(v)
      <3>1. PICK q \in {"wait", "ack"} : server' = [server EXCEPT ![v] = [pc |-> q, got |-> <<>>]]
        BY <2>6 DEF ServerAnswer, ServerProcess
      <3>2. server'[v].pc = q
        BY <3>1 DEF TypeOK
      <3> QED
        BY <3>2
    <2> QED
      BY <1>2, <2>1, <2>3, <2>4, <2>5, <2>6 DEF Serve
  <1>3. ASSUME NEW x \in Senders, Put(x), server'[v] # server[v] PROVE FALSE
    <2>1. server' = [server EXCEPT ![x].pc = "wait"] /\ x \in Servers
      BY <1>3 DEF Put, Sent
    <2>2. server'[v].pc = "wait"
      BY <1>3, <2>1 DEF TypeOK, Serving
    <2> QED
      BY <2>2
  <1>4. CASE UNCHANGED server
    BY <1>1, <1>4
  <1> QED
    BY <1>1, <1>2, <1>3, <1>4 DEF Next, Step, Isr, IsrEnter, IsrExit, Send, Fill, WaitWrite, Recv,
       RecvWait, RecvGet, RecvCopy, RecvGive, Call, Answered, AddService, vars, tasks

LEMMA FilledNext == TypeOK /\ Filled /\ [Next]_vars => Filled'
  BY SenderFilled, SlotFilled, RecvFilled, ServerFilled DEF Filled

LEMMA TypesInit == Init => TypeOK /\ Filled
  <1> SUFFICES ASSUME Init PROVE TypeOK /\ Filled
    OBVIOUS
  <1>1. TypeOK
    BY LinkInit DEF LinkSound
  <1> QED
    BY <1>1 DEF Init, Filled, Idle
-----------------------------------------------------------------------------
\* The state keeps its types and no queue of a service overflows, for any
\* number of callers, services, messages and fragments, and whenever services
\* are added (ipc.c:295, ipc.c:635).
THEOREM IPCTypes == Spec => []TypeOK
  <1>1. TypeOK /\ Filled /\ [Next]_vars => TypeOK' /\ Filled'
    BY FilledTypes, FilledNext
  <1> QED
    BY <1>1, TypesInit, PTL DEF Spec

\* The invariant of the link until a service is added late: one holder of each
\* slot at any time, and the block that a header names is untouched until it has
\* been copied (ipc.c:62, blyoc_mbox.c:152).
THEOREM LinkHolds == Spec => []LinkInv
  <1>1. Init => LinkInv
    BY LinkInit DEF LinkInv
  <1> QED
    BY <1>1, LinkNext, IPCTypes, PTL DEF Spec

\* Acknowledging before copying is safe with three blocks or more, until a
\* service is added late: the block that the receive task copies still holds
\* what its header announced.
THEOREM BlocksKept == Spec => []BlockKept
  <1>1. ASSUME LinkInv PROVE BlockKept
    <2> SUFFICES ASSUME Settled, NEW c \in Cores, recv[c].pc = "copy"
                 PROVE  shm[Peer(c)][recv[c].m.blk] = [msg |-> recv[c].m.msg, i |-> recv[c].m.i]
      BY DEF BlockKept, Untouched
    <2>1. Peer(c) \in Cores /\ Peer(Peer(c)) = c
      BY PeerFacts
    <2>2. Blocks(Peer(c))
      BY <1>1, <2>1 DEF LinkInv, LinkSound
    <2>3. Stored(Peer(c), recv[c].m)
      BY <2>1, <2>2 DEF Blocks
    <2> QED
      BY <2>3 DEF Stored
  <1> QED
    BY <1>1, LinkHolds, PTL

\* Until a service is added late, the receive task never misses a header and
\* never reads one twice: the check of seq_bake in ipc_channel_recv always finds
\* the successor (ipc.c:65).  The read event of a late ipc_add_service (ipc.c:635)
\* ends that.
THEOREM HeadersNeverLost == Spec => NeverLost
  <1> DEFINE A == Settled' => \A c \in Cores : (recv[c].pc = "get" /\ recv'[c].pc # "get") =>
                                                   bake'[c] = bake[c] + 1
  <1>1. ASSUME TypeOK, LinkInv, [Next]_vars PROVE A
    <2> SUFFICES ASSUME Settled', NEW c \in Cores, recv[c].pc = "get", recv'[c].pc # "get"
                 PROVE  bake'[c] = bake[c] + 1
      OBVIOUS
    <2>1. LinkSound /\ \A v \in Servers : ~AddService(v)
      BY <1>1, StaysSettled DEF LinkInv
    <2>2. RecvGet(c)
      <3>1. ASSUME NEW d \in Cores, Recv(d) PROVE RecvGet(c)
        <4>1. d = c
          BY <1>1, <3>1 DEF TypeOK, Recv, RecvWait, RecvGet, RecvCopy, RecvGive
        <4> QED
          BY <3>1, <4>1 DEF Recv, RecvWait, RecvGet, RecvCopy, RecvGive
      <3>2. recv' # recv
        OBVIOUS
      <3>3. ASSUME NEW d \in Cores, Step(d) PROVE Recv(d)
        BY <3>2, <3>3 DEF Step, Isr, IsrEnter, IsrExit, Send, Fill, WaitWrite, Put, Serve,
           ServerWait, ServerLock, ServerCollect, ServerAnswer, ServerProcess, Answered, tasks
      <3>4. ~(\E t \in Callers : Call(t)) /\ ~UNCHANGED vars
        BY <3>2 DEF Call, vars, tasks
      <3> QED
        BY <1>1, <2>1, <3>1, <3>3, <3>4 DEF Next
    <2>3. slot[Peer(c)] \in Header /\ slot[Peer(c)].seq = bake[c] + 1
      BY <2>1, SlotRead
    <2>4. slot[Peer(c)] # None
      BY <2>3, NoneAssumption
    <2> QED
      BY <1>1, <2>2, <2>3, <2>4 DEF RecvGet, TypeOK
  <1>2. (TypeOK /\ LinkInv) /\ [Next]_vars => [A]_vars
    BY <1>1
  <1> QED
    BY <1>2, LinkHolds, IPCTypes, PTL DEF Spec, NeverLost
=============================================================================
