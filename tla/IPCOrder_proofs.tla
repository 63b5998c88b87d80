--------------------------- MODULE IPCOrder_proofs --------------------------
(***************************************************************************)
(* Messages arrive whole and in order: PipeSound of IPCInv is kept while   *)
(* fragments move from the senders to the services, when a service is done *)
(* with a message and when a call begins and ends, for every number of     *)
(* callers, services, messages and fragments.                              *)
(***************************************************************************)
EXTENDS IPC_proofs


(* Sequences that are moved from one place to the next. *)

LEMMA SingleSeq ==
    ASSUME NEW S, NEW e \in S
    PROVE  <<e>> \in Seq(S) /\ Len(<<e>>) = 1 /\ <<e>>[1] = e
  OBVIOUS

LEMMA HeadTail ==
    ASSUME NEW S, NEW q \in Seq(S), q # <<>>
    PROVE  q = <<Head(q)>> \o Tail(q) /\ Head(q) \in S /\ Tail(q) \in Seq(S)
  <1>1. /\ Head(q) \in S /\ Tail(q) \in Seq(S) /\ Len(Tail(q)) = Len(q) - 1
        /\ \A i \in 1 .. Len(Tail(q)) : Tail(q)[i] = q[i + 1]
        /\ Len(q) \in Nat \ {0} /\ Head(q) = q[1]
    BY HeadTailProperties, EmptySeq
  <1> DEFINE r == <<Head(q)>> \o Tail(q)
  <1>2. <<Head(q)>> \in Seq(S) /\ Len(<<Head(q)>>) = 1 /\ <<Head(q)>>[1] = Head(q)
    BY <1>1, SingleSeq
  <1>3. /\ r \in Seq(S) /\ Len(r) = 1 + Len(Tail(q))
        /\ \A i \in 1 .. 1 + Len(Tail(q)) : r[i] = IF i <= 1 THEN <<Head(q)>>[i] ELSE Tail(q)[i - 1]
    BY <1>1, <1>2, ConcatProperties
  <1> HIDE DEF r
  <1>4. Len(r) = Len(q) /\ \A i \in 1 .. Len(q) : r[i] = q[i]
    BY <1>1, <1>2, <1>3
  <1>5. r = q
    BY <1>3, <1>4, SeqEqual
  <1> QED
    BY <1>1, <1>5 DEF r

LEMMA MoveCollect ==
    ASSUME NEW S, NEW g \in Seq(S), NEW q \in Seq(S), q # <<>>
    PROVE  Append(g, Head(q)) \o Tail(q) = g \o q
  <1>1. q = <<Head(q)>> \o Tail(q) /\ Head(q) \in S /\ Tail(q) \in Seq(S)
    BY HeadTail
  <1>2. <<Head(q)>> \in Seq(S) /\ Append(g, Head(q)) = g \o <<Head(q)>>
    BY <1>1, SingleSeq, AppendIsConcat
  <1>3. (g \o <<Head(q)>>) \o Tail(q) = g \o (<<Head(q)>> \o Tail(q))
    BY <1>1, <1>2, ConcatAssociative
  <1> QED
    BY <1>1, <1>2, <1>3

LEMMA MoveWait ==
    ASSUME NEW S, NEW q \in Seq(S), q # <<>>
    PROVE  <<Head(q)>> \o Tail(q) = <<>> \o q
  BY HeadTail, ConcatEmptySeq
-----------------------------------------------------------------------------
(* What the pipe of a service is made of. *)

LEMMA ServerPair == \A v \in Servers : v[1] \in Cores /\ v[2] \in Service /\ v = <<v[1], v[2]>>
  BY DEF Servers

LEMMA PipeParts ==
    ASSUME LinkSound, NEW v \in Servers
    PROVE  /\ server[v].got \in Seq(Copied) /\ queue[v] \in Seq(Copied)
           /\ RecvPart(v) \in Seq(Copied) /\ SlotPart(v) \in Seq(Copied)
           /\ Pipe(v) \in Seq(Copied)
  <1>1. TypeOK /\ v[1] \in Cores /\ Peer(v[1]) \in Cores /\ <<>> \in Seq(Copied)
    BY ServerPair, PeerFacts, EmptySeq DEF LinkSound
  <1>2. server[v].got \in Seq(Copied) /\ queue[v] \in Seq(Copied)
    BY <1>1 DEF TypeOK, Serving
  <1>3. \A h \in Header : <<Carried(h)>> \in Seq(Copied)
    <2>1. \A h \in Header : Carried(h) \in Copied
      BY DEF Carried, Copied, Header, Fragment
    <2> QED
      BY <2>1, SingleSeq
  <1>4. RecvPart(v) \in Seq(Copied)
    <2>1. recv[v[1]] \in Receiving
      BY <1>1 DEF TypeOK
    <2>2. recv[v[1]].pc = "copy" => recv[v[1]].m \in Header
      BY <2>1 DEF Receiving
    <2>3. recv[v[1]].pc = "give" => [hd |-> recv[v[1]].m.hd, data |-> recv[v[1]].m.data] \in Copied
      BY <2>1 DEF Receiving, Copied
    <2>4. recv[v[1]].pc = "give" => <<[hd |-> recv[v[1]].m.hd, data |-> recv[v[1]].m.data]>> \in Seq(Copied)
      BY <2>3, SingleSeq
    <2> QED
      BY <1>1, <1>3, <2>2, <2>4 DEF RecvPart
  <1>5. SlotPart(v) \in Seq(Copied)
    <2>1. InFlight(Peer(v[1])) => slot[Peer(v[1])] \in Header
      BY <1>1 DEF LinkSound, Blocks
    <2> QED
      BY <1>1, <1>3, <2>1 DEF SlotPart
  <1>6. server[v].got \o queue[v] \in Seq(Copied) /\ RecvPart(v) \o SlotPart(v) \in Seq(Copied)
    BY <1>2, <1>4, <1>5, ConcatProperties
  <1> QED
    BY <1>2, <1>4, <1>5, <1>6, ConcatProperties DEF Pipe

\* Steps that leave the fragments where they are.
LEMMA PipeStays ==
    ASSUME NEW v \in Servers, server'[v].got = server[v].got, queue' = queue,
           UNCHANGED <<slot, seq, bake>>,
           \A c \in Cores : \/ recv'[c] = recv[c]
                            \/ recv[c].pc \in {"wait", "get"} /\ recv'[c].pc \in {"wait", "get"}
    PROVE  Pipe(v)' = Pipe(v)
  <1>1. v[1] \in Cores
    BY ServerPair
  <1>2. SlotPart(v)' = SlotPart(v)
    BY DEF SlotPart, InFlight
  <1>3. RecvPart(v)' = RecvPart(v)
    BY <1>1 DEF RecvPart
  <1> QED
    BY <1>2, <1>3 DEF Pipe

\* The receive task takes the header out of the slot.
LEMMA RecvGetPipe ==
    ASSUME LinkSound, NEW c \in Cores, RecvGet(c), NEW v \in Servers
    PROVE  Pipe(v)' = Pipe(v)
  <1> DEFINE s == Peer(c)
  <1>1. TypeOK /\ s \in Cores /\ Peer(s) = c /\ s # c /\ (\A d \in Cores : d = c \/ d = s) /\ v[1] \in Cores
    BY PeerFacts, ServerPair DEF LinkSound
  <1>3. Token(s, "get") /\ slot[s] \in Header /\ slot[s].seq = bake[c] + 1
    BY SlotRead DEF RecvGet
  <1>2. /\ UNCHANGED <<slot, seq, server, queue>>
        /\ recv[c].pc = "get"
        /\ bake' = [bake EXCEPT ![c] = slot[s].seq]
        /\ recv' = [recv EXCEPT ![c] = [pc |-> "copy", m |-> slot[s]]]
    <2>1. slot[s] # None
      BY <1>3, NoneAssumption
    <2> QED
      BY <2>1 DEF RecvGet
  <1> HIDE DEF s
  <1>4. /\ recv'[c] = [pc |-> "copy", m |-> slot[s]] /\ recv'[s] = recv[s]
        /\ bake'[c] = bake[c] + 1 /\ bake'[s] = bake[s] /\ bake[c] \in Nat
    BY <1>1, <1>2, <1>3 DEF TypeOK
  <1>5. InFlight(s) /\ ~InFlight(s)'
    BY <1>1, <1>2, <1>3, <1>4 DEF Token, InFlight
  <1>6. CASE v[1] = c
    <2>1. RecvPart(v) = <<>> /\ SlotPart(v)' = <<>>
      BY <1>1, <1>2, <1>5, <1>6 DEF RecvPart, SlotPart, s
    <2>2. RecvPart(v)' = SlotPart(v)
      <3>1. Carried(slot[s])' = Carried(slot[s])
        BY <1>2 DEF Carried
      <3>2. RecvPart(v)' = IF slot[s].ser = v[2] THEN <<Carried(slot[s])>> ELSE <<>>
        BY <1>1, <1>2, <1>4, <1>6 DEF RecvPart, Carried
      <3>3. SlotPart(v) = IF slot[s].ser = v[2] THEN <<Carried(slot[s])>> ELSE <<>>
        BY <1>5, <1>6 DEF SlotPart, s
      <3> QED
        BY <3>2, <3>3
    <2>3. RecvPart(v) \o SlotPart(v) = (RecvPart(v) \o SlotPart(v))'
      BY <2>1, <2>2, PipeParts, ConcatEmptySeq
    <2> QED
      BY <1>2, <2>3 DEF Pipe
  <1>7. CASE v[1] = s
    <2>1. RecvPart(v)' = RecvPart(v)
      BY <1>4, <1>7 DEF RecvPart, Carried
    <2>2. SlotPart(v)' = SlotPart(v)
      BY <1>1, <1>2, <1>4, <1>7 DEF SlotPart, InFlight, Carried, s
    <2> QED
      BY <1>2, <2>1, <2>2 DEF Pipe
  <1> QED
    BY <1>1, <1>6, <1>7

\* The block holds what the header said.
LEMMA RecvCopyPipe ==
    ASSUME LinkSound, NEW c \in Cores, RecvCopy(c), NEW v \in Servers
    PROVE  Pipe(v)' = Pipe(v)
  <1> DEFINE m == recv[c].m
  <1>1. TypeOK /\ Peer(c) \in Cores /\ Peer(Peer(c)) = c /\ v[1] \in Cores
    BY PeerFacts, ServerPair DEF LinkSound
  <1>2. /\ recv[c].pc = "copy"
        /\ recv' = [recv EXCEPT ![c] = [pc |-> "give", m |-> [ser |-> m.ser, hd |-> m.msg,
                                                             data |-> shm[Peer(c)][m.blk]]]]
        /\ UNCHANGED <<slot, seq, bake, server, queue>>
    BY DEF RecvCopy, link
  <1>3. shm[Peer(c)][m.blk] = [msg |-> m.msg, i |-> m.i]
    <2>1. Blocks(Peer(c))
      BY <1>1 DEF LinkSound
    <2>2. Stored(Peer(c), m)
      BY <1>1, <1>2, <2>1 DEF Blocks
    <2> QED
      BY <2>2 DEF Stored
  <1>4. SlotPart(v)' = SlotPart(v)
    BY <1>2 DEF SlotPart, InFlight, Carried
  <1>5. RecvPart(v)' = RecvPart(v)
    <2>1. CASE v[1] = c
      <3>1. /\ recv'[c].pc = "give" /\ recv'[c].m.ser = m.ser /\ recv'[c].m.hd = m.msg
            /\ recv'[c].m.data = [msg |-> m.msg, i |-> m.i]
        BY <1>1, <1>2, <1>3 DEF TypeOK
      <3> QED
        BY <1>2, <2>1, <3>1 DEF RecvPart, Carried
    <2>2. CASE v[1] # c
      <3>1. recv'[v[1]] = recv[v[1]]
        BY <1>1, <1>2, <2>2 DEF TypeOK
      <3> QED
        BY <3>1 DEF RecvPart, Carried
    <2> QED
      BY <2>1, <2>2
  <1> QED
    BY <1>2, <1>4, <1>5 DEF Pipe

\* What the receive task hands over in a settled state is for a service that
\* is there.
LEMMA GiveKnown ==
    ASSUME LinkSound, PipeSound, Settled, NEW c \in Cores, RecvGive(c)
    PROVE  <<c, recv[c].m.ser>> \in added
  <1> DEFINE m == recv[c].m
             f == [hd |-> m.hd, data |-> m.data]
             w == <<c, m.ser>>
             g == server[w].got \o queue[w]
             z == SlotPart(w)
  <1>1. recv[c].pc = "give" /\ m \in [ser : Service, hd : Msg, data : Fragment]
    BY DEF LinkSound, TypeOK, RecvGive, Receiving
  <1>2. w \in Servers /\ f \in Copied /\ w[1] = c /\ w[2] = m.ser
    BY <1>1 DEF Servers, Copied
  <1>3. RecvPart(w) = <<f>>
    BY <1>1, <1>2 DEF RecvPart
  <1>4. /\ server[w].got \in Seq(Copied) /\ queue[w] \in Seq(Copied) /\ z \in Seq(Copied)
    BY <1>2, PipeParts
  <1>5. Pipe(w) = g \o (<<f>> \o z)
    BY <1>3 DEF Pipe
  <1>6. f.hd = m.hd
    OBVIOUS
  <1>7. g \in Seq(Copied) /\ <<f>> \in Seq(Copied) /\ Len(<<f>>) = 1 /\ <<f>>[1] = f
    BY <1>2, <1>4, SingleSeq, ConcatProperties
  <1> HIDE DEF f, w, g, z, m
  <1>8. /\ <<f>> \o z \in Seq(Copied) /\ Len(<<f>> \o z) = 1 + Len(z) /\ Len(z) \in Nat
        /\ (<<f>> \o z)[1] = f
    BY <1>4, <1>7, ConcatProperties, LenProperties
  <1>9. Len(g) \in Nat /\ Len(Pipe(w)) = Len(g) + (1 + Len(z)) /\ Pipe(w)[Len(g) + 1] = f
    BY <1>5, <1>7, <1>8, ConcatProperties, LenProperties
  <1>10. Routed(w, Pipe(w))
    BY <1>2 DEF PipeSound
  <1>11. Dest(m.hd) = w
    BY <1>6, <1>8, <1>9, <1>10 DEF Routed
  <1>12. w[2] = Job[m.hd.t].ser /\ m.hd.t \in Callers
    <2>1. m.hd \in Msg
      BY <1>1
    <2> QED
      BY <2>1, <1>11 DEF Dest, Msg
  <1>13. w \notin Late
    BY <1>2, <1>12 DEF Settled, w
  <1> QED
    BY <1>2, <1>13 DEF Settled, w, m

LEMMA RecvGivePipe ==
    ASSUME LinkSound, PipeSound, Settled, NEW c \in Cores, RecvGive(c), NEW v \in Servers
    PROVE  Pipe(v)' = Pipe(v)
  <1> DEFINE m == recv[c].m
             f == [hd |-> m.hd, data |-> m.data]
             w == <<c, m.ser>>
  <1>1. TypeOK /\ v[1] \in Cores /\ v = <<v[1], v[2]>>
    BY ServerPair DEF LinkSound
  <1>2. /\ recv[c].pc = "give" /\ recv' = [recv EXCEPT ![c] = [pc |-> "wait", m |-> None]]
        /\ queue' = [queue EXCEPT ![w] = Append(@, f)]
        /\ UNCHANGED <<slot, seq, bake, server>>
    BY GiveKnown DEF RecvGive, link
  <1>3. f \in Copied
    BY <1>1, <1>2 DEF TypeOK, Receiving, Copied
  <1>4. SlotPart(v)' = SlotPart(v)
    BY <1>2 DEF SlotPart, InFlight, Carried
  <1>5. CASE v = w
    <2>1. v[1] = c /\ v[2] = m.ser
      BY <1>5
    <2>2. RecvPart(v)' = <<>> /\ RecvPart(v) = <<f>>
      <3>1. recv'[c].pc = "wait"
        BY <1>1, <1>2, <2>1 DEF TypeOK
      <3> QED
        BY <1>2, <2>1, <3>1 DEF RecvPart
    <2>3. queue'[v] = Append(queue[v], f)
      BY <1>1, <1>2, <1>5 DEF TypeOK
    <2> HIDE DEF f
    <2>4. server[v].got \in Seq(Copied) /\ queue[v] \in Seq(Copied) /\ SlotPart(v) \in Seq(Copied)
      BY PipeParts
    <2>5. (server[v].got \o Append(queue[v], f)) \o SlotPart(v)
            = (server[v].got \o queue[v]) \o (<<f>> \o SlotPart(v))
      <3> DEFINE g == server[v].got
                 q == queue[v]
                 z == SlotPart(v)
      <3>1. g \in Seq(Copied) /\ q \in Seq(Copied) /\ z \in Seq(Copied) /\ <<f>> \in Seq(Copied)
        BY <1>3, <2>4, SingleSeq
      <3> HIDE DEF g, q, z
      <3>2. Append(q, f) = q \o <<f>>
        BY <1>3, <3>1, AppendIsConcat
      <3>3. g \o (q \o <<f>>) = (g \o q) \o <<f>> /\ g \o q \in Seq(Copied)
        BY <3>1, ConcatAssociative, ConcatProperties
      <3>4. ((g \o q) \o <<f>>) \o z = (g \o q) \o (<<f>> \o z)
        BY <3>1, <3>3, ConcatAssociative
      <3>5. (g \o Append(q, f)) \o z = (g \o q) \o (<<f>> \o z)
        BY <3>2, <3>3, <3>4
      <3> QED
        BY <3>5 DEF g, q, z
    <2>6. <<>> \o SlotPart(v) = SlotPart(v)
      BY <2>4, ConcatEmptySeq
    <2> QED
      BY <1>2, <1>4, <2>2, <2>3, <2>5, <2>6 DEF Pipe
  <1>6. CASE v # w
    <2>1. queue'[v] = queue[v]
      BY <1>1, <1>2, <1>6 DEF TypeOK
    <2>2. RecvPart(v)' = RecvPart(v)
      <3>1. CASE v[1] = c
        <4>1. v[2] # m.ser /\ recv'[c].pc = "wait"
          BY <1>1, <1>2, <1>6, <3>1 DEF TypeOK
        <4> QED
          BY <3>1, <4>1 DEF RecvPart
      <3>2. CASE v[1] # c
        <4>1. recv'[v[1]] = recv[v[1]]
          BY <1>1, <1>2, <3>2 DEF TypeOK
        <4> QED
          BY <4>1 DEF RecvPart, Carried
      <3> QED
        BY <3>1, <3>2
    <2> QED
      BY <1>2, <1>4, <2>1, <2>2 DEF Pipe
  <1> QED
    BY <1>5, <1>6

LEMMA ServerTakes ==
    ASSUME LinkSound, NEW v \in Servers, ServerWait(v) \/ ServerCollect(v), NEW w \in Servers
    PROVE  Pipe(w)' = Pipe(w)
  <1>1. TypeOK /\ Got(v)
    BY DEF LinkSound
  <1>2. UNCHANGED <<slot, seq, bake, recv>>
    BY DEF ServerWait, ServerCollect, link
  <1>3. SlotPart(w)' = SlotPart(w) /\ RecvPart(w)' = RecvPart(w)
    BY <1>2 DEF SlotPart, InFlight, RecvPart, Carried
  <1>4. (server[w].got \o queue[w])' = server[w].got \o queue[w]
    <2>1. CASE w # v
      <3>1. server'[w] = server[w] /\ queue'[w] = queue[w]
        BY <1>1, <2>1 DEF TypeOK, ServerWait, ServerCollect
      <3> QED
        BY <3>1
    <2>2. CASE w = v /\ ServerWait(v)
      <3>1. /\ server[v].got = <<>> /\ queue[v] # <<>> /\ queue'[v] = Tail(queue[v])
            /\ server'[v].got = <<Head(queue[v])>>
        BY <1>1, <2>2 DEF TypeOK, ServerWait, Got
      <3> QED
        BY <2>2, <3>1, PipeParts, MoveWait
    <2>3. CASE w = v /\ ServerCollect(v)
      <3>1. /\ queue[v] # <<>> /\ queue'[v] = Tail(queue[v])
            /\ server'[v].got = Append(server[v].got, Head(queue[v]))
        BY <1>1, <2>3 DEF TypeOK, ServerCollect
      <3> QED
        BY <2>3, <3>1, PipeParts, MoveCollect
    <2> QED
      BY <2>1, <2>2, <2>3
  <1> QED
    BY <1>3, <1>4 DEF Pipe
-----------------------------------------------------------------------------
(* Steps that move no fragment into the pipe or out of it. *)

LEMMA DestType == \A m \in Msg : Dest(m) \in Servers
  BY JobType, PeerFacts DEF Msg, Dest, Servers

LEMMA HomeType == \A t \in Callers : Home(t) \in Servers /\ Home(t)[1] = Peer(Job[t].core)
  BY JobType, PeerFacts DEF Home, Servers

LEMMA ActiveType ==
    ASSUME LinkSound, NEW x \in Senders, Active(x)
    PROVE  snd[x] \in Sending /\ snd[x].msg \in Msg /\ snd[x].i \in Nat \ {0}
  <1>1. snd[x] \in {Idle} \cup Sending
    BY DEF LinkSound, TypeOK
  <1> QED
    BY <1>1 DEF Active, Idle, Sending

LEMMA PipeFrame ==
    ASSUME LinkSound, PipeSound, \A v \in Servers : Pipe(v)' = Pipe(v),
           \A x \in Senders : /\ Active(x)' <=> Active(x)
                              /\ snd'[x].msg = snd[x].msg /\ snd'[x].i = snd[x].i,
           UNCHANGED <<caller, handled, reply>>,
           \A v \in Servers : Collecting(v)'
    PROVE  PipeSound'
  <1>1. ASSUME NEW v \in Servers
        PROVE  (/\ Routed(v, Pipe(v)) /\ Chained(Pipe(v)) /\ Ordered(Pipe(v))
                /\ Unfinished(Pipe(v))
                /\ \A k \in 1 .. Len(Pipe(v)) : Pipe(v)[k].hd.ack => Answering(Pipe(v)[k].hd)
                /\ Acking(v))'
    <2> DEFINE P == Pipe(v)
    <2>1. P' = P
      OBVIOUS
    <2>2. /\ Routed(v, P) /\ Chained(P) /\ Ordered(P) /\ Unfinished(P) /\ Acking(v)
          /\ \A k \in 1 .. Len(P) : P[k].hd.ack => Answering(P[k].hd)
      BY DEF PipeSound
    <2>3. v \in Senders
      BY DEF Senders
    <2> HIDE DEF P
    <2>4. (Routed(v, P) /\ Chained(P) /\ Ordered(P))'
      BY <2>1, <2>2 DEF Routed, Chained, Ordered
    <2>5. Unfinished(P)'
      BY <2>1, <2>2 DEF Unfinished
    <2>6. (\A k \in 1 .. Len(P) : P[k].hd.ack => Answering(P[k].hd))'
      BY <2>1, <2>2 DEF Answering
    <2>7. Acking(v)'
      BY <2>2, <2>3 DEF Acking, Answering
    <2> QED
      BY <2>4, <2>5, <2>6, <2>7 DEF P
  <1>2. ASSUME NEW x \in Senders, Active(x)' PROVE Partly(x)'
    <2>1. Active(x) /\ Partly(x) /\ snd'[x].msg = snd[x].msg /\ snd'[x].i = snd[x].i
      BY <1>2 DEF PipeSound
    <2>2. Dest(snd[x].msg) \in Servers
      BY <2>1, ActiveType, DestType
    <2>3. Pipe(Dest(snd[x].msg))' = Pipe(Dest(snd[x].msg))
      BY <2>1, <2>2
    <2> QED
      BY <2>1, <2>3 DEF Partly
  <1>3. ASSUME NEW t \in Callers PROVE (Numbered(t) /\ InCall(t) /\ Replied(t))'
    <2>1. Numbered(t) /\ InCall(t) /\ Replied(t) /\ t \in Senders
      BY DEF PipeSound, Senders
    <2>2. Begun(t)' = Begun(t)
      BY <2>1 DEF Begun
    <2>3. Pipe(Home(t))' = Pipe(Home(t))
      BY HomeType
    <2>4. Numbered(t)'
      BY <2>1, <2>2, <2>3 DEF Numbered
    <2>5. InCall(t)'
      BY <2>1 DEF InCall
    <2>6. Replied(t)'
      BY <2>1 DEF Replied, Senders
    <2> QED
      BY <2>4, <2>5, <2>6
  <1>4. OnceEach'
    BY DEF PipeSound, OnceEach, Whole
  <1> QED
    BY <1>1, <1>2, <1>3, <1>4 DEF PipeSound

\* The front of the pipe.
LEMMA PipeFront ==
    ASSUME LinkSound, NEW v \in Servers
    PROVE  LET g == server[v].got
               q == queue[v]
               P == Pipe(v)
           IN  /\ Len(g) \in Nat /\ Len(P) \in Nat /\ Len(g) <= Len(P)
               /\ \A k \in 1 .. Len(g) : P[k] = g[k]
               /\ q # <<>> => Len(g) + 1 <= Len(P) /\ P[Len(g) + 1] = Head(q)
  <1> DEFINE g == server[v].got
             q == queue[v]
             z == RecvPart(v) \o SlotPart(v)
             P == Pipe(v)
  <1>1. g \in Seq(Copied) /\ q \in Seq(Copied) /\ z \in Seq(Copied) /\ P = (g \o q) \o z
    BY PipeParts, ConcatProperties DEF Pipe
  <1> HIDE DEF g, q, z, P
  <1>2. Len(g) \in Nat /\ Len(q) \in Nat /\ Len(z) \in Nat
    BY <1>1, LenProperties
  <1>3. /\ g \o q \in Seq(Copied) /\ Len(g \o q) = Len(g) + Len(q)
        /\ \A k \in 1 .. Len(g) + Len(q) : (g \o q)[k] = IF k <= Len(g) THEN g[k] ELSE q[k - Len(g)]
    BY <1>1, ConcatProperties
  <1>4. /\ Len(P) = (Len(g) + Len(q)) + Len(z)
        /\ \A k \in 1 .. Len(P) : k <= Len(g) + Len(q) => P[k] = (g \o q)[k]
    BY <1>1, <1>2, <1>3, ConcatProperties
  <1>5. q # <<>> => Len(q) \in Nat \ {0} /\ Head(q) = q[1]
    BY <1>1, EmptySeq
  <1>6. Len(P) \in Nat /\ Len(g) <= Len(P) /\ \A k \in 1 .. Len(g) : P[k] = g[k]
    BY <1>2, <1>3, <1>4
  <1>7. ASSUME q # <<>> PROVE Len(g) + 1 <= Len(P) /\ P[Len(g) + 1] = Head(q)
    <2>1. Len(g) + 1 \in 1 .. Len(P) /\ Len(g) + 1 <= Len(g) + Len(q) /\ (Len(g) + 1) - Len(g) = 1
      BY <1>2, <1>4, <1>5, <1>7
    <2>2. P[Len(g) + 1] = (g \o q)[Len(g) + 1]
      BY <1>4, <2>1
    <2>3. (g \o q)[Len(g) + 1] = q[1]
      BY <1>2, <1>3, <2>1
    <2> QED
      BY <1>5, <1>7, <2>1, <2>2, <2>3
  <1> QED
    BY <1>2, <1>6, <1>7 DEF g, q, P

\* A fragment is known by its header and its index.
LEMMA FragmentIs ==
    ASSUME NEW f \in Copied, NEW m, NEW i, f.hd = f.data.msg, f.hd = m, f.data.i = i
    PROVE  f = [hd |-> m, data |-> [msg |-> m, i |-> i]]
  <1>1. f.data = [msg |-> m, i |-> i]
    BY DEF Copied, Fragment
  <1> QED
    BY <1>1 DEF Copied

LEMMA ServerWaitCollecting ==
    ASSUME LinkSound, PipeSound, NEW v \in Servers, ServerWait(v)
    PROVE  \A w \in Servers : Collecting(w)'
  <1> DEFINE f == Head(queue[v])
  <1>1. TypeOK /\ Got(v)
    BY DEF LinkSound
  <1>2. /\ queue[v] # <<>> /\ server[v].got = <<>>
        /\ server'[v] = [pc |-> "lock", got |-> <<f>>]
        /\ \A w \in Servers : w # v => server'[w] = server[w]
    BY <1>1 DEF TypeOK, ServerWait, Got
  <1>3. /\ Len(Pipe(v)) \in Nat /\ 1 <= Len(Pipe(v)) /\ Pipe(v)[1] = f
    BY <1>2, PipeFront, EmptySeq
  <1>4. f \in Copied
    BY <1>1, <1>2, TakeTypes
  <1>5. f.hd = f.data.msg /\ f.data.i = 1
    <2>1. Routed(v, Pipe(v)) /\ Chained(Pipe(v))
      BY DEF PipeSound
    <2>2. Pipe(v) # <<>> /\ 1 \in 1 .. Len(Pipe(v))
      BY <1>3, EmptySeq
    <2> QED
      BY <1>3, <2>1, <2>2 DEF Routed, Chained
  <1>6. f = [hd |-> f.hd, data |-> [msg |-> f.hd, i |-> 1]]
    BY <1>4, <1>5, FragmentIs
  <1> HIDE DEF f
  <1>7. /\ server'[v].pc = "lock" /\ server'[v].got = <<f>>
        /\ Len(<<f>>) = 1 /\ <<f>>[1] = f
    BY <1>2, <1>4, SingleSeq
  <1>8. Collecting(v)'
    <2>1. Pieces(<<f>>)
      BY <1>6, <1>7 DEF Pieces
    <2> QED
      BY <1>7, <2>1 DEF Collecting, Pieces
  <1> QED
    BY <1>2, <1>8 DEF PipeSound, Collecting, Pieces

LEMMA ServerLockCollecting ==
    ASSUME LinkSound, PipeSound, NEW v \in Servers, ServerLock(v)
    PROVE  \A w \in Servers : Collecting(w)'
  <1> DEFINE g == server[v].got
  <1>1. TypeOK /\ Collecting(v) /\ server[v] \in Serving
    BY DEF LinkSound, PipeSound, TypeOK
  <1>2. Len(g) = 1 /\ Pieces(g)
    BY <1>1 DEF Collecting, ServerLock
  <1>3. g[1] = [hd |-> g[1].hd, data |-> [msg |-> g[1].hd, i |-> 1]]
    BY <1>2 DEF Pieces
  <1>4. g[1].data.i = 1 /\ g[1].data.msg = g[1].hd
    BY <1>3
  <1>5. Fragments(g[1].hd) \in Nat \ {0}
    <2>1. g[1] \in Copied
      BY <1>1, <1>2, ElementOfSeq DEF Serving
    <2> QED
      BY <2>1, FragmentsType DEF Copied
  <1>6. /\ server'[v].got = g
        /\ server'[v].pc = IF Fragments(g[1].hd) = 1 THEN "handle" ELSE "collect"
        /\ \A w \in Servers : w # v => server'[w] = server[w]
    BY <1>1, <1>4 DEF TypeOK, ServerLock, Serving, Total
  <1> HIDE DEF g
  <1>7. Collecting(v)'
    <2>1. Pieces(server[v].got)'
      BY <1>2, <1>6 DEF Pieces
    <2>2. /\ server'[v].pc \notin {"undefined", "lock"}
          /\ server'[v].pc = "collect" => Len(server'[v].got) < Fragments(server'[v].got[1].hd)
          /\ server'[v].pc = "handle" => Len(server'[v].got) = Fragments(server'[v].got[1].hd)
      <3> DEFINE F == Fragments(g[1].hd)
      <3>1. F \in Nat \ {0} /\ server'[v].pc = IF F = 1 THEN "handle" ELSE "collect"
        BY <1>5, <1>6
      <3> HIDE DEF F
      <3>2. CASE F = 1
        BY <1>2, <1>6, <3>1, <3>2 DEF F
      <3>3. CASE F # 1
        <4>1. 1 < F /\ server'[v].pc = "collect"
          BY <3>1, <3>3
        <4> QED
          BY <1>2, <1>6, <4>1 DEF F
      <3> QED
        BY <3>2, <3>3
    <2>3. \A m : Fragments(m)' = Fragments(m)
      BY DEF Fragments
    <2> QED
      BY <2>1, <2>2, <2>3 DEF Collecting
  <1> QED
    BY <1>6, <1>7 DEF PipeSound, Collecting, Pieces

LEMMA ServerCollectCollecting ==
    ASSUME LinkSound, PipeSound, NEW v \in Servers, ServerCollect(v)
    PROVE  \A w \in Servers : Collecting(w)'
  <1> DEFINE g == server[v].got
             f == Head(queue[v])
             a == Append(g, f)
             m == g[1].hd
             L == Len(g)
  <1>1. TypeOK /\ Collecting(v) /\ Got(v) /\ g \in Seq(Copied) /\ server[v] \in Serving
    BY PipeParts DEF LinkSound, PipeSound, TypeOK
  <1>2. queue[v] # <<>> /\ server[v].pc = "collect"
    BY DEF ServerCollect
  <1>3. g # <<>> /\ L \in Nat \ {0} /\ L < Fragments(m) /\ Pieces(g)
    BY <1>1, <1>2, EmptySeq DEF Got, Collecting
  <1>4. g[1] \in Copied /\ m \in Msg /\ Fragments(m) \in Nat \ {0}
    <2>1. g[1] \in Copied
      BY <1>1, <1>3, ElementOfSeq
    <2> QED
      BY <2>1, FragmentsType DEF Copied
  <1>5. f \in Copied
    BY <1>1, <1>2, TakeTypes
  <1>6. /\ Len(Pipe(v)) \in Nat /\ L + 1 <= Len(Pipe(v)) /\ Pipe(v)[L + 1] = f /\ Pipe(v)[L] = g[L]
    BY <1>2, <1>3, PipeFront
  <1>7. f = [hd |-> m, data |-> [msg |-> m, i |-> L + 1]]
    <2>1. Routed(v, Pipe(v)) /\ Chained(Pipe(v))
      BY DEF PipeSound
    <2>2. Follows(g[L].data, f.data)
      <3>1. L \in 1 .. Len(Pipe(v)) - 1
        BY <1>3, <1>6
      <3>2. Follows(Pipe(v)[L].data, Pipe(v)[L + 1].data)
        BY <2>1, <3>1 DEF Chained
      <3> QED
        BY <1>6, <3>2
    <2>3. g[L] = [hd |-> m, data |-> [msg |-> m, i |-> L]]
      BY <1>3 DEF Pieces
    <2>4. g[L].data.i = L /\ g[L].data.msg = m
      BY <2>3
    <2> HIDE DEF L, m
    <2>5. f.data = [msg |-> m, i |-> L + 1]
      BY <1>3, <2>2, <2>4 DEF Follows
    <2>6. f.hd = f.data.msg
      BY <1>3, <1>6, <2>1 DEF Routed
    <2> QED
      BY <1>5, <2>5, <2>6 DEF Copied
  <1>8. /\ a \in Seq(Copied) /\ Len(a) = L + 1 /\ a[L + 1] = f
        /\ \A k \in 1 .. L : a[k] = g[k]
    BY <1>1, <1>5, AppendProperties
  <1>9. a[1] = g[1] /\ g[1].data.msg = m
    <2>1. g[1] = [hd |-> m, data |-> [msg |-> m, i |-> 1]]
      BY <1>3 DEF Pieces
    <2>2. g[1].data.msg = m
      BY <2>1
    <2> QED
      BY <1>3, <1>8, <2>2
  <1>10. Pieces(a)
    <2>1. ASSUME NEW k \in 1 .. Len(a) PROVE a[k] = [hd |-> m, data |-> [msg |-> m, i |-> k]]
      <3>1. CASE k = L + 1
        BY <1>7, <1>8, <3>1
      <3>2. CASE k # L + 1
        <4>1. k \in 1 .. L
          BY <1>3, <1>8, <3>2
        <4> QED
          BY <1>3, <1>8, <4>1 DEF Pieces
      <3> QED
        BY <3>1, <3>2
    <2> QED
      BY <1>9, <2>1 DEF Pieces
  <1>11. /\ server'[v].got = a
         /\ server'[v].pc = IF L + 1 = Fragments(m) THEN "handle" ELSE "collect"
         /\ \A w \in Servers : w # v => server'[w] = server[w]
    <2>1. server' = [server EXCEPT ![v] = [pc |-> IF Len(a) = Total(a) THEN "handle" ELSE "collect",
                                           got |-> a]]
      BY DEF ServerCollect
    <2>2. Total(a) = Fragments(m)
      BY <1>9 DEF Total
    <2> QED
      BY <1>1, <1>8, <2>1, <2>2 DEF TypeOK
  <1> HIDE DEF a, L, m, g
  <1>12. Collecting(v)'
    <2>1. a[1].hd = m
      BY <1>9 DEF m
    <2> QED
      BY <1>3, <1>4, <1>8, <1>10, <1>11, <2>1 DEF Collecting, Pieces
  <1> QED
    BY <1>11, <1>12 DEF PipeSound, Collecting, Pieces

\* Interrupts, the receive task and the services while they collect.
LEMMA QuietSteps ==
    ASSUME LinkSound, PipeSound, Settled,
           \/ \E c \in Cores : Isr(c) \/ Recv(c)
           \/ \E x \in Senders : Fill(x) \/ WaitWrite(x)
           \/ \E v \in Servers : ServerWait(v) \/ ServerLock(v) \/ ServerCollect(v)
    PROVE  PipeSound'
  <1>1. TypeOK
    BY DEF LinkSound
  <1>2. ASSUME UNCHANGED server PROVE \A w \in Servers : Collecting(w)'
    BY <1>2 DEF PipeSound, Collecting, Pieces
  <1>3. ASSUME UNCHANGED snd PROVE \A x \in Senders : /\ Active(x)' <=> Active(x)
                                                      /\ snd'[x].msg = snd[x].msg /\ snd'[x].i = snd[x].i
    BY <1>3 DEF Active
  <1>4. ASSUME NEW c \in Cores, Isr(c) PROVE PipeSound'
    <2>1. UNCHANGED <<slot, seq, bake, queue, recv, snd, server, caller, reply, handled>>
      BY <1>4 DEF Isr, IsrEnter, IsrExit, tasks
    <2>2. \A v \in Servers : Pipe(v)' = Pipe(v)
      BY <2>1, PipeStays
    <2> QED
      BY <1>2, <1>3, <2>1, <2>2, PipeFrame
  <1>5. ASSUME NEW c \in Cores, Recv(c) PROVE PipeSound'
    <2>1. UNCHANGED <<snd, server, caller, reply, handled>>
      BY <1>5 DEF Recv, RecvWait, RecvGet, RecvCopy, RecvGive
    <2>2. ASSUME RecvWait(c) PROVE \A v \in Servers : Pipe(v)' = Pipe(v)
      <3>1. UNCHANGED <<slot, seq, bake, queue, server>>
        BY <2>2 DEF RecvWait
      <3>2. \A d \in Cores : \/ recv'[d] = recv[d]
                             \/ recv[d].pc \in {"wait", "get"} /\ recv'[d].pc \in {"wait", "get"}
        BY <1>1, <2>2 DEF RecvWait, TypeOK, Receiving
      <3> QED
        BY <3>1, <3>2, PipeStays
    <2>3. \A v \in Servers : Pipe(v)' = Pipe(v)
      BY <1>5, <2>2, RecvGetPipe, RecvCopyPipe, RecvGivePipe DEF Recv
    <2> QED
      BY <1>2, <1>3, <2>1, <2>3, PipeFrame
  <1>6. ASSUME NEW x \in Senders, Fill(x) \/ WaitWrite(x) PROVE PipeSound'
    <2>1. UNCHANGED <<slot, seq, bake, queue, recv, server, caller, reply, handled>>
      BY <1>6 DEF Fill, WaitWrite
    <2>2. \A v \in Servers : Pipe(v)' = Pipe(v)
      BY <2>1, PipeStays
    <2>3. Active(x) /\ snd[x] \in Sending
      BY <1>6, ActiveType DEF Fill, WaitWrite, Active
    <2>4. /\ snd'[x].pc # "off" /\ snd'[x].msg = snd[x].msg /\ snd'[x].i = snd[x].i
          /\ \A y \in Senders : y # x => snd'[y] = snd[y]
      <3>1. CASE Fill(x)
        BY <1>1, <2>3, <3>1 DEF TypeOK, Fill, Sending
      <3>2. CASE WaitWrite(x)
        BY <1>1, <2>3, <3>2 DEF TypeOK, WaitWrite, Sending
      <3> QED
        BY <1>6, <3>1, <3>2
    <2>5. \A y \in Senders : /\ Active(y)' <=> Active(y)
                             /\ snd'[y].msg = snd[y].msg /\ snd'[y].i = snd[y].i
      BY <2>3, <2>4 DEF Active
    <2> QED
      BY <1>2, <2>1, <2>2, <2>5, PipeFrame
  <1>7. ASSUME NEW v \in Servers, ServerWait(v) \/ ServerLock(v) \/ ServerCollect(v) PROVE PipeSound'
    <2>1. UNCHANGED <<snd, caller, reply, handled>>
      BY <1>7 DEF ServerWait, ServerLock, ServerCollect
    <2>2. ASSUME ServerLock(v) PROVE \A w \in Servers : Pipe(w)' = Pipe(w)
      <3>1. UNCHANGED <<slot, seq, bake, queue, recv>>
        BY <2>2 DEF ServerLock, link
      <3>2. \A w \in Servers : server'[w].got = server[w].got
        BY <1>1, <2>2 DEF TypeOK, ServerLock, Serving
      <3> QED
        BY <3>1, <3>2, PipeStays
    <2>3. \A w \in Servers : Pipe(w)' = Pipe(w)
      BY <1>7, <2>2, ServerTakes
    <2>4. \A w \in Servers : Collecting(w)'
      BY <1>7, ServerWaitCollecting, ServerLockCollecting, ServerCollectCollecting
    <2> QED
      BY <1>3, <2>1, <2>3, <2>4, PipeFrame
  <1> QED
    BY <1>4, <1>5, <1>6, <1>7
-----------------------------------------------------------------------------
(* A fragment is put. *)

Piece(m, i) == [hd |-> m, data |-> [msg |-> m, i |-> i]]

\* What Put does to the pipes and to the tasks, for fragment i of message m.
PutEffect(x, m, i) ==
    /\ snd[x].pc = "put" /\ snd[x].msg = m /\ snd[x].i = i
    /\ m \in Msg /\ i \in Nat \ {0} /\ i <= Fragments(m)
    /\ \A w \in Servers :
          Pipe(w)' = IF w = Dest(m) THEN Append(Pipe(w), Piece(m, i)) ELSE Pipe(w)
    /\ \A y \in Senders : y # x => snd'[y] = snd[y]
    /\ \A w \in Servers : /\ server'[w].got = server[w].got
                          /\ server'[w].pc = server[w].pc \/ server'[w].pc = "wait"
    /\ \A t \in Callers : t # x => caller'[t] = caller[t]
    /\ IF i < Fragments(m)
       THEN /\ snd'[x].pc # "off" /\ snd'[x].msg = m /\ snd'[x].i = i + 1
            /\ UNCHANGED caller
       ELSE /\ snd'[x].pc = "off"
            /\ x \in Callers => IF Job[x].sync
                                THEN caller'[x].pc = "await" /\ caller'[x].n = caller[x].n
                                ELSE caller'[x].pc = "idle" /\ caller'[x].n = caller[x].n + 1
    /\ UNCHANGED <<reply, handled>>

LEMMA PieceType ==
    ASSUME NEW m \in Msg, NEW i \in Nat \ {0}
    PROVE  /\ Piece(m, i) \in Copied /\ Piece(m, i).hd = m /\ Piece(m, i).data = [msg |-> m, i |-> i]
           /\ Piece(m, i).data.msg = m /\ Piece(m, i).data.i = i
  BY DEF Piece, Copied, Fragment

LEMMA PutPipe ==
    ASSUME LinkSound, PipeSound, NEW x \in Senders, Put(x), NEW m, NEW i, snd[x].msg = m, snd[x].i = i
    PROVE  \A w \in Servers :
              Pipe(w)' = IF w = Dest(m) THEN Append(Pipe(w), Piece(m, i)) ELSE Pipe(w)
  <1> DEFINE c == CoreOf(x)
             r == Peer(c)
             h == [ser |-> Job[m.t].ser, msg |-> m, i |-> i, blk |-> snd[x].blk, seq |-> seq[c]]
  <1>1. /\ c \in Cores /\ r \in Cores /\ r # c /\ Peer(r) = c /\ \A d \in Cores : d = c \/ d = r
        /\ TypeOK
    BY PeerFacts, CoreOfType DEF LinkSound
  <1>2. snd[x].pc = "put" /\ Active(x) /\ m \in Msg /\ i \in Nat \ {0}
    BY ActiveType DEF Put, Active
  <1>3. Dest(m)[1] = r /\ Dest(m)[2] = Job[m.t].ser /\ Dest(m) \in Servers
    <2>1. Partly(x)
      BY <1>2 DEF PipeSound
    <2> QED
      BY <1>2, <2>1, DestType DEF Partly, Dest
  <1>4. /\ UNCHANGED <<bake, recv, queue>>
        /\ slot' = [slot EXCEPT ![c] = h]
        /\ seq' = [seq EXCEPT ![c] = @ + 1]
    BY DEF Put, PutMessage
  <1>5. \A w \in Servers : server'[w].got = server[w].got
    <2>1. UNCHANGED server \/ server' = [server EXCEPT ![x].pc = "wait"]
      BY DEF Put, Sent
    <2>2. \A w \in Servers : server[w] \in Serving
      BY <1>1 DEF TypeOK
    <2>3. CASE server' = [server EXCEPT ![x].pc = "wait"]
      BY <1>1, <2>2, <2>3 DEF TypeOK, Serving
    <2> QED
      BY <2>1, <2>3
  <1>6. Token(c, "put")
    <2>1. PICK p \in Place : Token(c, p)
      BY <1>1 DEF LinkSound
    <2>2. Putting(c)
      BY <1>2 DEF Putting, c
    <2> QED
      BY <2>1, <2>2 DEF Token
  <1>7. Carried(h) = Piece(m, i) /\ h.ser = Job[m.t].ser
    BY DEF Carried, Piece
  <1> HIDE DEF h, c, r
  <1>8. /\ seq'[c] = seq[c] + 1 /\ seq'[r] = seq[r] /\ slot'[c] = h /\ slot'[r] = slot[r]
        /\ seq[c] \in Nat /\ bake[r] \in Nat
    BY <1>1, <1>4 DEF TypeOK
  <1>9. seq[c] = bake[r] + 1
    BY <1>6 DEF Token, r
  <1>10. ASSUME NEW w \in Servers
         PROVE  Pipe(w)' = IF w = Dest(m) THEN Append(Pipe(w), Piece(m, i)) ELSE Pipe(w)
    <2>1. RecvPart(w)' = RecvPart(w) /\ w[1] \in Cores /\ w = <<w[1], w[2]>>
      BY <1>4, ServerPair DEF RecvPart, Carried
    <2>2. CASE w[1] = c
      <3>1. SlotPart(w)' = SlotPart(w)
        BY <1>1, <1>4, <1>8, <2>2 DEF SlotPart, InFlight, Carried, r
      <3>2. w # Dest(m)
        BY <1>1, <1>3, <2>2
      <3> QED
        BY <1>4, <1>5, <2>1, <3>1, <3>2 DEF Pipe
    <2>3. CASE w[1] = r
      <3>1. SlotPart(w) = <<>>
        <4>1. Peer(w[1]) = c /\ bake[Peer(c)] = bake[r]
          BY <1>1, <2>3 DEF r
        <4>2. ~InFlight(c)
          BY <1>8, <1>9, <4>1 DEF InFlight
        <4> QED
          BY <4>1, <4>2 DEF SlotPart
      <3>2. SlotPart(w)' = IF Job[m.t].ser = w[2] THEN <<Piece(m, i)>> ELSE <<>>
        <4>1. Peer(w[1]) = c /\ Peer(c) = w[1]
          BY <1>1, <2>3 DEF r
        <4>2. (seq[c] = bake[Peer(c)] + 2)'
          BY <1>4, <1>8, <1>9, <2>3, <4>1
        <4>3. SlotPart(w)' = IF slot'[c].ser = w[2] THEN <<Carried(slot'[c])>> ELSE <<>>
          BY <4>1, <4>2 DEF SlotPart, InFlight, Carried
        <4> QED
          BY <1>7, <1>8, <4>3
      <3>3. CASE w # Dest(m)
        <4>1. SlotPart(w)' = <<>>
          BY <1>3, <2>1, <2>3, <3>2, <3>3, ServerPair
        <4> QED
          BY <1>4, <1>5, <2>1, <3>1, <3>3, <4>1 DEF Pipe
      <3>4. CASE w = Dest(m)
        <4> DEFINE a == server[w].got \o queue[w]
                   z == RecvPart(w)
                   e == Piece(m, i)
        <4>1. a \in Seq(Copied) /\ z \in Seq(Copied) /\ e \in Copied /\ <<e>> \in Seq(Copied)
          BY <1>2, PipeParts, PieceType, ConcatProperties, SingleSeq
        <4>2. Pipe(w) = a \o (z \o <<>>)
          BY <3>1 DEF Pipe
        <4>3. Pipe(w)' = a \o (z \o <<e>>)
          BY <1>3, <1>4, <1>5, <2>1, <3>2, <3>4 DEF Pipe
        <4> HIDE DEF a, z, e
        <4>4. z \o <<>> = z /\ a \o z \in Seq(Copied)
          BY <4>1, ConcatEmptySeq, ConcatProperties
        <4>5. Append(a \o z, e) = (a \o z) \o <<e>>
          BY <4>1, <4>4, AppendIsConcat
        <4>6. (a \o z) \o <<e>> = a \o (z \o <<e>>)
          BY <4>1, ConcatAssociative
        <4> QED
          BY <3>4, <4>2, <4>3, <4>4, <4>5, <4>6 DEF e
      <3> QED
        BY <3>3, <3>4
    <2> QED
      BY <1>1, <2>1, <2>2, <2>3
  <1> QED
    BY <1>10

LEMMA PutIs ==
    ASSUME LinkSound, PipeSound, NEW x \in Senders, Put(x), NEW m, NEW i, snd[x].msg = m, snd[x].i = i
    PROVE  PutEffect(x, m, i)
  <1>1. TypeOK /\ Mutex(x)
    BY DEF LinkSound
  <1>2. snd[x].pc = "put" /\ Active(x) /\ snd[x] \in Sending /\ m \in Msg /\ i \in Nat \ {0}
        /\ i <= Fragments(m) /\ Fragments(m) \in Nat
    BY <1>1, ActiveType, FragmentsType DEF Put, Active, Mutex
  <1>3. \A w \in Servers :
           Pipe(w)' = IF w = Dest(m) THEN Append(Pipe(w), Piece(m, i)) ELSE Pipe(w)
    BY PutPipe
  <1>4. UNCHANGED <<reply, handled>>
    BY DEF Put
  <1>5. CASE i < Fragments(m)
    <2>1. snd' = [snd EXCEPT ![x] = [@ EXCEPT !.pc = "fill", !.i = snd[x].i + 1]] /\ UNCHANGED <<caller, server>>
      BY <1>5 DEF Put
    <2>2. snd'[x].pc # "off" /\ snd'[x].msg = m /\ snd'[x].i = i + 1
      BY <1>1, <1>2, <2>1 DEF TypeOK, Sending
    <2>3. \A y \in Senders : y # x => snd'[y] = snd[y]
      BY <1>1, <2>1 DEF TypeOK
    <2> QED
      BY <1>2, <1>3, <1>4, <1>5, <2>1, <2>2, <2>3 DEF PutEffect
  <1>6. CASE ~(i < Fragments(m))
    <2>1. snd' = [snd EXCEPT ![x] = Idle] /\ Sent(x)
      BY <1>6 DEF Put
    <2>2. snd'[x].pc = "off" /\ \A y \in Senders : y # x => snd'[y] = snd[y]
      BY <1>1, <2>1 DEF TypeOK, Idle
    <2>3. \A w \in Servers : /\ server'[w].got = server[w].got
                             /\ server'[w].pc = server[w].pc \/ server'[w].pc = "wait"
      BY <1>1, <2>1 DEF TypeOK, Serving, Sent
    <2>4. \A t \in Callers : t # x => caller'[t] = caller[t]
      BY <1>1, <2>1 DEF TypeOK, Sent
    <2>5. ASSUME x \in Callers
          PROVE  IF Job[x].sync THEN caller'[x].pc = "await" /\ caller'[x].n = caller[x].n
                                ELSE caller'[x].pc = "idle" /\ caller'[x].n = caller[x].n + 1
      <3>1. caller[x] \in Calling
        BY <1>1, <2>5 DEF TypeOK
      <3>2. caller'[x] = IF Job[x].sync THEN [caller[x] EXCEPT !.pc = "await"]
                         ELSE [pc |-> "idle", n |-> caller[x].n + 1]
        BY <1>1, <2>1, <2>5 DEF TypeOK, Sent
      <3> QED
        BY <3>1, <3>2 DEF Calling
    <2> QED
      BY <1>2, <1>3, <1>4, <1>6, <2>2, <2>3, <2>4, <2>5 DEF PutEffect
  <1> QED
    BY <1>5, <1>6

\* A caller sends its next message, a service the answer to a caller of its own.
LEMMA OwnMessage ==
    ASSUME LinkSound, PipeSound, NEW x \in Senders, Active(x)
    PROVE  \/ /\ x \in Callers /\ x \notin Servers
              /\ snd[x].msg = [t |-> x, n |-> caller[x].n + 1, ack |-> FALSE]
              /\ Dest(snd[x].msg) = Home(x)
           \/ /\ x \in Servers /\ x \notin Callers
              /\ snd[x].msg.ack /\ Answering(snd[x].msg) /\ x = Home(snd[x].msg.t)
  <1>1. Callers \cap Servers = {}
    BY IPCAssumption DEF Servers
  <1>2. CASE x \in Callers
    <2>1. snd[x].msg = [t |-> x, n |-> caller[x].n + 1, ack |-> FALSE]
      BY <1>2 DEF PipeSound, InCall
    <2> QED
      BY <1>1, <1>2, <2>1 DEF Dest, Home
  <1>3. CASE x \in Servers
    BY <1>1, <1>3 DEF PipeSound, Acking, Answering
  <1> QED
    BY <1>2, <1>3 DEF Senders

LEMMA SameMessage ==
    ASSUME LinkSound, PipeSound, NEW x \in Senders, NEW y \in Senders, Active(x), Active(y),
           snd[x].msg = snd[y].msg
    PROVE  x = y
  <1>1. ASSUME NEW z \in Senders, Active(z)
        PROVE  \/ z \in Callers /\ ~snd[z].msg.ack /\ snd[z].msg.t = z
               \/ snd[z].msg.ack /\ z = Home(snd[z].msg.t)
    <2>1. CASE snd[z].msg = [t |-> z, n |-> caller[z].n + 1, ack |-> FALSE]
      <3>1. ~snd[z].msg.ack /\ snd[z].msg.t = z
        BY <2>1
      <3> QED
        BY <1>1, <3>1, OwnMessage
    <2> QED
      BY <1>1, <2>1, OwnMessage
  <1> QED
    BY <1>1

\* Of two senders to one service only one is past its first fragment.
LEMMA OnePastFirst ==
    ASSUME LinkSound, PipeSound, NEW x \in Senders, NEW y \in Senders, snd[x].pc = "put", Active(y),
           Dest(snd[y].msg) = Dest(snd[x].msg), snd[y].i > 1
    PROVE  x = y
  <1>1. Active(x) /\ Holding(x)
    BY DEF Active, Holding
  <1>2. Holding(y)
    <2>1. snd[y] \in Sending
      BY ActiveType
    <2> QED
      BY <2>1 DEF Sending, Holding
  <1>3. CoreOf(x) = CoreOf(y)
    <2>1. Partly(x) /\ Partly(y)
      BY <1>1 DEF PipeSound
    <2>2. Peer(CoreOf(x)) = Peer(CoreOf(y))
      BY <2>1 DEF Partly
    <2> QED
      BY <2>2, PeerFacts, CoreOfType
  <1> QED
    BY <1>1, <1>2, <1>3, OneSender

\* The fragment fits to the one before it in the pipe.
LEMMA PutFits ==
    ASSUME LinkSound, PipeSound, NEW x \in Senders, NEW m, NEW i, PutEffect(x, m, i)
    PROVE  LET P == Pipe(Dest(m)) IN
           /\ P = <<>> => i = 1
           /\ P # <<>> => Follows(P[Len(P)].data, [msg |-> m, i |-> i])
           /\ \A k \in 1 .. Len(P) : P[k].hd = m => P[k].data.i < i
           /\ i > 1 => P # <<>> /\ P[Len(P)].data = [msg |-> m, i |-> i - 1]
                       /\ P[Len(P)].hd = m
  <1> DEFINE v == Dest(m)
             P == Pipe(v)
             L == Len(P)
  <1>1. /\ snd[x].pc = "put" /\ snd[x].msg = m /\ snd[x].i = i /\ Active(x)
        /\ m \in Msg /\ i \in Nat \ {0} /\ i <= Fragments(m) /\ Fragments(m) \in Nat
    BY FragmentsType DEF PutEffect, Active
  <1>2. v \in Servers /\ P \in Seq(Copied) /\ L \in Nat
    BY <1>1, DestType, PipeParts, LenProperties
  <1>3. Partly(x) /\ Routed(v, P) /\ Unfinished(P)
    BY <1>1, <1>2 DEF PipeSound
  <1>4. /\ i > 1 => P # <<>> /\ P[L].data = [msg |-> m, i |-> i - 1]
        /\ \A k \in 1 .. L : P[k].hd = m => P[k].data.i < i
    BY <1>1, <1>3 DEF Partly
  <1> HIDE DEF P, L, v
  <1>5. P # <<>> => L \in 1 .. L /\ P[L] \in Copied /\ P[L].hd = P[L].data.msg /\ Dest(P[L].hd) = v
    BY <1>2, <1>3, EmptySeq, ElementOfSeq DEF Routed, L
  <1>6. ASSUME P # <<>>, i = 1 PROVE ~(P[L].data.i < Fragments(P[L].data.msg))
    <2>1. SUFFICES ASSUME P[L].data.i < Fragments(P[L].data.msg) PROVE FALSE
      OBVIOUS
    <2>2. PICK y \in Senders : Active(y) /\ snd[y].msg = P[L].hd /\ snd[y].i = P[L].data.i + 1
      BY <1>3, <1>5, <1>6, <2>1 DEF Unfinished, L
    <2>3. snd[y].i > 1
      BY <1>5, <1>6, <2>2 DEF Copied, Fragment
    <2>4. Dest(snd[y].msg) = Dest(snd[x].msg)
      BY <1>1, <1>5, <1>6, <2>2 DEF v
    <2>5. x = y
      BY <1>1, <2>2, <2>3, <2>4, OnePastFirst
    <2> QED
      BY <1>1, <1>6, <2>3, <2>5
  <1>7. ASSUME P # <<>> PROVE Follows(P[L].data, [msg |-> m, i |-> i])
    <2>1. CASE i = 1
      <3>1. ~(P[L].data.i < Fragments(P[L].data.msg))
        BY <1>6, <1>7, <2>1
      <3> QED
        BY <2>1, <3>1 DEF Follows
    <2>2. CASE i > 1
      <3>1. P[L].data.msg = m /\ P[L].data.i = i - 1 /\ i - 1 < Fragments(m) /\ (i - 1) + 1 = i
        BY <1>1, <1>4, <2>2
      <3> QED
        BY <3>1 DEF Follows
    <2> QED
      BY <1>1, <2>1, <2>2
  <1>8. P = <<>> => i = 1
    BY <1>1, <1>4
  <1>9. i > 1 => P[L].hd = m
    BY <1>4, <1>5
  <1> QED
    BY <1>4, <1>7, <1>8, <1>9 DEF P, L, v

\* The pipe after the step.
LEMMA PutLonger ==
    ASSUME LinkSound, PipeSound, NEW x \in Senders, NEW m, NEW i, PutEffect(x, m, i), NEW P, NEW Q,
           P = Pipe(Dest(m)), Q = Append(P, Piece(m, i))
    PROVE  /\ P \in Seq(Copied) /\ Len(P) \in Nat /\ Len(Q) = Len(P) + 1
           /\ \A k \in 1 .. Len(P) : Q[k] = P[k]
           /\ Q[Len(P) + 1] = Piece(m, i)
           /\ \A k \in 1 .. Len(Q) : k \in 1 .. Len(P) \/ k = Len(P) + 1
           /\ P # <<>> <=> Len(P) > 0
  <1>1. m \in Msg /\ i \in Nat \ {0} /\ Dest(m) \in Servers
    BY DestType DEF PutEffect
  <1>2. P \in Seq(Copied) /\ Piece(m, i) \in Copied
    BY <1>1, PipeParts, PieceType
  <1>3. Len(P) \in Nat
    BY <1>2, LenProperties
  <1>4. /\ Len(Q) = Len(P) + 1 /\ Q[Len(P) + 1] = Piece(m, i)
        /\ \A k \in 1 .. Len(P) : Q[k] = P[k]
    BY <1>2, AppendProperties
  <1> QED
    BY <1>2, <1>3, <1>4, EmptySeq

LEMMA CallerMessage ==
    ASSUME LinkSound, PipeSound, NEW x \in Callers, Active(x)
    PROVE  /\ x \in Senders /\ snd[x].msg.t = x /\ snd[x].msg.n = caller[x].n + 1 /\ ~snd[x].msg.ack
           /\ Dest(snd[x].msg) = Home(x) /\ caller[x].pc = "send" /\ caller[x] \in Calling
  <1>1. snd[x].msg = [t |-> x, n |-> caller[x].n + 1, ack |-> FALSE]
    BY DEF PipeSound, InCall
  <1>2. x \in Senders /\ caller[x].pc = "send" /\ caller[x] \in Calling
    BY DEF LinkSound, Busy, Senders, TypeOK
  <1>3. snd[x].msg.t = x /\ snd[x].msg.n = caller[x].n + 1 /\ ~snd[x].msg.ack
    BY <1>1
  <1> QED
    BY <1>2, <1>3 DEF Dest, Home

LEMMA ServerMessage ==
    ASSUME LinkSound, PipeSound, NEW x \in Senders, Active(x), x \notin Callers
    PROVE  /\ x \in Servers /\ snd[x].msg.ack /\ snd[x].msg.t \in Callers
           /\ Answering(snd[x].msg) /\ x = Home(snd[x].msg.t)
  BY OwnMessage, ActiveType DEF Msg

LEMMA BegunIs ==
    ASSUME LinkSound, NEW t \in Callers
    PROVE  /\ caller[t].n \in Nat /\ Begun(t) \in Nat
           /\ caller[t].n <= Begun(t) /\ Begun(t) <= caller[t].n + 1
  <1>1. caller[t] \in Calling
    BY DEF LinkSound, TypeOK
  <1> QED
    BY <1>1 DEF Begun, Calling

LEMMA PutSequence ==
    ASSUME LinkSound, PipeSound, NEW x \in Senders, NEW m, NEW i, PutEffect(x, m, i), NEW P, NEW Q,
           P = Pipe(Dest(m)), Q = Append(P, Piece(m, i))
    PROVE  Routed(Dest(m), Q) /\ Chained(Q) /\ Ordered(Q)
  <1> DEFINE L == Len(P)
  <1>1. /\ snd[x].pc = "put" /\ snd[x].msg = m /\ snd[x].i = i /\ Active(x)
        /\ m \in Msg /\ i \in Nat \ {0} /\ i <= Fragments(m) /\ Dest(m) \in Servers
    BY DestType DEF PutEffect, Active
  <1>2. /\ P \in Seq(Copied) /\ L \in Nat /\ Len(Q) = L + 1
        /\ \A k \in 1 .. L : Q[k] = P[k]
        /\ Q[L + 1] = Piece(m, i)
        /\ \A k \in 1 .. Len(Q) : k \in 1 .. L \/ k = L + 1
        /\ P # <<>> <=> L > 0
    BY PutLonger
  <1>3. Routed(Dest(m), P) /\ Chained(P) /\ Ordered(P)
        /\ \A k \in 1 .. Len(P) : P[k].hd.ack => Answering(P[k].hd)
    BY <1>1 DEF PipeSound
  <1>4. /\ P = <<>> => i = 1
        /\ P # <<>> => Follows(P[L].data, [msg |-> m, i |-> i])
        /\ \A k \in 1 .. L : P[k].hd = m => P[k].data.i < i
    BY PutFits, ZenonT(60)
  <1>5. /\ Piece(m, i).hd = m /\ Piece(m, i).data = [msg |-> m, i |-> i]
        /\ Piece(m, i).data.msg = m /\ Piece(m, i).data.i = i
    BY <1>1, PieceType
  <1>6. Routed(Dest(m), Q)
    BY <1>1, <1>2, <1>3, <1>5 DEF Routed
  <1>7. Chained(Q)
    <2>1. Q[1].data.i = 1
      <3>1. CASE P = <<>>
        <4>1. L = 0 /\ Q[1] = Piece(m, i)
          BY <1>2, <3>1
        <4> QED
          BY <1>4, <1>5, <3>1, <4>1
      <3>2. CASE P # <<>>
        <4>1. 1 \in 1 .. L
          BY <1>2, <3>2
        <4> QED
          BY <1>2, <1>3, <3>2, <4>1 DEF Chained
      <3> QED
        BY <3>1, <3>2
    <2>2. ASSUME NEW k \in 1 .. Len(Q) - 1 PROVE Follows(Q[k].data, Q[k + 1].data)
      <3>1. CASE k = L
        <4>1. P # <<>> /\ Q[k] = P[L] /\ Q[k + 1] = Piece(m, i)
          BY <1>2, <3>1
        <4> QED
          BY <1>4, <1>5, <4>1
      <3>2. CASE k # L
        <4>1. k \in 1 .. L - 1 /\ k \in 1 .. L /\ k + 1 \in 1 .. L
          BY <1>2, <3>2
        <4>2. Q[k] = P[k] /\ Q[k + 1] = P[k + 1]
          BY <1>2, <4>1
        <4>3. Follows(P[k].data, P[k + 1].data)
          BY <1>3, <4>1 DEF Chained
        <4> QED
          BY <4>2, <4>3
      <3> QED
        BY <3>1, <3>2
    <2> QED
      BY <2>1, <2>2 DEF Chained
  <1>8. ASSUME NEW j \in 1 .. L, P[j].hd.t = m.t, P[j].hd.ack = m.ack
        PROVE  P[j].hd.n < m.n \/ (P[j].hd.n = m.n /\ P[j].data.i < i)
    <2>1. P[j] \in Copied /\ P[j].hd \in Msg
      <3>1. P[j] \in Copied
        BY <1>2, ElementOfSeq
      <3> QED
        BY <3>1 DEF Copied
    <2>2. P[j].hd.n = m.n => P[j].hd = m
      BY <1>1, <1>8, <2>1 DEF Msg
    <2>3. P[j].hd.n <= m.n /\ m.n \in Nat /\ P[j].hd.n \in Nat
      <3>1. CASE x \in Callers
        <4>1. m.t = x /\ m.n = caller[x].n + 1 /\ ~m.ack /\ Dest(m) = Home(x)
          BY <1>1, <3>1, CallerMessage
        <4>2. P[j].hd.n <= Begun(x)
          <5>1. Numbered(x)
            BY <3>1 DEF PipeSound
          <5>2. P[j].hd.t = x /\ ~P[j].hd.ack
            BY <1>8, <4>1
          <5> QED
            BY <4>1, <5>1, <5>2 DEF Numbered
        <4>3. m.n \in Nat /\ P[j].hd.n \in Nat
          BY <1>1, <2>1 DEF Msg
        <4> QED
          BY <3>1, <4>1, <4>2, <4>3, BegunIs
      <3>2. CASE x \notin Callers
        <4>1. Answering(m) /\ m.ack
          BY <1>1, <3>2, ServerMessage
        <4>2. Answering(P[j].hd)
          BY <1>3, <1>8, <4>1
        <4>3. P[j].hd.n = m.n
          BY <1>8, <4>1, <4>2 DEF Answering
        <4> QED
          BY <1>1, <4>3 DEF Msg
      <3> QED
        BY <3>1, <3>2
    <2> QED
      BY <1>4, <2>2, <2>3
  <1>9. Ordered(Q)
    <2> SUFFICES ASSUME NEW j \in 1 .. Len(Q), NEW k \in 1 .. Len(Q), j < k,
                        Q[j].hd.t = Q[k].hd.t, Q[j].hd.ack = Q[k].hd.ack
                 PROVE  \/ Q[j].hd.n < Q[k].hd.n
                        \/ Q[j].hd.n = Q[k].hd.n /\ Q[j].data.i < Q[k].data.i
      BY DEF Ordered
    <2>1. j \in 1 .. L /\ Q[j] = P[j]
      BY <1>2
    <2>2. CASE k = L + 1
      BY <1>2, <1>5, <1>8, <2>1, <2>2
    <2>3. CASE k \in 1 .. L
      BY <1>2, <1>3, <2>1, <2>3 DEF Ordered
    <2> QED
      BY <1>2, <2>2, <2>3
  <1> QED
    BY <1>6, <1>7, <1>9

\* The callers that are waiting are not touched.
LEMMA PutAnswering ==
    ASSUME LinkSound, PipeSound, NEW x \in Senders, NEW m, NEW i, PutEffect(x, m, i)
    PROVE  /\ \A t \in Callers : caller[t].pc = "await" => caller'[t] = caller[t]
           /\ \A q \in Msg : Answering(q) => Answering(q)'
  <1>1. Active(x) /\ UNCHANGED handled /\ \A t \in Callers : t # x => caller'[t] = caller[t]
    BY DEF PutEffect, Active
  <1>2. \A t \in Callers : caller[t].pc = "await" => caller'[t] = caller[t]
    BY <1>1, CallerMessage
  <1> QED
    BY <1>1, <1>2 DEF Answering, Msg

LEMMA PutUnfinished ==
    ASSUME LinkSound, PipeSound, NEW x \in Senders, NEW m, NEW i, PutEffect(x, m, i), NEW w \in Servers
    PROVE  Unfinished(Pipe(w))'
  <1>1. /\ snd[x].msg = m /\ m \in Msg /\ i \in Nat \ {0} /\ Active(x)
        /\ \A y \in Senders : y # x => snd'[y] = snd[y]
        /\ i < Fragments(m) => snd'[x].pc # "off" /\ snd'[x].msg = m /\ snd'[x].i = i + 1
        /\ Pipe(w)' = IF w = Dest(m) THEN Append(Pipe(w), Piece(m, i)) ELSE Pipe(w)
    BY DEF PutEffect, Active
  <1>2. CASE w = Dest(m)
    <2>1. PICK Q : Q = Append(Pipe(w), Piece(m, i))
      OBVIOUS
    <2>2. Len(Q) = Len(Pipe(w)) + 1 /\ Q[Len(Q)] = Piece(m, i)
      BY <1>2, <2>1, PutLonger
    <2>3. Q[Len(Q)].hd = m /\ Q[Len(Q)].data.i = i
      <3>1. Piece(m, i).hd = m /\ Piece(m, i).data.i = i
        BY <1>1, PieceType
      <3> QED
        BY <2>2, <3>1
    <2>4. Unfinished(Q)'
      BY <1>1, <2>3 DEF Unfinished, Active
    <2> QED
      BY <1>1, <1>2, <2>1, <2>4
  <1>3. CASE w # Dest(m)
    <2>1. PICK Q : Q = Pipe(w)
      OBVIOUS
    <2>2. Unfinished(Q) /\ Routed(w, Q) /\ Len(Q) \in Nat /\ (Q # <<>> => Len(Q) \in 1 .. Len(Q))
      BY <2>1, PipeParts, LenProperties, EmptySeq DEF PipeSound
    <2>3. Unfinished(Q)'
      <3> SUFFICES ASSUME Q # <<>>, Q[Len(Q)].data.i < Fragments(Q[Len(Q)].hd)
                   PROVE  \E y \in Senders : (/\ Active(y) /\ snd[y].msg = Q[Len(Q)].hd
                                              /\ snd[y].i = Q[Len(Q)].data.i + 1)'
        BY DEF Unfinished
      <3>1. PICK y \in Senders : Active(y) /\ snd[y].msg = Q[Len(Q)].hd /\ snd[y].i = Q[Len(Q)].data.i + 1
        BY <2>2 DEF Unfinished
      <3>2. y # x
        BY <1>1, <1>3, <2>2, <3>1 DEF Routed
      <3> QED
        BY <1>1, <3>1, <3>2 DEF Active
    <2> QED
      BY <1>1, <1>3, <2>1, <2>3
  <1> QED
    BY <1>2, <1>3

LEMMA PutPartly ==
    ASSUME LinkSound, PipeSound, NEW x \in Senders, NEW m, NEW i, PutEffect(x, m, i),
           NEW y \in Senders, Active(y)'
    PROVE  Partly(y)'
  <1>1. /\ snd[x].pc = "put" /\ snd[x].msg = m /\ snd[x].i = i /\ Active(x)
        /\ m \in Msg /\ i \in Nat \ {0} /\ Dest(m) \in Servers
        /\ \A z \in Senders : z # x => snd'[z] = snd[z]
        /\ \A w \in Servers : Pipe(w)' = IF w = Dest(m) THEN Append(Pipe(w), Piece(m, i)) ELSE Pipe(w)
    BY DestType DEF PutEffect, Active
  <1>2. PICK P, Q : P = Pipe(Dest(m)) /\ Q = Append(P, Piece(m, i))
    OBVIOUS
  <1>3. /\ Len(P) \in Nat /\ Len(Q) = Len(P) + 1
        /\ \A k \in 1 .. Len(P) : Q[k] = P[k]
        /\ Q[Len(P) + 1] = Piece(m, i)
        /\ \A k \in 1 .. Len(Q) : k \in 1 .. Len(P) \/ k = Len(P) + 1
    BY <1>2, PutLonger
  <1>4. Piece(m, i).hd = m /\ Piece(m, i).data = [msg |-> m, i |-> i] /\ Piece(m, i).data.i = i
    BY <1>1, PieceType
  <1>5. Pipe(Dest(m))' = Q
    BY <1>1, <1>2
  <1>6. Q # <<>>
    BY <1>3, EmptySeq
  <1>7. CASE y = x
    <2>1. snd'[x].msg = m /\ snd'[x].i = i + 1
      BY <1>7 DEF PutEffect, Active
    <2>2. Dest(m)[1] = Peer(CoreOf(x))
      BY <1>1 DEF PipeSound, Partly
    <2>3. \A k \in 1 .. Len(P) : P[k].hd = m => P[k].data.i < i
      BY <1>1, <1>2 DEF PipeSound, Partly
    <2>4. \A k \in 1 .. Len(Q) : Q[k].hd = m => Q[k].data.i < i + 1
      <3> SUFFICES ASSUME NEW k \in 1 .. Len(Q), Q[k].hd = m PROVE Q[k].data.i < i + 1
        OBVIOUS
      <3>1. CASE k = Len(P) + 1
        BY <1>1, <1>3, <1>4, <3>1
      <3>2. CASE k \in 1 .. Len(P)
        <4>1. P[k].data.i < i /\ P[k].data.i \in Nat /\ Q[k] = P[k]
          <5>1. P \in Seq(Copied)
            BY <1>1, <1>2, PipeParts
          <5>2. P[k] \in Copied
            BY <3>2, <5>1, ElementOfSeq
          <5>3. P[k].data.i \in Nat
            BY <5>2 DEF Copied, Fragment
          <5> QED
            BY <1>3, <2>3, <3>2, <5>3
        <4> QED
          BY <1>1, <4>1
      <3> QED
        BY <1>3, <3>1, <3>2
    <2>5. Q[Len(Q)].data = [msg |-> m, i |-> (i + 1) - 1]
      <3>1. (i + 1) - 1 = i
        BY <1>1
      <3> QED
        BY <1>3, <1>4, <3>1
    <2> QED
      BY <1>5, <1>6, <1>7, <2>1, <2>2, <2>4, <2>5 DEF Partly
  <1>8. CASE y # x
    <2>1. snd'[y] = snd[y] /\ Active(y) /\ Partly(y) /\ Dest(snd[y].msg) \in Servers
          /\ snd[y].i \in Nat \ {0}
      <3>1. snd'[y] = snd[y]
        BY <1>1, <1>8
      <3>2. Active(y)
        BY <3>1 DEF Active
      <3> QED
        BY <3>1, <3>2, ActiveType, DestType DEF PipeSound
    <2>2. CASE Dest(snd[y].msg) # Dest(m)
      <3>1. PICK w \in Servers : w = Dest(snd[y].msg)
        BY <2>1
      <3>2. Pipe(w)' = Pipe(w)
        BY <1>1, <2>2, <3>1
      <3> QED
        BY <2>1, <3>1, <3>2 DEF Partly
    <2>3. CASE Dest(snd[y].msg) = Dest(m)
      <3>1. snd[y].i = 1
        BY <1>1, <1>8, <2>1, <2>3, OnePastFirst
      <3>2. snd[y].msg # m
        BY <1>1, <1>8, <2>1, SameMessage
      <3>3. \A k \in 1 .. Len(P) : P[k].hd = snd[y].msg => P[k].data.i < snd[y].i
        BY <1>2, <2>1, <2>3 DEF Partly
      <3>4. \A k \in 1 .. Len(Q) : Q[k].hd = snd[y].msg => Q[k].data.i < snd[y].i
        BY <1>3, <1>4, <3>2, <3>3
      <3>5. Dest(snd[y].msg)[1] = Peer(CoreOf(y))
        BY <2>1 DEF Partly
      <3>6. ~(snd[y].i > 1)
        BY <3>1
      <3> QED
        BY <1>5, <2>1, <2>3, <3>4, <3>5, <3>6 DEF Partly
    <2> QED
      BY <2>2, <2>3
  <1> QED
    BY <1>7, <1>8

LEMMA PutNumbered ==
    ASSUME LinkSound, PipeSound, NEW x \in Senders, NEW m, NEW i, PutEffect(x, m, i), NEW t \in Callers
    PROVE  Numbered(t)'
  <1> DEFINE H == Len(handled[t])
  <1>1. /\ snd[x].pc = "put" /\ snd[x].msg = m /\ snd[x].i = i /\ Active(x)
        /\ m \in Msg /\ i \in Nat \ {0} /\ Dest(m) \in Servers
        /\ UNCHANGED handled
        /\ \A w \in Servers : Pipe(w)' = IF w = Dest(m) THEN Append(Pipe(w), Piece(m, i)) ELSE Pipe(w)
    BY DestType DEF PutEffect, Active
  <1>2. Home(t) \in Servers
    BY HomeType
  <1>3. PICK P, Q : P = Pipe(Home(t)) /\ Q = Pipe(Home(t))'
    OBVIOUS
  <1>4. /\ handled[t] = [k \in 1 .. H |-> k]
        /\ H <= Begun(t) /\ H \in Nat
        /\ \A k \in 1 .. Len(P) : (P[k].hd.t = t /\ ~P[k].hd.ack) => H < P[k].hd.n /\ P[k].hd.n <= Begun(t)
        /\ \A n \in H + 1 .. Begun(t) : \E k \in 1 .. Len(P) : P[k].hd = [t |-> t, n |-> n, ack |-> FALSE]
    <2>1. H \in Nat
      BY LenProperties DEF LinkSound, TypeOK
    <2> QED
      BY <1>3, <2>1 DEF PipeSound, Numbered
  <1>5. P \in Seq(Copied) /\ \A k \in 1 .. Len(P) : P[k].hd.n \in Nat
    <2>1. P \in Seq(Copied)
      BY <1>2, <1>3, PipeParts
    <2>2. \A k \in 1 .. Len(P) : P[k] \in Copied
      BY <2>1, ElementOfSeq
    <2> QED
      BY <2>1, <2>2 DEF Copied, Msg
  <1>6. Piece(m, i).hd = m
    BY <1>1, PieceType
  <1>7. CASE t # x
    <2>1. Begun(t)' = Begun(t)
      <3>1. t \in Senders /\ snd'[t] = snd[t] /\ caller'[t] = caller[t]
        BY <1>7 DEF PutEffect, Senders
      <3> QED
        BY <3>1 DEF Begun
    <2>2. ~(m.t = t /\ ~m.ack)
      BY <1>1, <1>7, CallerMessage, ServerMessage
    <2>3. /\ \A k \in 1 .. Len(P) : k \in 1 .. Len(Q) /\ Q[k] = P[k]
          /\ \A k \in 1 .. Len(Q) : (Q[k].hd.t = t /\ ~Q[k].hd.ack) => k \in 1 .. Len(P)
      <3>1. CASE Home(t) = Dest(m)
        <4>1. Q = Append(P, Piece(m, i))
          BY <1>1, <1>2, <1>3, <3>1
        <4>2. /\ Len(P) \in Nat /\ Len(Q) = Len(P) + 1 /\ Q[Len(P) + 1] = Piece(m, i)
              /\ \A k \in 1 .. Len(P) : Q[k] = P[k]
              /\ \A k \in 1 .. Len(Q) : k \in 1 .. Len(P) \/ k = Len(P) + 1
          BY <1>3, <3>1, <4>1, PutLonger
        <4> QED
          BY <1>6, <2>2, <4>2
      <3>2. CASE Home(t) # Dest(m)
        BY <1>1, <1>2, <1>3, <3>2
      <3> QED
        BY <3>1, <3>2
    <2>4. \A k \in 1 .. Len(Q) : (Q[k].hd.t = t /\ ~Q[k].hd.ack) => H < Q[k].hd.n /\ Q[k].hd.n <= Begun(t)
      BY <1>4, <2>3
    <2>5. \A n \in H + 1 .. Begun(t) : \E k \in 1 .. Len(Q) : Q[k].hd = [t |-> t, n |-> n, ack |-> FALSE]
      BY <1>4, <2>3
    <2> QED
      BY <1>1, <1>3, <1>4, <2>1, <2>4, <2>5 DEF Numbered
  <1>8. CASE t = x
    <2> DEFINE N == caller[t].n + 1
    <2>1. m.t = t /\ m.n = N /\ ~m.ack /\ Dest(m) = Home(t) /\ caller[t].pc = "send"
      BY <1>1, <1>8, CallerMessage
    <2>2. m = [t |-> t, n |-> N, ack |-> FALSE]
      BY <1>1, <2>1 DEF Msg
    <2>3. caller[t].n \in Nat /\ Begun(t) \in Nat /\ caller[t].n <= Begun(t) /\ Begun(t) <= N
      BY BegunIs
    <2>4. Begun(t)' = N
      BY <1>1, <1>8, <2>1, <2>3 DEF PutEffect, Begun
    <2>5. Q = Append(P, Piece(m, i))
      BY <1>1, <1>3, <2>1
    <2>6. /\ Len(P) \in Nat /\ Len(Q) = Len(P) + 1 /\ Q[Len(P) + 1] = Piece(m, i)
          /\ \A k \in 1 .. Len(P) : Q[k] = P[k]
          /\ \A k \in 1 .. Len(Q) : k \in 1 .. Len(P) \/ k = Len(P) + 1
      BY <1>3, <2>1, <2>5, PutLonger
    <2>7. H < N
      <3>1. CASE i = 1
        <4>1. Begun(t) = caller[t].n
          BY <1>1, <1>8, <2>1, <3>1 DEF Begun
        <4> QED
          BY <1>4, <2>3, <4>1
      <3>2. CASE i > 1
        <4>1. P # <<>> /\ P[Len(P)].hd = m
          BY <1>3, <2>1, <3>2, PutFits
        <4>2. Len(P) \in 1 .. Len(P)
          BY <1>5, <2>6, <4>1, EmptySeq
        <4> QED
          BY <1>4, <2>1, <4>1, <4>2
      <3> QED
        BY <1>1, <3>1, <3>2
    <2> HIDE DEF N, H
    <2>8. \A k \in 1 .. Len(Q) : (Q[k].hd.t = t /\ ~Q[k].hd.ack) => H < Q[k].hd.n /\ Q[k].hd.n <= N
      <3> SUFFICES ASSUME NEW k \in 1 .. Len(Q), Q[k].hd.t = t, ~Q[k].hd.ack
                   PROVE  H < Q[k].hd.n /\ Q[k].hd.n <= N
        OBVIOUS
      <3>1. CASE k = Len(P) + 1
        BY <1>6, <2>1, <2>3, <2>6, <2>7, <3>1 DEF N
      <3>2. CASE k \in 1 .. Len(P)
        <4>1. H < P[k].hd.n /\ P[k].hd.n <= Begun(t) /\ P[k].hd.n \in Nat
          BY <1>4, <1>5, <2>6, <3>2
        <4>2. P[k].hd.n <= N
          BY <2>3, <4>1 DEF N
        <4> QED
          BY <2>6, <3>2, <4>1, <4>2
      <3> QED
        BY <2>6, <3>1, <3>2
    <2>9. \A n \in H + 1 .. N : \E k \in 1 .. Len(Q) : Q[k].hd = [t |-> t, n |-> n, ack |-> FALSE]
      <3> SUFFICES ASSUME NEW n \in H + 1 .. N
                   PROVE  \E k \in 1 .. Len(Q) : Q[k].hd = [t |-> t, n |-> n, ack |-> FALSE]
        OBVIOUS
      <3>1. CASE n = N
        <4>1. Len(P) + 1 \in 1 .. Len(Q) /\ Q[Len(P) + 1].hd = m
          BY <1>6, <2>6
        <4> QED
          BY <2>2, <3>1, <4>1
      <3>2. CASE n # N
        <4>1. n \in H + 1 .. Begun(t)
          BY <1>4, <2>3, <3>2 DEF N
        <4>2. PICK k \in 1 .. Len(P) : P[k].hd = [t |-> t, n |-> n, ack |-> FALSE]
          BY <1>4, <4>1
        <4>3. k \in 1 .. Len(Q) /\ Q[k] = P[k]
          BY <2>6
        <4> QED
          BY <4>2, <4>3
      <3> QED
        BY <3>1, <3>2
    <2>10. handled'[t] = [k \in 1 .. H |-> k] /\ Len(handled'[t]) = H /\ H <= N
      BY <1>1, <1>4, <2>3 DEF H, N
    <2> QED
      BY <1>3, <2>4, <2>8, <2>9, <2>10 DEF Numbered
  <1> QED
    BY <1>7, <1>8

LEMMA PutInv ==
    ASSUME LinkSound, PipeSound, NEW x \in Senders, Put(x)
    PROVE  PipeSound'
  <1>1. PICK m, i : snd[x].msg = m /\ snd[x].i = i
    OBVIOUS
  <1>2. PutEffect(x, m, i)
    BY <1>1, PutIs
  <1>3. /\ snd[x].pc = "put" /\ Active(x)
        /\ m \in Msg /\ i \in Nat \ {0} /\ Dest(m) \in Servers
        /\ UNCHANGED <<handled, reply>>
        /\ \A y \in Senders : y # x => snd'[y] = snd[y]
        /\ Active(x)' => snd'[x].msg = m
        /\ \A w \in Servers : Pipe(w)' = IF w = Dest(m) THEN Append(Pipe(w), Piece(m, i)) ELSE Pipe(w)
    BY <1>2, DestType DEF PutEffect, Active
  <1>4. Piece(m, i).hd = m
    BY <1>3, PieceType
  <1>5. /\ \A t \in Callers : caller[t].pc = "await" => caller'[t] = caller[t]
        /\ \A q \in Msg : Answering(q) => Answering(q)'
    BY <1>2, PutAnswering
  \* Every fragment of the new pipes is the new one or was there before.
  <1>6. ASSUME NEW w \in Servers, NEW k \in 1 .. Len(Pipe(w)')
        PROVE  \/ k \in 1 .. Len(Pipe(w)) /\ Pipe(w)'[k] = Pipe(w)[k] /\ Pipe(w)[k].hd \in Msg
               \/ Pipe(w)'[k] = Piece(m, i)
    <2>1. ASSUME NEW j \in 1 .. Len(Pipe(w)) PROVE Pipe(w)[j].hd \in Msg
      <3>1. Pipe(w)[j] \in Copied
        BY PipeParts, ElementOfSeq
      <3> QED
        BY <3>1 DEF Copied
    <2>2. CASE w = Dest(m)
      BY <1>2, <1>3, <2>1, <2>2, PutLonger
    <2>3. CASE w # Dest(m)
      BY <1>3, <2>1, <2>3
    <2> QED
      BY <2>2, <2>3
  <1>7. m.ack => x \in Servers /\ Answering(m)
    BY <1>1, <1>3, CallerMessage, ServerMessage
  <1>8. ASSUME NEW w \in Servers
        PROVE  (/\ Routed(w, Pipe(w)) /\ Chained(Pipe(w)) /\ Ordered(Pipe(w))
                /\ Unfinished(Pipe(w))
                /\ \A k \in 1 .. Len(Pipe(w)) : Pipe(w)[k].hd.ack => Answering(Pipe(w)[k].hd)
                /\ Collecting(w) /\ Acking(w))'
    <2>1. (Routed(w, Pipe(w)) /\ Chained(Pipe(w)) /\ Ordered(Pipe(w)))'
      <3>1. PICK Q : Q = Pipe(w)'
        OBVIOUS
      <3>2. Routed(w, Q) /\ Chained(Q) /\ Ordered(Q)
        <4>1. CASE w = Dest(m)
          BY <1>2, <1>3, <3>1, <4>1, PutSequence
        <4>2. CASE w # Dest(m)
          BY <1>3, <3>1, <4>2 DEF PipeSound
        <4> QED
          BY <4>1, <4>2
      <3> QED
        BY <3>1, <3>2 DEF Routed, Chained, Ordered
    <2>2. Unfinished(Pipe(w))'
      BY <1>2, PutUnfinished
    <2>3. ASSUME NEW k \in 1 .. Len(Pipe(w)'), Pipe(w)'[k].hd.ack
          PROVE  Answering(Pipe(w)[k].hd)'
      <3>1. PICK q : q = Pipe(w)'[k].hd
        OBVIOUS
      <3>2. q \in Msg /\ Answering(q)
        <4>1. CASE Pipe(w)'[k] = Piece(m, i)
          BY <1>3, <1>4, <1>7, <2>3, <3>1, <4>1
        <4>2. CASE k \in 1 .. Len(Pipe(w)) /\ Pipe(w)'[k] = Pipe(w)[k] /\ Pipe(w)[k].hd \in Msg
          BY <2>3, <3>1, <4>2 DEF PipeSound
        <4> QED
          BY <1>6, <4>1, <4>2
      <3> QED
        BY <1>5, <3>1, <3>2
    <2>4. Collecting(w)'
      <3>1. Collecting(w)
        BY DEF PipeSound
      <3>2. server'[w].got = server[w].got /\ (server'[w].pc = server[w].pc \/ server'[w].pc = "wait")
        BY <1>2 DEF PutEffect
      <3> QED
        BY <3>1, <3>2 DEF Collecting, Pieces
    <2>5. Acking(w)'
      <3> SUFFICES ASSUME Active(w)' PROVE (Answering(snd[w].msg) /\ w = Home(snd[w].msg.t))'
        BY DEF Acking
      <3>1. w \in Senders /\ Active(w) /\ snd'[w].msg = snd[w].msg
        BY <1>1, <1>3 DEF Senders, Active
      <3>2. Acking(w) /\ snd[w].msg \in Msg
        BY <3>1, ActiveType DEF PipeSound
      <3>3. PICK q \in Msg : q = snd[w].msg
        BY <3>2
      <3>4. Answering(q)' /\ w = Home(q.t)
        BY <1>5, <3>1, <3>2, <3>3 DEF Acking
      <3> QED
        BY <3>1, <3>3, <3>4
    <2> QED
      BY <2>1, <2>2, <2>3, <2>4, <2>5
  <1>9. \A y \in Senders : Active(y)' => Partly(y)'
    BY <1>2, PutPartly
  <1>10. ASSUME NEW t \in Callers PROVE (Numbered(t) /\ InCall(t) /\ Replied(t))'
    <2>1. Numbered(t)'
      BY <1>2, PutNumbered
    <2>2. InCall(t)'
      <3>1. InCall(t) /\ t \in Senders /\ (Active(t) => snd[t].msg \in Msg)
        BY ActiveType DEF PipeSound, Senders
      <3>2. CASE t # x
        <4>1. snd'[t] = snd[t] /\ caller'[t] = caller[t]
          BY <1>2, <3>1, <3>2 DEF PutEffect
        <4> QED
          BY <1>3, <3>1, <4>1 DEF InCall, Active
      <3>3. CASE t = x
        <4>1. CASE i < Fragments(m)
          <5>1. UNCHANGED caller /\ snd'[t].msg = snd[t].msg
            BY <1>1, <1>2, <3>3, <4>1 DEF PutEffect
          <5> QED
            BY <1>3, <3>1, <3>3, <5>1 DEF InCall
        <4>2. CASE ~(i < Fragments(m))
          <5>1. /\ snd'[t].pc = "off"
                /\ caller'[t].pc = "await" => Job[t].sync
                /\ Job[t].sync => caller'[t].n = caller[t].n
            BY <1>2, <3>3, <4>2 DEF PutEffect
          <5> QED
            BY <1>3, <3>1, <5>1 DEF InCall, Active
        <4> QED
          BY <4>1, <4>2
      <3> QED
        BY <3>2, <3>3
    <2>3. Replied(t)'
      <3> SUFFICES ASSUME reply'[t] # <<>>
                   PROVE  (/\ caller[t].pc = "await" /\ Len(handled[t]) = caller[t].n + 1
                           /\ \A v \in Servers : Active(v) => snd[v].msg.t # t
                           /\ \A v \in Servers : \A k \in 1 .. Len(Pipe(v)) :
                                 Pipe(v)[k].hd.ack => Pipe(v)[k].hd.t # t)'
        BY DEF Replied
      <3>1. /\ caller[t].pc = "await" /\ Len(handled[t]) = caller[t].n + 1
            /\ \A v \in Servers : Active(v) => snd[v].msg.t # t
            /\ \A v \in Servers : \A k \in 1 .. Len(Pipe(v)) : Pipe(v)[k].hd.ack => Pipe(v)[k].hd.t # t
        BY <1>3 DEF PipeSound, Replied
      <3>2. caller'[t] = caller[t]
        BY <1>5, <3>1
      <3>3. \A v \in Servers : Active(v)' => snd'[v].msg.t # t
        BY <1>1, <1>3, <3>1 DEF Senders, Active
      <3>4. m.ack => m.t # t
        BY <1>1, <1>3, <1>7, <3>1
      <3>5. ASSUME NEW v \in Servers, NEW k \in 1 .. Len(Pipe(v)'), Pipe(v)'[k].hd.ack
            PROVE  Pipe(v)'[k].hd.t # t
        BY <1>4, <1>6, <3>1, <3>4, <3>5
      <3> QED
        BY <1>3, <3>1, <3>2, <3>3, <3>5
    <2> QED
      BY <2>1, <2>2, <2>3
  <1>11. OnceEach'
    <2> SUFFICES ASSUME NEW t \in Callers
                 PROVE  (/\ handled[t] = [k \in 1 .. Len(handled[t]) |-> k]
                         /\ \A k \in 1 .. Len(reply[t]) :
                              /\ Whole(reply[t][k])
                              /\ reply[t][k][1].hd = [t |-> t, n |-> caller[t].n + 1, ack |-> TRUE])'
      BY DEF OnceEach
    <2>1. /\ handled[t] = [k \in 1 .. Len(handled[t]) |-> k]
          /\ \A k \in 1 .. Len(reply[t]) :
               /\ Whole(reply[t][k])
               /\ reply[t][k][1].hd = [t |-> t, n |-> caller[t].n + 1, ack |-> TRUE]
      BY DEF PipeSound, OnceEach
    <2>2. ASSUME NEW k \in 1 .. Len(reply[t]) PROVE caller'[t] = caller[t]
      <3>1. reply[t] # <<>>
        BY EmptySeq
      <3> QED
        BY <1>5, <3>1 DEF PipeSound, Replied
    <2> QED
      BY <1>3, <2>1, <2>2 DEF Whole
  <1> QED
    BY <1>8, <1>9, <1>10, <1>11 DEF PipeSound

-----------------------------------------------------------------------------

(* A service is done with the message at the front of its pipe. *)

\* R is the pipe of v without the message that the service has put together.
Rest(v, R) ==
    /\ server[v].pc = "handle" /\ R \in Seq(Copied)
    /\ Len(Pipe(v)) = Len(server[v].got) + Len(R)
    /\ \A k \in 1 .. Len(R) : R[k] = Pipe(v)[k + Len(server[v].got)]

LEMMA DropPipe ==
    ASSUME LinkSound, NEW v \in Servers, ServerAnswer(v) \/ ServerProcess(v)
    PROVE  /\ \E R : Rest(v, R) /\ Pipe(v)' = R
           /\ \A w \in Servers : w # v => Pipe(w)' = Pipe(w)
           /\ server'[v].got = <<>> /\ server'[v].pc \in {"wait", "ack"}
           /\ \A w \in Servers : w # v => server'[w] = server[w]
  <1> DEFINE g == server[v].got
             q == queue[v]
             z == RecvPart(v) \o SlotPart(v)
             R == q \o z
  <1>1. TypeOK
    BY DEF LinkSound
  <1>2. /\ UNCHANGED <<slot, seq, bake, recv, queue>>
        /\ server[v].pc = "handle"
    BY DEF ServerAnswer, ServerProcess, link
  <1>3. \A w \in Servers : SlotPart(w)' = SlotPart(w) /\ RecvPart(w)' = RecvPart(w)
    BY <1>2 DEF SlotPart, InFlight, RecvPart, Carried
  <1>4. /\ server'[v].got = <<>> /\ server'[v].pc \in {"wait", "ack"}
        /\ \A w \in Servers : w # v => server'[w] = server[w]
    <2>1. CASE ServerAnswer(v)
      BY <1>1, <2>1 DEF TypeOK, ServerAnswer
    <2>2. CASE ServerProcess(v)
      BY <1>1, <2>2 DEF TypeOK, ServerProcess
    <2> QED
      BY <2>1, <2>2
  <1>5. g \in Seq(Copied) /\ q \in Seq(Copied) /\ z \in Seq(Copied) /\ Pipe(v) = (g \o q) \o z
    BY PipeParts, ConcatProperties DEF Pipe
  <1>6. Pipe(v)' = (<<>> \o q) \o z
    BY <1>2, <1>3, <1>4 DEF Pipe
  <1>7. \A w \in Servers : w # v => Pipe(w)' = Pipe(w)
    BY <1>2, <1>3, <1>4 DEF Pipe
  <1> HIDE DEF g, q, z
  <1>8. Pipe(v)' = R /\ R \in Seq(Copied)
    BY <1>5, <1>6, ConcatEmptySeq, ConcatProperties
  <1>9. Pipe(v) = g \o R
    BY <1>5, ConcatAssociative
  <1> HIDE DEF R
  <1>10. Len(g) \in Nat /\ Len(R) \in Nat
    BY <1>5, <1>8, LenProperties
  <1>11. /\ Len(Pipe(v)) = Len(g) + Len(R)
         /\ \A k \in 1 .. Len(g) + Len(R) : Pipe(v)[k] = IF k <= Len(g) THEN g[k] ELSE R[k - Len(g)]
    BY <1>5, <1>8, <1>9, ConcatProperties
  <1>12. ASSUME NEW k \in 1 .. Len(R) PROVE R[k] = Pipe(v)[k + Len(g)]
    <2>1. k + Len(g) \in 1 .. Len(g) + Len(R) /\ ~(k + Len(g) <= Len(g)) /\ (k + Len(g)) - Len(g) = k
      BY <1>10
    <2> QED
      BY <1>11, <2>1
  <1>13. Rest(v, R)
    BY <1>2, <1>8, <1>11, <1>12 DEF Rest, g
  <1> QED
    BY <1>4, <1>7, <1>8, <1>13

\* The message that a service has put together.
LEMMA FrontWhole ==
    ASSUME LinkSound, PipeSound, NEW v \in Servers, server[v].pc = "handle"
    PROVE  LET g == server[v].got
               m == g[1].hd
           IN  /\ m \in Msg /\ Len(g) = Fragments(m) /\ Len(g) \in Nat \ {0}
               /\ \A k \in 1 .. Len(g) : Pipe(v)[k] = Piece(m, k) /\ g[k] = Piece(m, k)
               /\ Len(g) <= Len(Pipe(v)) /\ Len(Pipe(v)) \in Nat
               /\ Last(g) = m /\ g[1].data.msg = m /\ Dest(m) = v
               /\ Whole(g)
  <1> DEFINE g == server[v].got
             m == g[1].hd
  <1>1. Collecting(v) /\ Got(v) /\ g \in Seq(Copied) /\ Routed(v, Pipe(v))
    BY PipeParts DEF LinkSound, PipeSound
  <1>2. g # <<>> /\ Len(g) \in Nat \ {0} /\ Len(g) = Fragments(m) /\ Pieces(g)
    BY <1>1, EmptySeq DEF Got, Collecting
  <1>3. m \in Msg
    <2>1. g[1] \in Copied
      BY <1>1, <1>2, ElementOfSeq
    <2> QED
      BY <2>1 DEF Copied
  <1>4. \A k \in 1 .. Len(g) : g[k] = Piece(m, k)
    BY <1>2 DEF Pieces, Piece
  <1>5. Len(g) <= Len(Pipe(v)) /\ Len(Pipe(v)) \in Nat /\ \A k \in 1 .. Len(g) : Pipe(v)[k] = g[k]
    BY PipeFront
  <1>6. g[1].data.msg = m /\ Last(g) = m
    <2>1. 1 \in 1 .. Len(g) /\ Len(g) \in 1 .. Len(g) /\ 1 \in Nat \ {0}
      BY <1>2
    <2>2. g[1] = Piece(m, 1) /\ g[Len(g)] = Piece(m, Len(g))
      BY <1>4, <2>1
    <2> HIDE DEF m
    <2>3. Piece(m, 1).data.msg = m /\ Piece(m, Len(g)).hd = m
      BY <1>2, <1>3, <2>1, PieceType
    <2> QED
      BY <2>2, <2>3 DEF Last
  <1>7. Dest(m) = v
    <2>1. 1 \in 1 .. Len(Pipe(v)) /\ Pipe(v)[1] = g[1]
      BY <1>2, <1>5
    <2> QED
      BY <1>1, <2>1 DEF Routed
  <1>8. Whole(g)
    BY <1>2, <1>4, <1>6 DEF Whole, Piece
  <1> QED
    BY <1>2, <1>3, <1>4, <1>5, <1>6, <1>7, <1>8

\* All of a message that a service has put together is in front, and nobody
\* is sending it any more.
LEMMA RestFacts ==
    ASSUME LinkSound, PipeSound, NEW v \in Servers, NEW R, Rest(v, R), NEW m, m = server[v].got[1].hd
    PROVE  /\ Routed(v, R) /\ Chained(R) /\ Ordered(R)
           /\ \A k \in 1 .. Len(R) : (R[k].hd.t = m.t /\ R[k].hd.ack = m.ack) => R[k].hd.n > m.n
           /\ \A k \in 1 .. Len(R) : \E j \in 1 .. Len(Pipe(v)) : R[k] = Pipe(v)[j]
           /\ \A j \in 1 .. Len(Pipe(v)) : Pipe(v)[j].hd = m \/ \E k \in 1 .. Len(R) : R[k] = Pipe(v)[j]
           /\ \A x \in Senders : Active(x) => snd[x].msg # m
           /\ R # <<>> => Pipe(v) # <<>> /\ R[Len(R)] = Pipe(v)[Len(Pipe(v))]
           /\ (Pipe(v) # <<>> /\ R = <<>>) => Pipe(v)[Len(Pipe(v))].data.msg = m
  <1>1. PICK P, G : P = Pipe(v) /\ G = Len(server[v].got)
    OBVIOUS
  <1>2. /\ R \in Seq(Copied) /\ Len(P) = G + Len(R) /\ \A k \in 1 .. Len(R) : R[k] = P[k + G]
        /\ Len(R) \in Nat /\ P \in Seq(Copied) /\ Len(P) \in Nat
    BY <1>1, PipeParts, LenProperties DEF Rest
  <1>3. /\ m \in Msg /\ G = Fragments(m) /\ G \in Nat \ {0} /\ G <= Len(P)
        /\ \A k \in 1 .. G : P[k] = Piece(m, k)
        /\ Dest(m) = v
    BY <1>1, FrontWhole DEF Rest
  <1>4. Routed(v, P) /\ Chained(P) /\ Ordered(P)
    BY <1>1 DEF PipeSound
  <1>5. \A k \in 1 .. G : P[k].hd = m /\ P[k].data.msg = m /\ P[k].data.i = k
    <2> SUFFICES ASSUME NEW k \in 1 .. G PROVE P[k].hd = m /\ P[k].data.msg = m /\ P[k].data.i = k
      OBVIOUS
    <2>1. k \in Nat \ {0} /\ m \in Msg
      BY <1>3
    <2>2. Piece(m, k).hd = m /\ Piece(m, k).data.msg = m /\ Piece(m, k).data.i = k
      BY <2>1, PieceType, ZenonT(60)
    <2> QED
      BY <1>3, <2>2
  <1>6. \A k \in 1 .. Len(R) : k + G \in 1 .. Len(P) /\ k + G > G
    BY <1>2, <1>3
  <1>7. \A j \in 1 .. Len(P) : j \in 1 .. G \/ (j - G \in 1 .. Len(R) /\ R[j - G] = P[j])
    <2> SUFFICES ASSUME NEW j \in 1 .. Len(P), j \notin 1 .. G PROVE j - G \in 1 .. Len(R) /\ R[j - G] = P[j]
      OBVIOUS
    <2>1. j - G \in 1 .. Len(R) /\ (j - G) + G = j
      BY <1>2, <1>3
    <2> QED
      BY <1>2, <2>1
  <1>8. Routed(v, R)
    BY <1>2, <1>4, <1>6 DEF Routed
  <1>9. Chained(R)
    <2>1. ASSUME R # <<>> PROVE R[1].data.i = 1
      <3>1. Len(R) > 0
        BY <1>2, <2>1, EmptySeq
      <3>2. G \in 1 .. Len(P) - 1 /\ 1 \in 1 .. Len(R) /\ 1 + G = G + 1 /\ G \in 1 .. G
        BY <1>2, <1>3, <3>1
      <3>3. Follows(P[G].data, P[G + 1].data) /\ R[1] = P[G + 1]
        BY <1>2, <1>4, <3>2 DEF Chained
      <3>4. P[G].data.i = G /\ P[G].data.msg = m /\ ~(G < G)
        BY <1>3, <1>5, <3>2
      <3> QED
        BY <1>3, <3>3, <3>4 DEF Follows
    <2>2. ASSUME NEW k \in 1 .. Len(R) - 1 PROVE Follows(R[k].data, R[k + 1].data)
      <3>1. /\ k \in 1 .. Len(R) /\ k + 1 \in 1 .. Len(R) /\ k + G \in 1 .. Len(P) - 1
            /\ (k + 1) + G = (k + G) + 1
        <4>1. Len(R) \in Nat /\ G \in Nat \ {0} /\ Len(P) = G + Len(R) /\ k \in 1 .. Len(R) - 1
          BY <1>2, <1>3
        <4> QED
          BY <4>1
      <3>2. R[k] = P[k + G] /\ R[k + 1] = P[(k + G) + 1]
        BY <1>2, <3>1
      <3>3. Follows(P[k + G].data, P[(k + G) + 1].data)
        BY <1>4, <3>1 DEF Chained
      <3> QED
        BY <3>2, <3>3
    <2> QED
      BY <2>1, <2>2 DEF Chained
  <1>10. Ordered(R)
    <2> SUFFICES ASSUME NEW j \in 1 .. Len(R), NEW k \in 1 .. Len(R), j < k,
                        R[j].hd.t = R[k].hd.t, R[j].hd.ack = R[k].hd.ack
                 PROVE  \/ R[j].hd.n < R[k].hd.n
                        \/ R[j].hd.n = R[k].hd.n /\ R[j].data.i < R[k].data.i
      BY DEF Ordered
    <2>1. R[j] = P[j + G] /\ R[k] = P[k + G] /\ j + G < k + G
      BY <1>2, <1>3
    <2> QED
      BY <1>4, <1>6, <2>1 DEF Ordered
  <1>11. ASSUME NEW k \in 1 .. Len(R), R[k].hd.t = m.t, R[k].hd.ack = m.ack PROVE R[k].hd.n > m.n
    <2>1. G \in 1 .. Len(P) /\ G \in 1 .. G
      BY <1>3
    <2>2. P[G].hd = m /\ P[G].data.i = G
      BY <1>5, <2>1
    <2>3. \/ m.n < R[k].hd.n
          \/ m.n = R[k].hd.n /\ G < R[k].data.i
      BY <1>2, <1>4, <1>6, <1>11, <2>1, <2>2, ZenonT(60) DEF Ordered
    <2>4. R[k] \in Copied
      BY <1>2, ElementOfSeq
    <2>5. R[k].hd \in Msg /\ R[k].data.i \in Nat /\ R[k].hd.n \in Nat /\ m.n \in Nat
      BY <1>3, <2>4 DEF Copied, Fragment, Msg
    <2>6. m.n = R[k].hd.n => R[k].hd = m
      BY <1>3, <1>11, <2>5 DEF Msg
    <2>7. R[k].data.i <= Fragments(R[k].hd)
      BY <1>8 DEF Routed
    <2> QED
      BY <1>3, <2>3, <2>5, <2>6, <2>7
  <1>12. ASSUME NEW x \in Senders, Active(x), snd[x].msg = m PROVE FALSE
    <2>1. Partly(x) /\ Mutex(x) /\ snd[x].i \in Nat
      BY <1>12, ActiveType DEF PipeSound, LinkSound
    <2>2. snd[x].i <= G
      BY <1>3, <1>12, <2>1 DEF Mutex
    <2>3. \A k \in 1 .. Len(P) : P[k].hd = m => P[k].data.i < snd[x].i
      BY <1>1, <1>3, <1>12, <2>1 DEF Partly
    <2>4. G \in 1 .. Len(P) /\ P[G].hd = m /\ P[G].data.i = G
      BY <1>3, <1>5
    <2> QED
      BY <1>3, <2>1, <2>2, <2>3, <2>4
  <1>13. R # <<>> => P # <<>> /\ R[Len(R)] = P[Len(P)]
    <2>1. R # <<>> => Len(R) \in 1 .. Len(R)
      BY <1>2, EmptySeq
    <2>2. Len(R) + G = Len(P) /\ P # <<>>
      BY <1>2, <1>3, EmptySeq
    <2> QED
      BY <1>2, <2>1, <2>2
  <1>14. R = <<>> => P[Len(P)].data.msg = m
    <2>1. R = <<>> => Len(P) = G /\ G \in 1 .. G
      BY <1>2, <1>3, EmptySeq
    <2> QED
      BY <1>5, <2>1
  <1>15. \A k \in 1 .. Len(R) : \E j \in 1 .. Len(P) : R[k] = P[j]
    BY <1>2, <1>6
  <1>16. \A j \in 1 .. Len(P) : P[j].hd = m \/ \E k \in 1 .. Len(R) : R[k] = P[j]
    BY <1>5, <1>7
  <1> QED
    BY <1>1, <1>8, <1>9, <1>10, <1>11, <1>12, <1>13, <1>14, <1>15, <1>16

\* What both ways of finishing a message keep.
LEMMA DropKeeps ==
    ASSUME LinkSound, PipeSound, NEW v \in Servers, NEW R, Rest(v, R), Pipe(v)' = R,
           \A w \in Servers : w # v => Pipe(w)' = Pipe(w),
           \A x \in Senders : Active(x) => snd'[x] = snd[x]
    PROVE  /\ \A w \in Servers : (/\ Routed(w, Pipe(w)) /\ Chained(Pipe(w)) /\ Ordered(Pipe(w))
                                  /\ Unfinished(Pipe(w)))'
           /\ \A x \in Senders : Active(x) => Partly(x)'
           /\ \A w \in Servers : \A k \in 1 .. Len(Pipe(w)') :
                 \E j \in 1 .. Len(Pipe(w)) : Pipe(w)'[k] = Pipe(w)[j]
           /\ \A w \in Servers : \A j \in 1 .. Len(Pipe(w)) :
                 \/ w = v /\ Pipe(w)[j].hd = server[v].got[1].hd
                 \/ \E k \in 1 .. Len(Pipe(w)') : Pipe(w)'[k] = Pipe(w)[j]
  <1>1. PICK m : m = server[v].got[1].hd
    OBVIOUS
  <1>2. /\ Routed(v, R) /\ Chained(R) /\ Ordered(R)
        /\ \A k \in 1 .. Len(R) : \E j \in 1 .. Len(Pipe(v)) : R[k] = Pipe(v)[j]
        /\ \A j \in 1 .. Len(Pipe(v)) : Pipe(v)[j].hd = m \/ \E k \in 1 .. Len(R) : R[k] = Pipe(v)[j]
        /\ \A x \in Senders : Active(x) => snd[x].msg # m
        /\ R # <<>> => Pipe(v) # <<>> /\ R[Len(R)] = Pipe(v)[Len(Pipe(v))]
        /\ (Pipe(v) # <<>> /\ R = <<>>) => Pipe(v)[Len(Pipe(v))].data.msg = m
    BY <1>1, RestFacts
  <1>3. ASSUME NEW w \in Servers
        PROVE  (Routed(w, Pipe(w)) /\ Chained(Pipe(w)) /\ Ordered(Pipe(w)))'
    <2>1. PICK Q : Q = Pipe(w)'
      OBVIOUS
    <2>2. Routed(w, Q) /\ Chained(Q) /\ Ordered(Q)
      <3>1. CASE w = v
        BY <1>2, <2>1, <3>1
      <3>2. CASE w # v
        BY <2>1, <3>2 DEF PipeSound
      <3> QED
        BY <3>1, <3>2
    <2> QED
      BY <2>1, <2>2 DEF Routed, Chained, Ordered
  <1>4. ASSUME NEW w \in Servers PROVE Unfinished(Pipe(w))'
    <2>1. PICK P, Q : P = Pipe(w) /\ Q = Pipe(w)'
      OBVIOUS
    <2>2. Unfinished(P) /\ (Q # <<>> => P # <<>> /\ Q[Len(Q)] = P[Len(P)])
      BY <1>2, <2>1 DEF PipeSound
    <2>3. \A x \in Senders : Active(x) => Active(x)' /\ snd'[x] = snd[x]
      BY DEF Active
    <2>4. Unfinished(Q)'
      <3> SUFFICES ASSUME Q # <<>>, Q[Len(Q)].data.i < Fragments(Q[Len(Q)].hd)
                   PROVE  \E y \in Senders : (/\ Active(y) /\ snd[y].msg = Q[Len(Q)].hd
                                              /\ snd[y].i = Q[Len(Q)].data.i + 1)'
        BY DEF Unfinished
      <3>1. PICK y \in Senders : Active(y) /\ snd[y].msg = P[Len(P)].hd /\ snd[y].i = P[Len(P)].data.i + 1
        BY <2>2 DEF Unfinished
      <3> QED
        BY <2>2, <2>3, <3>1
    <2> QED
      BY <2>1, <2>4
  <1>5. ASSUME NEW x \in Senders, Active(x) PROVE Partly(x)'
    <2>1. Partly(x) /\ snd'[x] = snd[x] /\ Dest(snd[x].msg) \in Servers /\ snd[x].msg # m
      BY <1>2, <1>5, ActiveType, DestType DEF PipeSound
    <2>2. PICK w \in Servers : w = Dest(snd[x].msg)
      BY <2>1
    <2>3. PICK P, Q : P = Pipe(w) /\ Q = Pipe(w)'
      OBVIOUS
    <2>4. /\ w[1] = Peer(CoreOf(x))
          /\ snd[x].i > 1 => P # <<>> /\ P[Len(P)].data = [msg |-> snd[x].msg, i |-> snd[x].i - 1]
          /\ \A k \in 1 .. Len(P) : P[k].hd = snd[x].msg => P[k].data.i < snd[x].i
      BY <2>1, <2>2, <2>3 DEF Partly
    <2>5. \A k \in 1 .. Len(Q) : Q[k].hd = snd[x].msg => Q[k].data.i < snd[x].i
      BY <1>2, <2>3, <2>4
    <2>6. snd[x].i > 1 => Q # <<>> /\ Q[Len(Q)].data = [msg |-> snd[x].msg, i |-> snd[x].i - 1]
      <3>1. snd[x].i > 1 => P[Len(P)].data.msg # m
        BY <2>1, <2>4
      <3> QED
        BY <1>2, <2>3, <2>4, <3>1
    <2>7. w = Dest(snd'[x].msg) /\ snd'[x].msg = snd[x].msg /\ snd'[x].i = snd[x].i
      BY <2>1, <2>2
    <2> QED
      BY <2>3, <2>4, <2>5, <2>6, <2>7 DEF Partly
  <1>6. ASSUME NEW w \in Servers, NEW k \in 1 .. Len(Pipe(w)')
        PROVE  \E j \in 1 .. Len(Pipe(w)) : Pipe(w)'[k] = Pipe(w)[j]
    BY <1>2
  <1>7. ASSUME NEW w \in Servers, NEW j \in 1 .. Len(Pipe(w))
        PROVE  \/ w = v /\ Pipe(w)[j].hd = m
               \/ \E k \in 1 .. Len(Pipe(w)') : Pipe(w)'[k] = Pipe(w)[j]
    BY <1>2
  <1> QED
    BY <1>1, <1>3, <1>4, <1>5, <1>6, <1>7

\* Numbered survives when the front message is not a request of t.
LEMMA DropNumbered ==
    ASSUME LinkSound, PipeSound, NEW v \in Servers, NEW R, Rest(v, R), Pipe(v)' = R,
           \A w \in Servers : w # v => Pipe(w)' = Pipe(w),
           \A x \in Senders : Active(x) => snd'[x] = snd[x],
           NEW t \in Callers, UNCHANGED caller, handled'[t] = handled[t], snd'[t] = snd[t],
           server[v].got[1].hd.t # t \/ server[v].got[1].hd.ack
    PROVE  Numbered(t)'
  <1>1. PICK m, P, Q : m = server[v].got[1].hd /\ P = Pipe(Home(t)) /\ Q = Pipe(Home(t))'
    OBVIOUS
  <1>2. /\ \A k \in 1 .. Len(Q) : \E j \in 1 .. Len(P) : Q[k] = P[j]
        /\ \A j \in 1 .. Len(P) : P[j].hd = m \/ \E k \in 1 .. Len(Q) : Q[k] = P[j]
    <2>1. PICK w \in Servers : w = Home(t)
      BY HomeType
    <2>2. /\ \A k \in 1 .. Len(Pipe(w)') : \E j \in 1 .. Len(Pipe(w)) : Pipe(w)'[k] = Pipe(w)[j]
          /\ \A j \in 1 .. Len(Pipe(w)) : \/ w = v /\ Pipe(w)[j].hd = server[v].got[1].hd
                                         \/ \E k \in 1 .. Len(Pipe(w)') : Pipe(w)'[k] = Pipe(w)[j]
      BY DropKeeps
    <2>3. P = Pipe(w) /\ Q = Pipe(w)'
      BY <1>1, <2>1
    <2> QED
      BY <1>1, <2>2, <2>3
  <1>3. /\ handled[t] = [i \in 1 .. Len(handled[t]) |-> i]
        /\ Len(handled[t]) <= Begun(t)
        /\ \A k \in 1 .. Len(P) : (P[k].hd.t = t /\ ~P[k].hd.ack) =>
              Len(handled[t]) < P[k].hd.n /\ P[k].hd.n <= Begun(t)
        /\ \A n \in Len(handled[t]) + 1 .. Begun(t) :
              \E k \in 1 .. Len(P) : P[k].hd = [t |-> t, n |-> n, ack |-> FALSE]
    BY <1>1 DEF PipeSound, Numbered
  <1>4. Begun(t)' = Begun(t)
    BY DEF Begun
  <1>5. \A k \in 1 .. Len(Q) : (Q[k].hd.t = t /\ ~Q[k].hd.ack) =>
           Len(handled[t]) < Q[k].hd.n /\ Q[k].hd.n <= Begun(t)
    BY <1>2, <1>3
  <1>6. ASSUME NEW n \in Len(handled[t]) + 1 .. Begun(t)
        PROVE  \E k \in 1 .. Len(Q) : Q[k].hd = [t |-> t, n |-> n, ack |-> FALSE]
    <2>1. PICK j \in 1 .. Len(P) : P[j].hd = [t |-> t, n |-> n, ack |-> FALSE]
      BY <1>3
    <2>2. P[j].hd.t = t /\ ~P[j].hd.ack
      BY <2>1
    <2>3. P[j].hd # m
      BY <1>1, <2>2
    <2> QED
      BY <1>2, <2>1, <2>3
  <1> QED
    BY <1>1, <1>3, <1>4, <1>5, <1>6 DEF Numbered

\* A service without a message has nothing to collect.
LEMMA DropCollecting ==
    ASSUME PipeSound, NEW v \in Servers, server'[v].got = <<>>, server'[v].pc \in {"wait", "ack"},
           \A w \in Servers : w # v => server'[w] = server[w]
    PROVE  \A w \in Servers : Collecting(w)'
  <1>1. Collecting(v)'
    <2>1. Len(<<>>) = 0
      BY EmptySeq
    <2>2. Pieces(<<>>)
      BY <2>1 DEF Pieces
    <2> QED
      BY <2>1, <2>2 DEF Collecting, Pieces
  <1> QED
    BY <1>1 DEF PipeSound, Collecting, Pieces

\* The messages in the pipes, and the answers among them.
LEMMA AckInPipe ==
    ASSUME LinkSound, PipeSound, NEW w \in Servers, NEW k \in 1 .. Len(Pipe(w))
    PROVE  /\ Pipe(w)[k] \in Copied /\ Pipe(w)[k].hd \in Msg /\ Dest(Pipe(w)[k].hd) = w
           /\ Pipe(w)[k].hd.ack => Answering(Pipe(w)[k].hd)
  <1>1. Pipe(w)[k] \in Copied
    BY PipeParts, ElementOfSeq
  <1> QED
    BY <1>1 DEF Copied, PipeSound, Routed

\* There is one answer to a caller at a time.
LEMMA OneAnswer ==
    ASSUME NEW p \in Msg, NEW q \in Msg, Answering(p), Answering(q), p.t = q.t
    PROVE  p = q
  <1>1. p.n = q.n /\ p.ack = q.ack
    BY DEF Answering, Msg
  <1> QED
    BY <1>1 DEF Msg

LEMMA AnswerInv ==
    ASSUME LinkSound, PipeSound, NEW v \in Servers, ServerAnswer(v)
    PROVE  PipeSound'
  <1>1. PICK g, m, t : g = server[v].got /\ m = g[1].hd /\ t = m.t
    OBVIOUS
  <1>2. server[v].pc = "handle" /\ Last(g).ack /\ UNCHANGED <<snd, caller, handled>>
    BY <1>1 DEF ServerAnswer
  <1>3. /\ m \in Msg /\ Last(g) = m /\ g[1].data.msg = m /\ Dest(m) = v /\ Whole(g)
        /\ 1 \in 1 .. Len(Pipe(v)) /\ Pipe(v)[1].hd = m /\ t \in Callers
    <2>1. /\ m \in Msg /\ Last(g) = m /\ g[1].data.msg = m /\ Dest(m) = v /\ Whole(g)
          /\ Len(g) \in Nat \ {0} /\ Len(g) <= Len(Pipe(v)) /\ Len(Pipe(v)) \in Nat
          /\ \A k \in 1 .. Len(g) : Pipe(v)[k] = Piece(m, k) /\ g[k] = Piece(m, k)
      BY <1>1, <1>2, FrontWhole
    <2>2. 1 \in 1 .. Len(g) /\ 1 \in 1 .. Len(Pipe(v))
      BY <2>1
    <2>3. Pipe(v)[1] = g[1]
      BY <2>1, <2>2
    <2> QED
      BY <1>1, <2>1, <2>2, <2>3 DEF Msg
  <1>4. m.ack /\ Answering(m) /\ caller[t].pc = "await" /\ m.n = caller[t].n + 1 /\ Len(handled[t]) = m.n
    <2>1. m.ack
      BY <1>2, <1>3
    <2>2. Answering(Pipe(v)[1].hd)
      BY <1>3, <2>1, AckInPipe
    <2>3. Answering(m)
      BY <1>3, <2>2
    <2> QED
      BY <1>1, <2>1, <2>3 DEF Answering
  <1>5. PICK R : Rest(v, R) /\ Pipe(v)' = R
    BY DropPipe
  <1>6. /\ \A w \in Servers : w # v => Pipe(w)' = Pipe(w)
        /\ server'[v].got = <<>> /\ server'[v].pc \in {"wait", "ack"}
        /\ \A w \in Servers : w # v => server'[w] = server[w]
    BY DropPipe
  <1>7. \A x \in Senders : snd'[x] = snd[x] /\ (Active(x)' <=> Active(x))
    BY <1>2 DEF Active
  <1>8. /\ \A w \in Servers : (/\ Routed(w, Pipe(w)) /\ Chained(Pipe(w)) /\ Ordered(Pipe(w))
                               /\ Unfinished(Pipe(w)))'
        /\ \A x \in Senders : Active(x) => Partly(x)'
        /\ \A w \in Servers : \A k \in 1 .. Len(Pipe(w)') :
              \E j \in 1 .. Len(Pipe(w)) : Pipe(w)'[k] = Pipe(w)[j]
    BY <1>5, <1>6, <1>7, DropKeeps
  <1>9. \A q : Answering(q)' <=> Answering(q)
    BY <1>2 DEF Answering
  <1>10. ASSUME NEW w \in Servers
         PROVE  (/\ \A k \in 1 .. Len(Pipe(w)) : Pipe(w)[k].hd.ack => Answering(Pipe(w)[k].hd)
                 /\ Acking(w))'
    <2>1. ASSUME NEW k \in 1 .. Len(Pipe(w)'), Pipe(w)'[k].hd.ack PROVE Answering(Pipe(w)[k].hd)'
      <3>1. PICK j \in 1 .. Len(Pipe(w)) : Pipe(w)'[k] = Pipe(w)[j]
        BY <1>8
      <3>2. PICK q : q = Pipe(w)[j].hd
        OBVIOUS
      <3>3. Answering(q)'
        BY <1>9, <2>1, <3>1, <3>2, AckInPipe
      <3> QED
        BY <3>1, <3>2, <3>3
    <2>2. Acking(w)'
      BY <1>2, <1>7 DEF PipeSound, Acking, Answering, Senders
    <2> QED
      BY <2>1, <2>2
  <1>11. \A w \in Servers : Collecting(w)'
    BY <1>6, DropCollecting
  \* The answer is taken into the caller's queue, which is empty.
  <1>12. reply[t] = <<>>
    BY <1>1, <1>3, <1>4, ZenonT(60) DEF PipeSound, Replied
  <1>13. reply'[t] = <<g>> /\ \A u \in Callers : u # t => reply'[u] = reply[u]
    <2>1. reply \in [Callers -> Seq(Seq(Copied))]
      BY DEF LinkSound, TypeOK
    <2>2. Len(reply[t]) < 2 /\ caller[t].pc # "idle"
      BY <1>4, <1>12, EmptySeq
    <2>3. server[v].got[1].data.msg.t = t
      BY <1>1, <1>3
    <2>4. reply' = [reply EXCEPT ![t] = Append(@, g)]
      BY <1>1, <2>2, <2>3 DEF ServerAnswer
    <2>5. Append(<<>>, g) = <<g>>
      OBVIOUS
    <2> QED
      BY <1>3, <1>12, <2>1, <2>4, <2>5
  <1>14. ASSUME NEW u \in Callers PROVE (Numbered(u) /\ InCall(u) /\ Replied(u))'
    <2>1. Numbered(u)'
      BY <1>1, <1>2, <1>4, <1>5, <1>6, <1>7, DropNumbered
    <2>2. InCall(u)'
      BY <1>2 DEF PipeSound, InCall, Active
    <2>3. CASE u # t
      <3>1. Replied(u) /\ reply'[u] = reply[u]
        BY <1>13, <2>3 DEF PipeSound
      <3>2. Replied(u)'
        BY <1>2, <1>7, <1>8, <3>1, SMTT(30) DEF Replied, Senders
      <3> QED
        BY <2>1, <2>2, <3>2
    <2>4. CASE u = t
      <3>1. caller'[t].pc = "await" /\ Len(handled'[t]) = caller'[t].n + 1
        BY <1>2, <1>4
      <3>2. \A k \in 1 .. Len(R) : (R[k].hd.t = m.t /\ R[k].hd.ack = m.ack) => R[k].hd.n > m.n
        BY <1>1, <1>5, RestFacts
      <3>3. \A x \in Senders : Active(x) => snd[x].msg # m
        BY <1>1, <1>5, RestFacts
      <3>4. ASSUME NEW w \in Servers, Active(w)' PROVE snd'[w].msg.t # t
        <4>1. w \in Senders /\ Active(w) /\ snd'[w] = snd[w]
          BY <1>7, <3>4 DEF Senders
        <4>2. Answering(snd[w].msg) /\ snd[w].msg \in Msg
          BY <4>1, ActiveType DEF PipeSound, Acking
        <4> QED
          BY <1>1, <1>3, <1>4, <3>3, <4>1, <4>2, OneAnswer, SMTT(30)
      <3>5. ASSUME NEW w \in Servers, NEW k \in 1 .. Len(Pipe(w)'), Pipe(w)'[k].hd.ack
            PROVE  Pipe(w)'[k].hd.t # t
        <4>1. SUFFICES ASSUME Pipe(w)'[k].hd.t = t PROVE FALSE
          OBVIOUS
        <4>2. PICK j \in 1 .. Len(Pipe(w)) : Pipe(w)'[k] = Pipe(w)[j]
          BY <1>8
        <4>3. Pipe(w)[j].hd = m /\ Dest(Pipe(w)[j].hd) = w
          BY <1>1, <1>3, <1>4, <3>5, <4>1, <4>2, AckInPipe, OneAnswer, SMTT(30)
        <4>4. w = v
          BY <1>3, <4>3
        <4>5. k \in 1 .. Len(R) /\ R[k].hd = m
          BY <1>5, <4>2, <4>3, <4>4
        <4>6. m.n > m.n /\ m.n \in Nat
          BY <1>3, <3>2, <4>5 DEF Msg
        <4> QED
          BY <4>6
      <3>6. Replied(u)'
        BY <2>4, <3>1, <3>4, <3>5 DEF Replied
      <3> QED
        BY <2>1, <2>2, <3>6
    <2> QED
      BY <2>3, <2>4
  <1>15. OnceEach'
    <2>1. OnceEach
      BY DEF PipeSound
    <2>2. ASSUME NEW u \in Callers
          PROVE  (/\ handled[u] = [k \in 1 .. Len(handled[u]) |-> k]
                  /\ \A k \in 1 .. Len(reply[u]) :
                       /\ Whole(reply[u][k])
                       /\ reply[u][k][1].hd = [t |-> u, n |-> caller[u].n + 1, ack |-> TRUE])'
      <3>1. CASE u # t
        <4>1. reply'[u] = reply[u] /\ handled'[u] = handled[u] /\ caller'[u] = caller[u]
          BY <1>2, <1>13, <3>1
        <4>2. /\ handled[u] = [k \in 1 .. Len(handled[u]) |-> k]
              /\ \A k \in 1 .. Len(reply[u]) :
                   /\ Whole(reply[u][k])
                   /\ reply[u][k][1].hd = [t |-> u, n |-> caller[u].n + 1, ack |-> TRUE]
          BY <2>1 DEF OnceEach
        <4> QED
          BY <4>1, <4>2
      <3>2. CASE u = t
        <4>1. m = [t |-> t, n |-> caller[t].n + 1, ack |-> TRUE]
          BY <1>1, <1>3, <1>4 DEF Msg
        <4>2. \A k \in 1 .. Len(<<g>>) : <<g>>[k] = g
          OBVIOUS
        <4>3. \A k \in 1 .. Len(reply'[t]) : reply'[t][k] = g
          BY <1>13, <4>2
        <4>4. g[1].hd = [t |-> t, n |-> caller'[t].n + 1, ack |-> TRUE] /\ Whole(g)'
          BY <1>1, <1>2, <1>3, <4>1 DEF Whole
        <4>5. handled'[t] = [k \in 1 .. Len(handled'[t]) |-> k]
          BY <1>2, <1>3, <2>1 DEF OnceEach
        <4> QED
          BY <3>2, <4>3, <4>4, <4>5 DEF Whole
      <3> QED
        BY <3>1, <3>2
    <2> QED
      BY <2>2 DEF OnceEach
  <1>16. \A x \in Senders : Active(x)' => Partly(x)'
    BY <1>7, <1>8
  <1> QED
    BY <1>8, <1>10, <1>11, <1>14, <1>15, <1>16 DEF PipeSound

\* The request that a service has put together is the next one of its caller,
\* and there is no answer to that caller anywhere.
LEMMA NextRequest ==
    ASSUME LinkSound, PipeSound, NEW v \in Servers, NEW R, Rest(v, R), ~server[v].got[1].hd.ack
    PROVE  LET m == server[v].got[1].hd
               t == m.t
               H == Len(handled[t])
           IN
           /\ m \in Msg /\ t \in Callers /\ H \in Nat /\ m.n = H + 1 /\ m.n <= Begun(t)
           /\ v = Home(t)
           /\ \A k \in 1 .. Len(R) : (R[k].hd.t = t /\ ~R[k].hd.ack) => R[k].hd.n > H + 1
           /\ \A q \in Msg : Answering(q) => q.t # t
           /\ reply[t] = <<>>
           /\ Job[t].sync => caller[t].pc = "await" /\ m.n = caller[t].n + 1
  <1>1. PICK m, t, H, P : /\ P = Pipe(v) /\ m = server[v].got[1].hd /\ t = m.t
                          /\ H = Len(handled[t]) /\ ~m.ack
    OBVIOUS
  <1>2. /\ m \in Msg /\ Dest(m) = v
        /\ Len(server[v].got) \in Nat \ {0} /\ Len(server[v].got) <= Len(P) /\ Len(P) \in Nat
        /\ \A k \in 1 .. Len(server[v].got) : P[k] = Piece(m, k)
    BY <1>1, FrontWhole DEF Rest
  <1>3. t \in Callers /\ v = Home(t) /\ H \in Nat /\ m.n \in Nat
    <2>1. t \in Callers /\ m.n \in Nat
      BY <1>1, <1>2 DEF Msg
    <2>2. v = Home(t)
      BY <1>1, <1>2 DEF Dest, Home
    <2>3. handled[t] \in Seq(Nat)
      BY <2>1 DEF LinkSound, TypeOK
    <2> QED
      BY <1>1, <2>1, <2>2, <2>3, LenProperties
  <1>4. 1 \in 1 .. Len(P) /\ P[1].hd = m
    <2>1. 1 \in 1 .. Len(server[v].got) /\ 1 \in 1 .. Len(P) /\ 1 \in Nat \ {0}
      BY <1>2
    <2>2. Piece(m, 1).hd = m
      BY <1>2, <2>1, PieceType
    <2> QED
      BY <1>2, <2>1, <2>2
  <1>5. /\ H <= Begun(t)
        /\ \A k \in 1 .. Len(P) : (P[k].hd.t = t /\ ~P[k].hd.ack) => H < P[k].hd.n /\ P[k].hd.n <= Begun(t)
        /\ \A n \in H + 1 .. Begun(t) : \E k \in 1 .. Len(P) : P[k].hd = [t |-> t, n |-> n, ack |-> FALSE]
    <2>1. Numbered(t) /\ P = Pipe(Home(t))
      BY <1>1, <1>3 DEF PipeSound
    <2>2. H = Len(handled[t])
      BY <1>1
    <2> QED
      BY <2>1, <2>2 DEF Numbered
  <1>6. caller[t].n \in Nat /\ Begun(t) \in Nat /\ caller[t].n <= Begun(t) /\ Begun(t) <= caller[t].n + 1
    BY <1>3, BegunIs
  <1>7. H < m.n /\ m.n <= Begun(t)
    BY <1>1, <1>4, <1>5
  <1>8. m.n = H + 1
    <2>1. SUFFICES ASSUME m.n # H + 1 PROVE FALSE
      OBVIOUS
    <2>2. H + 1 \in H + 1 .. Begun(t) /\ H + 1 < m.n
      BY <1>3, <1>6, <1>7, <2>1
    <2>3. PICK k \in 1 .. Len(P) : P[k].hd = [t |-> t, n |-> H + 1, ack |-> FALSE]
      BY <1>5, <2>2
    <2>4. P[k].hd.t = t /\ P[k].hd.n = H + 1 /\ ~P[k].hd.ack
      BY <2>3
    <2>5. k # 1 /\ 1 < k
      BY <1>2, <1>4, <2>1, <2>4
    <2>6. Ordered(P)
      BY <1>1 DEF PipeSound
    <2>7. P[1].hd.t = P[k].hd.t /\ P[1].hd.ack = P[k].hd.ack /\ P[1].hd.n = m.n
      <3>1. m.ack = FALSE /\ P[k].hd.ack = FALSE
        BY <1>1, <1>2, <2>3 DEF Msg
      <3> QED
        BY <1>1, <1>4, <2>4, <3>1
    <2>8. m.n <= H + 1
      BY <1>3, <1>4, <2>4, <2>5, <2>6, <2>7 DEF Ordered
    <2> QED
      BY <1>3, <2>2, <2>8
  <1>9. ASSUME NEW k \in 1 .. Len(R), R[k].hd.t = t, ~R[k].hd.ack PROVE R[k].hd.n > H + 1
    <2>1. R \in Seq(Copied)
      BY DEF Rest
    <2>2. R[k] \in Copied
      BY <2>1, ElementOfSeq
    <2>3. R[k].hd.ack = m.ack
      BY <1>1, <1>2, <1>9, <2>2 DEF Copied, Msg
    <2>4. \A j \in 1 .. Len(R) : (R[j].hd.t = m.t /\ R[j].hd.ack = m.ack) => R[j].hd.n > m.n
      BY <1>1, RestFacts
    <2> QED
      BY <1>1, <1>8, <1>9, <2>3, <2>4
  <1>10. ASSUME NEW q \in Msg, Answering(q), q.t = t PROVE FALSE
    <2>1. H = caller[t].n + 1
      BY <1>1, <1>10 DEF Answering
    <2> QED
      BY <1>3, <1>6, <1>7, <2>1
  <1>11. reply[t] = <<>>
    <2>1. SUFFICES ASSUME reply[t] # <<>> PROVE FALSE
      OBVIOUS
    <2>2. H = caller[t].n + 1
      BY <1>1, <1>3, <2>1 DEF PipeSound, Replied
    <2> QED
      BY <1>3, <1>6, <1>7, <2>2
  <1>12. ASSUME Job[t].sync PROVE caller[t].pc = "await" /\ m.n = caller[t].n + 1
    <2>1. caller[t].n <= H
      BY <1>1, <1>3, <1>12 DEF PipeSound, InCall
    <2>2. m.n = caller[t].n + 1 /\ Begun(t) = caller[t].n + 1
      BY <1>3, <1>6, <1>7, <1>8, <2>1
    <2>3. Begun(t) # caller[t].n
      BY <1>6, <2>2
    <2>4. caller[t].pc = "await" \/ caller[t].pc = "send"
      BY <2>3 DEF Begun
    <2>5. caller[t].pc # "send"
      <3>1. SUFFICES ASSUME caller[t].pc = "send" PROVE FALSE
        OBVIOUS
      <3>2. Active(t)
        BY <1>3, <3>1 DEF LinkSound, Busy, Senders
      <3>3. snd[t].msg = [t |-> t, n |-> caller[t].n + 1, ack |-> FALSE]
        BY <1>3, <3>2 DEF PipeSound, InCall
      <3>4. m = [t |-> t, n |-> caller[t].n + 1, ack |-> FALSE]
        BY <1>1, <1>2, <2>2 DEF Msg
      <3>5. \A x \in Senders : Active(x) => snd[x].msg # m
        BY <1>1, RestFacts
      <3> QED
        BY <1>3, <3>2, <3>3, <3>4, <3>5 DEF Senders
    <2> QED
      BY <2>2, <2>4, <2>5
  <1> QED
    BY <1>1, <1>2, <1>3, <1>7, <1>8, <1>9, <1>10, <1>11, <1>12

\* A request is processed, and R is left in the pipe.
Processed(v, R) == LET m == server[v].got[1].hd IN
    /\ Rest(v, R) /\ Pipe(v)' = R /\ ~m.ack
    /\ UNCHANGED caller /\ snd'[m.t] = snd[m.t]
    /\ handled'[m.t] = Append(handled[m.t], m.n)

\* The request is the last one processed from now on.
LEMMA ProcessNumbered ==
    ASSUME LinkSound, PipeSound, NEW v \in Servers, NEW R, Processed(v, R)
    PROVE  \A t : t = server[v].got[1].hd.t =>
              /\ Numbered(t)' /\ Len(handled'[t]) = Len(handled[t]) + 1
              /\ handled'[t] = [i \in 1 .. Len(handled'[t]) |-> i]
  <1>1. PICK m, t, H, P : /\ m = server[v].got[1].hd /\ t = m.t /\ ~m.ack
                          /\ H = Len(handled[t]) /\ P = Pipe(v)
                          /\ Rest(v, R) /\ R = Pipe(v)'
                          /\ UNCHANGED caller /\ snd'[t] = snd[t]
                          /\ handled'[t] = Append(handled[t], m.n)
    BY DEF Processed
  <1>2. /\ m \in Msg /\ t \in Callers /\ H \in Nat /\ m.n = H + 1 /\ m.n <= Begun(t)
        /\ v = Home(t)
        /\ \A k \in 1 .. Len(R) : (R[k].hd.t = t /\ ~R[k].hd.ack) => R[k].hd.n > H + 1
    BY <1>1, NextRequest
  <1>3. Begun(t)' = Begun(t) /\ Begun(t) \in Nat
    BY <1>1, <1>2, BegunIs DEF Begun
  <1>4. Numbered(t) /\ P = Pipe(Home(t)) /\ R = Pipe(Home(t))'
    BY <1>1, <1>2 DEF PipeSound
  <1>5. /\ handled[t] = [i \in 1 .. H |-> i]
        /\ \A k \in 1 .. Len(P) : (P[k].hd.t = t /\ ~P[k].hd.ack) => P[k].hd.n <= Begun(t)
        /\ \A n \in H + 1 .. Begun(t) : \E k \in 1 .. Len(P) : P[k].hd = [t |-> t, n |-> n, ack |-> FALSE]
    <2>1. H = Len(handled[t])
      BY <1>1
    <2> QED
      BY <1>4, <2>1 DEF Numbered
  <1>6. /\ \A k \in 1 .. Len(R) : \E j \in 1 .. Len(P) : R[k] = P[j]
        /\ \A j \in 1 .. Len(P) : P[j].hd = m \/ \E k \in 1 .. Len(R) : R[k] = P[j]
    <2>1. Rest(v, R) /\ m = server[v].got[1].hd
      BY <1>1
    <2>2. /\ \A k \in 1 .. Len(R) : \E j \in 1 .. Len(Pipe(v)) : R[k] = Pipe(v)[j]
          /\ \A j \in 1 .. Len(Pipe(v)) : Pipe(v)[j].hd = m \/ \E k \in 1 .. Len(R) : R[k] = Pipe(v)[j]
      BY <2>1, RestFacts
    <2> QED
      BY <1>1, <2>2
  <1>7. Len(handled'[t]) = H + 1 /\ handled'[t] = [i \in 1 .. H + 1 |-> i]
    <2>1. handled[t] \in Seq(Nat) /\ H = Len(handled[t]) /\ handled'[t] = Append(handled[t], H + 1)
      BY <1>1, <1>2 DEF LinkSound, TypeOK
    <2>2. PICK s : s = handled[t]
      OBVIOUS
    <2>3. s \in Seq(Nat) /\ Len(s) = H /\ \A i \in 1 .. H : s[i] = i
      <3>1. s = [i \in 1 .. H |-> i]
        BY <1>5, <2>2
      <3> QED
        BY <2>1, <2>2, <3>1
    <2>4. H + 1 \in Nat
      BY <1>2
    <2>5. /\ Append(s, H + 1) \in Seq(Nat) /\ Len(Append(s, H + 1)) = H + 1
          /\ \A i \in 1 .. H : Append(s, H + 1)[i] = s[i]
          /\ Append(s, H + 1)[H + 1] = H + 1
      BY <2>3, <2>4, AppendProperties
    <2>6. \A i \in 1 .. H + 1 : Append(s, H + 1)[i] = i
      <3> SUFFICES ASSUME NEW i \in 1 .. H + 1 PROVE Append(s, H + 1)[i] = i
        OBVIOUS
      <3>1. i \in 1 .. H \/ i = H + 1
        BY <1>2
      <3> QED
        BY <2>3, <2>5, <3>1
    <2>7. Append(s, H + 1) = [i \in 1 .. H + 1 |-> i]
      <3>1. PICK a : a = Append(s, H + 1)
        OBVIOUS
      <3>2. a \in Seq(Nat) /\ Len(a) = H + 1 /\ \A i \in 1 .. H + 1 : a[i] = i
        BY <2>5, <2>6, <3>1
      <3>3. a = [i \in 1 .. Len(a) |-> a[i]]
        BY <3>2
      <3> QED
        BY <3>1, <3>2, <3>3
    <2> QED
      BY <2>1, <2>2, <2>5, <2>7
  <1>8. ASSUME NEW k \in 1 .. Len(R), R[k].hd.t = t, ~R[k].hd.ack
        PROVE  H + 1 < R[k].hd.n /\ R[k].hd.n <= Begun(t)
    <2>1. R[k].hd.n > H + 1
      BY <1>2, <1>8
    <2>2. R[k].hd.n <= Begun(t)
      BY <1>5, <1>6, <1>8
    <2> QED
      BY <2>1, <2>2
  <1>9. ASSUME NEW n \in (H + 1) + 1 .. Begun(t)
        PROVE  \E k \in 1 .. Len(R) : R[k].hd = [t |-> t, n |-> n, ack |-> FALSE]
    <2>1. n \in H + 1 .. Begun(t) /\ n # H + 1
      BY <1>2, <1>3
    <2>2. PICK j \in 1 .. Len(P) : P[j].hd = [t |-> t, n |-> n, ack |-> FALSE]
      BY <1>5, <2>1
    <2>3. P[j].hd.n = n
      BY <2>2
    <2>4. P[j].hd # m
      BY <1>2, <2>1, <2>3
    <2> QED
      BY <1>6, <2>2, <2>4
  <1>10. Numbered(t)'
    <2>1. H + 1 <= Begun(t)
      BY <1>2
    <2> QED
      BY <1>3, <1>4, <1>7, <1>8, <1>9, <2>1 DEF Numbered
  <1> QED
    BY <1>1, <1>7, <1>10

\* What ServerProcess does, for request m.
LEMMA ProcessIs ==
    ASSUME LinkSound, PipeSound, NEW v \in Servers, ServerProcess(v)
    PROVE  LET m == server[v].got[1].hd IN
           /\ \E R : Processed(v, R)
           /\ UNCHANGED <<caller, reply>>
           /\ \A u \in Callers : u # m.t => handled'[u] = handled[u]
           /\ \A x \in Senders : x # v => snd'[x] = snd[x]
           /\ ~Active(v)
           /\ IF Job[m.t].sync THEN snd'[v] = Started([m EXCEPT !.ack = TRUE]) ELSE snd'[v] = snd[v]
  <1>1. PICK m, t : m = server[v].got[1].hd /\ t = m.t
    OBVIOUS
  <1>2. server[v].pc = "handle" /\ m \in Msg /\ Last(server[v].got) = m
    <2>1. server[v].pc = "handle"
      BY DEF ServerProcess
    <2> QED
      BY <1>1, <2>1, FrontWhole
  <1>3. t \in Callers /\ v \in Senders /\ t # v /\ t \in Senders
    BY <1>1, <1>2, IPCAssumption DEF Msg, Senders, Servers
  <1>4. /\ ~m.ack /\ UNCHANGED <<caller, reply>>
        /\ handled' = [handled EXCEPT ![t] = Append(@, m.n)]
        /\ IF Job[t].sync THEN snd' = [snd EXCEPT ![v] = Started([m EXCEPT !.ack = TRUE])] ELSE UNCHANGED snd
    BY <1>1, <1>2 DEF ServerProcess
  <1>5. snd \in [Senders -> {Idle} \cup Sending] /\ handled \in [Callers -> Seq(Nat)]
    BY DEF LinkSound, TypeOK
  <1>6. /\ \A x \in Senders : x # v => snd'[x] = snd[x]
        /\ IF Job[t].sync THEN snd'[v] = Started([m EXCEPT !.ack = TRUE]) ELSE snd'[v] = snd[v]
    BY <1>3, <1>4, <1>5
  <1>7. handled'[t] = Append(handled[t], m.n) /\ \A u \in Callers : u # t => handled'[u] = handled[u]
    BY <1>3, <1>4, <1>5
  <1>8. ~Active(v)
    <2>1. v \notin Callers
      BY IPCAssumption DEF Servers
    <2> QED
      BY <1>2, <1>3, <2>1 DEF LinkSound, Busy
  <1>9. PICK R : Rest(v, R) /\ Pipe(v)' = R
    BY DropPipe
  <1>10. Processed(v, R)
    BY <1>1, <1>3, <1>4, <1>6, <1>7, <1>9 DEF Processed
  <1> QED
    BY <1>1, <1>4, <1>6, <1>7, <1>8, <1>10

LEMMA ProcessInv ==
    ASSUME LinkSound, PipeSound, NEW v \in Servers, ServerProcess(v)
    PROVE  PipeSound'
  <1>1. PICK m, t, R, H : /\ m = server[v].got[1].hd /\ t = m.t /\ Processed(v, R)
                          /\ H = Len(handled[t])
    BY ProcessIs
  <1>2. /\ UNCHANGED <<caller, reply>>
        /\ \A u \in Callers : u # t => handled'[u] = handled[u]
        /\ \A x \in Senders : x # v => snd'[x] = snd[x]
        /\ ~Active(v)
        /\ IF Job[t].sync THEN snd'[v] = Started([m EXCEPT !.ack = TRUE]) ELSE snd'[v] = snd[v]
    BY <1>1, ProcessIs
  <1>3. Rest(v, R) /\ Pipe(v)' = R /\ ~m.ack
    BY <1>1 DEF Processed
  <1>4. /\ \A w \in Servers : w # v => Pipe(w)' = Pipe(w)
        /\ server'[v].got = <<>> /\ server'[v].pc \in {"wait", "ack"}
        /\ \A w \in Servers : w # v => server'[w] = server[w]
    BY DropPipe
  <1>5. /\ m \in Msg /\ t \in Callers /\ m.n = H + 1 /\ v = Home(t) /\ H \in Nat
        /\ \A q \in Msg : Answering(q) => q.t # t
        /\ reply[t] = <<>>
        /\ Job[t].sync => caller[t].pc = "await" /\ m.n = caller[t].n + 1
    BY <1>1, <1>3, NextRequest
  <1>6. Numbered(t)' /\ Len(handled'[t]) = H + 1 /\ handled'[t] = [i \in 1 .. Len(handled'[t]) |-> i]
    BY <1>1, ProcessNumbered
  <1>7. /\ v \in Senders /\ \A u \in Callers : u \in Senders /\ u # v /\ snd'[u] = snd[u]
        /\ \A x \in Senders : Active(x) => snd'[x] = snd[x] /\ Active(x)'
    BY <1>2, IPCAssumption DEF Senders, Servers, Active
  <1>8. /\ \A w \in Servers : (/\ Routed(w, Pipe(w)) /\ Chained(Pipe(w)) /\ Ordered(Pipe(w))
                               /\ Unfinished(Pipe(w)))'
        /\ \A x \in Senders : Active(x) => Partly(x)'
        /\ \A w \in Servers : \A k \in 1 .. Len(Pipe(w)') :
              \E j \in 1 .. Len(Pipe(w)) : Pipe(w)'[k] = Pipe(w)[j]
    BY <1>3, <1>4, <1>7, DropKeeps
  <1>9. \A q \in Msg : Answering(q) => Answering(q)'
    BY <1>2, <1>5 DEF Answering, Msg
  \* The answer, if the service gives one.
  <1>10. ASSUME NEW x \in Senders, Active(x)', ~Active(x)
         PROVE  /\ x = v /\ Job[t].sync /\ snd'[v].i = 1
                /\ snd'[v].msg \in Msg /\ snd'[v].msg.t = t /\ snd'[v].msg.ack /\ snd'[v].msg.n = m.n
    <2>1. x = v
      BY <1>2, <1>10 DEF Active
    <2>2. Job[t].sync /\ snd'[v] = Started([m EXCEPT !.ack = TRUE])
      BY <1>2, <1>10, <2>1 DEF Active
    <2>3. snd'[v].msg = [m EXCEPT !.ack = TRUE] /\ snd'[v].i = 1
      BY <2>2 DEF Started
    <2>4. /\ [m EXCEPT !.ack = TRUE] \in Msg /\ [m EXCEPT !.ack = TRUE].t = t
          /\ [m EXCEPT !.ack = TRUE].ack = TRUE /\ [m EXCEPT !.ack = TRUE].n = m.n
      BY <1>1, <1>5 DEF Msg
    <2> QED
      BY <2>1, <2>2, <2>3, <2>4
  <1>11. ASSUME NEW q \in Msg, Job[t].sync, q.t = t, q.ack, q.n = m.n PROVE Answering(q)'
    BY <1>2, <1>5, <1>6, <1>11 DEF Answering
  <1>12. ASSUME NEW w \in Servers
         PROVE  (/\ \A k \in 1 .. Len(Pipe(w)) : Pipe(w)[k].hd.ack => Answering(Pipe(w)[k].hd)
                 /\ Acking(w))'
    <2>1. ASSUME NEW k \in 1 .. Len(Pipe(w)'), Pipe(w)'[k].hd.ack PROVE Answering(Pipe(w)[k].hd)'
      <3>1. PICK j \in 1 .. Len(Pipe(w)) : Pipe(w)'[k] = Pipe(w)[j]
        BY <1>8
      <3>2. PICK q : q = Pipe(w)[j].hd
        OBVIOUS
      <3>3. Answering(q)'
        BY <1>9, <2>1, <3>1, <3>2, AckInPipe
      <3> QED
        BY <3>1, <3>2, <3>3
    <2>2. ASSUME Active(w)' PROVE (Answering(snd[w].msg) /\ w = Home(snd[w].msg.t))'
      <3>1. w \in Senders
        BY DEF Senders
      <3>2. PICK q : q = snd'[w].msg
        OBVIOUS
      <3>3. CASE Active(w)
        <4>1. q \in Msg /\ Answering(q) /\ w = Home(q.t)
          BY <1>7, <3>1, <3>2, <3>3, ActiveType DEF PipeSound, Acking
        <4> QED
          BY <1>9, <3>2, <4>1
      <3>4. CASE ~Active(w)
        <4>1. w = v /\ Job[t].sync /\ q \in Msg /\ q.t = t /\ q.ack /\ q.n = m.n
          BY <1>10, <2>2, <3>1, <3>2, <3>4
        <4>2. Answering(q)' /\ w = Home(q.t)
          BY <1>5, <1>11, <4>1
        <4> QED
          BY <3>2, <4>2
      <3> QED
        BY <3>3, <3>4
    <2>3. Acking(w)'
      BY <2>2 DEF Acking
    <2> QED
      BY <2>1, <2>3
  <1>13. \A w \in Servers : Collecting(w)'
    BY <1>4, DropCollecting
  <1>14. ASSUME NEW x \in Senders, Active(x)' PROVE Partly(x)'
    <2>1. CASE Active(x)
      BY <1>8, <2>1
    <2>2. CASE ~Active(x)
      <3>1. PICK q : q = snd'[v].msg
        OBVIOUS
      <3>2. x = v /\ snd'[v].i = 1 /\ q \in Msg /\ q.t = t /\ q.ack
        BY <1>10, <1>14, <2>2, <3>1
      <3>3. PICK w \in Servers : w = Dest(q)
        BY <3>2, DestType
      <3>4. w[1] = Peer(CoreOf(v))
        <4>1. v \notin Callers
          BY <1>7
        <4>2. CoreOf(v) = Peer(Job[t].core) /\ w[1] = Job[t].core
          BY <1>5, <3>2, <3>3, <4>1, HomeType DEF CoreOf, Dest
        <4> QED
          BY <1>5, <4>2, JobType, PeerFacts
      <3>5. ASSUME NEW k \in 1 .. Len(Pipe(w)'), Pipe(w)'[k].hd = q PROVE FALSE
        <4>1. PICK j \in 1 .. Len(Pipe(w)) : Pipe(w)'[k] = Pipe(w)[j]
          BY <1>8
        <4>2. Answering(q)
          BY <3>2, <3>5, <4>1, AckInPipe
        <4> QED
          BY <1>5, <3>2, <4>2
      <3>6. ~(snd'[v].i > 1)
        BY <3>2
      <3>7. PICK Q : Q = Pipe(w)'
        OBVIOUS
      <3> QED
        BY <3>1, <3>2, <3>3, <3>4, <3>5, <3>6 DEF Partly
    <2> QED
      BY <2>1, <2>2
  <1>15. ASSUME NEW u \in Callers PROVE (Numbered(u) /\ InCall(u) /\ Replied(u))'
    <2>1. Numbered(u)'
      <3>1. CASE u = t
        BY <1>6, <3>1
      <3>2. CASE u # t
        <4>1. handled'[u] = handled[u] /\ snd'[u] = snd[u] /\ server[v].got[1].hd.t # u
          BY <1>1, <1>2, <1>7, <3>2
        <4> QED
          BY <1>2, <1>3, <1>4, <1>7, <4>1, DropNumbered
      <3> QED
        BY <3>1, <3>2
    <2>2. InCall(u)'
      <3>1. InCall(u) /\ snd'[u] = snd[u] /\ caller'[u] = caller[u] /\ caller[u].n \in Nat
        BY <1>2, <1>7, BegunIs DEF PipeSound
      <3>2. caller[u].n <= Len(handled[u]) => caller[u].n <= Len(handled'[u])
        <4>1. CASE u = t
          <5>1. Len(handled[u]) = H /\ Len(handled'[u]) = H + 1 /\ H \in Nat
            BY <1>1, <1>5, <1>6, <4>1
          <5> QED
            BY <3>1, <5>1
        <4>2. CASE u # t
          BY <1>2, <4>2
        <4> QED
          BY <4>1, <4>2
      <3> QED
        BY <3>1, <3>2 DEF InCall, Active
    <2>3. Replied(u)'
      <3>1. CASE u = t
        BY <1>2, <1>5, <3>1 DEF Replied
      <3>2. CASE u # t
        <4>1. Replied(u) /\ reply'[u] = reply[u] /\ handled'[u] = handled[u] /\ caller'[u] = caller[u]
          BY <1>2, <3>2 DEF PipeSound
        <4>2. ASSUME NEW w \in Servers, Active(w)', reply[u] # <<>> PROVE snd'[w].msg.t # u
          <5>1. w \in Senders
            BY DEF Senders
          <5>2. CASE Active(w)
            BY <1>7, <4>1, <4>2, <5>1, <5>2 DEF Replied
          <5>3. CASE ~Active(w)
            BY <1>10, <3>2, <4>2, <5>1, <5>3
          <5> QED
            BY <5>2, <5>3
        <4>3. ASSUME reply[u] # <<>>, NEW w \in Servers, NEW k \in 1 .. Len(Pipe(w)'), Pipe(w)'[k].hd.ack
              PROVE  Pipe(w)'[k].hd.t # u
          BY <1>8, <4>1, <4>3 DEF Replied
        <4> QED
          BY <4>1, <4>2, <4>3 DEF Replied
      <3> QED
        BY <3>1, <3>2
    <2> QED
      BY <2>1, <2>2, <2>3
  <1>16. OnceEach'
    <2>1. ASSUME NEW u \in Callers
          PROVE  (/\ handled[u] = [k \in 1 .. Len(handled[u]) |-> k]
                  /\ \A k \in 1 .. Len(reply[u]) :
                       /\ Whole(reply[u][k])
                       /\ reply[u][k][1].hd = [t |-> u, n |-> caller[u].n + 1, ack |-> TRUE])'
      <3>1. /\ handled[u] = [k \in 1 .. Len(handled[u]) |-> k]
            /\ \A k \in 1 .. Len(reply[u]) :
                 /\ Whole(reply[u][k])
                 /\ reply[u][k][1].hd = [t |-> u, n |-> caller[u].n + 1, ack |-> TRUE]
        BY DEF PipeSound, OnceEach
      <3>2. handled'[u] = [k \in 1 .. Len(handled'[u]) |-> k]
        <4>1. CASE u = t
          BY <1>6, <4>1
        <4>2. CASE u # t
          BY <1>2, <3>1, <4>2
        <4> QED
          BY <4>1, <4>2
      <3>3. reply'[u] = reply[u] /\ caller'[u] = caller[u]
        BY <1>2
      <3> QED
        BY <3>1, <3>2, <3>3
    <2> QED
      BY <2>1 DEF OnceEach
  <1> QED
    BY <1>8, <1>12, <1>13, <1>14, <1>15, <1>16 DEF PipeSound
-----------------------------------------------------------------------------
(* A caller begins or ends a call. *)

LEMMA CallerFrame ==
    ASSUME LinkSound, PipeSound, NEW t \in Callers, \A v \in Servers : Pipe(v)' = Pipe(v),
           UNCHANGED <<server, handled>>, ~Active(t),
           \A x \in Senders : x # t => snd'[x] = snd[x],
           \A u \in Callers : u # t => caller'[u] = caller[u] /\ reply'[u] = reply[u],
           Begun(t)' = Begun(t), reply'[t] = <<>>, InCall(t)',
           \A v \in Servers : \A k \in 1 .. Len(Pipe(v)) : Pipe(v)[k].hd.ack => Pipe(v)[k].hd.t # t,
           \A v \in Servers : Active(v) => snd[v].msg.t # t,
           Active(t)' => Partly(t)'
    PROVE  PipeSound'
  <1>1. \A x \in Senders : Active(x) => x # t /\ Active(x)' /\ snd'[x] = snd[x]
    BY DEF Active
  <1>2. \A v \in Servers : v \in Senders /\ v # t /\ snd'[v] = snd[v] /\ (Active(v)' <=> Active(v))
    BY IPCAssumption DEF Senders, Servers, Active
  <1>3. \A q \in Msg : q.t # t => (Answering(q) => Answering(q)')
    BY DEF Answering, Msg
  <1>4. ASSUME NEW v \in Servers
        PROVE  (/\ Routed(v, Pipe(v)) /\ Chained(Pipe(v)) /\ Ordered(Pipe(v))
                /\ Unfinished(Pipe(v))
                /\ \A k \in 1 .. Len(Pipe(v)) : Pipe(v)[k].hd.ack => Answering(Pipe(v)[k].hd)
                /\ Collecting(v) /\ Acking(v))'
    <2>1. PICK P : P = Pipe(v)
      OBVIOUS
    <2>2. P = Pipe(v)' /\ Routed(v, P) /\ Chained(P) /\ Ordered(P) /\ Unfinished(P)
      BY <2>1 DEF PipeSound
    <2>3. (Routed(v, P) /\ Chained(P) /\ Ordered(P))'
      BY <2>2 DEF Routed, Chained, Ordered
    <2>4. Unfinished(P)'
      BY <1>1, <2>2 DEF Unfinished
    <2>5. ASSUME NEW k \in 1 .. Len(Pipe(v)'), Pipe(v)'[k].hd.ack PROVE Answering(Pipe(v)[k].hd)'
      <3>1. PICK q : q = Pipe(v)[k].hd
        OBVIOUS
      <3>2. q \in Msg /\ Answering(q) /\ q.t # t
        BY <2>5, <3>1, AckInPipe
      <3> QED
        BY <1>3, <3>1, <3>2
    <2>6. Collecting(v)'
      BY DEF PipeSound, Collecting, Pieces
    <2>7. ASSUME Active(v)' PROVE (Answering(snd[v].msg) /\ v = Home(snd[v].msg.t))'
      <3>1. PICK q : q = snd[v].msg
        OBVIOUS
      <3>2. q \in Msg /\ Answering(q) /\ v = Home(q.t) /\ q.t # t /\ snd'[v].msg = q
        BY <1>2, <2>7, <3>1, ActiveType DEF PipeSound, Acking
      <3>3. Answering(q)'
        BY <1>3, <3>2
      <3> QED
        BY <3>2, <3>3
    <2> QED
      BY <2>2, <2>3, <2>4, <2>5, <2>6, <2>7 DEF Acking
  <1>5. ASSUME NEW x \in Senders, Active(x)' PROVE Partly(x)'
    <2>1. CASE x = t
      BY <1>5, <2>1
    <2>2. CASE x # t
      <3>1. snd'[x] = snd[x] /\ Active(x)
        BY <1>5, <2>2 DEF Active
      <3>2. PICK w \in Servers : w = Dest(snd[x].msg)
        BY <3>1, ActiveType, DestType
      <3>3. Partly(x) /\ Pipe(w)' = Pipe(w)
        BY <3>1 DEF PipeSound
      <3> QED
        BY <3>1, <3>2, <3>3 DEF Partly
    <2> QED
      BY <2>1, <2>2
  <1>6. ASSUME NEW u \in Callers PROVE (Numbered(u) /\ InCall(u) /\ Replied(u))'
    <2>1. Numbered(u) /\ InCall(u) /\ Replied(u) /\ u \in Senders
      BY DEF PipeSound, Senders
    <2>2. Begun(u)' = Begun(u)
      BY <2>1 DEF Begun
    <2>3. Pipe(Home(u))' = Pipe(Home(u))
      BY HomeType
    <2>4. Numbered(u)'
      BY <2>1, <2>2, <2>3 DEF Numbered
    <2>5. InCall(u)'
      <3>1. CASE u # t
        <4>1. snd'[u] = snd[u] /\ caller'[u] = caller[u]
          BY <2>1, <3>1
        <4> QED
          BY <2>1, <4>1 DEF InCall, Active
      <3> QED
        BY <3>1
    <2>6. Replied(u)'
      <3>1. CASE u = t
        BY <3>1 DEF Replied
      <3>2. CASE u # t
        BY <1>2, <2>1, <3>2 DEF Replied
      <3> QED
        BY <3>1, <3>2
    <2> QED
      BY <2>4, <2>5, <2>6
  <1>7. OnceEach'
    <2>1. ASSUME NEW u \in Callers
          PROVE  (/\ handled[u] = [k \in 1 .. Len(handled[u]) |-> k]
                  /\ \A k \in 1 .. Len(reply[u]) :
                       /\ Whole(reply[u][k])
                       /\ reply[u][k][1].hd = [t |-> u, n |-> caller[u].n + 1, ack |-> TRUE])'
      <3>1. /\ handled[u] = [k \in 1 .. Len(handled[u]) |-> k]
            /\ \A k \in 1 .. Len(reply[u]) :
                 /\ Whole(reply[u][k])
                 /\ reply[u][k][1].hd = [t |-> u, n |-> caller[u].n + 1, ack |-> TRUE]
        BY DEF PipeSound, OnceEach
      <3>2. CASE u # t
        <4>1. reply'[u] = reply[u] /\ caller'[u] = caller[u] /\ handled'[u] = handled[u]
          BY <3>2
        <4> QED
          BY <3>1, <4>1
      <3>3. CASE u = t
        <4>1. \A k \in 1 .. Len(reply'[u]) : FALSE
          BY <3>3, EmptySeq
        <4> QED
          BY <3>1, <4>1
      <3> QED
        BY <3>2, <3>3
    <2> QED
      BY <2>1 DEF OnceEach
  <1> QED
    BY <1>4, <1>5, <1>6, <1>7 DEF PipeSound

LEMMA CallInv ==
    ASSUME LinkSound, PipeSound, NEW t \in Callers, Call(t)
    PROVE  PipeSound'
  <1>1. /\ caller[t].pc = "idle" /\ UNCHANGED <<slot, seq, bake, queue, recv, server, reply, handled>>
        /\ caller' = [caller EXCEPT ![t].pc = "send"]
        /\ snd' = [snd EXCEPT ![t] = Started([t |-> t, n |-> caller[t].n + 1, ack |-> FALSE])]
    BY DEF Call, link
  <1>2. TypeOK /\ t \in Senders /\ caller[t] \in Calling
    BY DEF LinkSound, TypeOK, Senders
  <1>3. PICK q : q = [t |-> t, n |-> caller[t].n + 1, ack |-> FALSE]
    OBVIOUS
  <1>4. q \in Msg /\ q.t = t /\ q.n = caller[t].n + 1 /\ ~q.ack /\ caller[t].n \in Nat
    BY <1>2, <1>3 DEF Msg, Calling
  <1>5. /\ snd'[t].msg = q /\ snd'[t].i = 1 /\ snd'[t].pc # "off"
        /\ \A x \in Senders : x # t => snd'[x] = snd[x]
    BY <1>1, <1>2, <1>3 DEF TypeOK, Started
  <1>6. /\ caller'[t].pc = "send" /\ caller'[t].n = caller[t].n
        /\ \A u \in Callers : u # t => caller'[u] = caller[u]
    BY <1>1, <1>2 DEF TypeOK, Calling
  <1>7. \A v \in Servers : Pipe(v)' = Pipe(v)
    BY <1>1, PipeStays
  <1>8. ~Active(t)
    BY <1>1, <1>2 DEF LinkSound, Busy
  <1>9. Begun(t)' = Begun(t) /\ Begun(t) = caller[t].n
    BY <1>1, <1>5, <1>6 DEF Begun
  <1>10. reply'[t] = <<>>
    BY <1>1 DEF PipeSound, Replied
  <1>11. InCall(t)'
    BY <1>1, <1>3, <1>5, <1>6 DEF PipeSound, InCall
  <1>12. ASSUME NEW p \in Msg, Answering(p) PROVE p.t # t
    BY <1>1, <1>12 DEF Answering
  <1>13. \A v \in Servers : \A k \in 1 .. Len(Pipe(v)) : Pipe(v)[k].hd.ack => Pipe(v)[k].hd.t # t
    BY <1>12, AckInPipe
  <1>14. \A v \in Servers : Active(v) => snd[v].msg.t # t
    BY <1>12, ActiveType DEF PipeSound, Acking, Senders
  <1>15. Partly(t)'
    <2>1. PICK w \in Servers : w = Dest(q)
      BY <1>4, DestType
    <2>2. w = Home(t)
      BY <1>4, <2>1 DEF Dest, Home
    <2>3. w[1] = Peer(CoreOf(t))
      BY <2>2, HomeType DEF CoreOf
    <2>4. ASSUME NEW k \in 1 .. Len(Pipe(w)), Pipe(w)[k].hd = q PROVE FALSE
      <3>1. q.n <= Begun(t)
        BY <1>4, <2>2, <2>4, ZenonT(60) DEF PipeSound, Numbered
      <3> QED
        BY <1>4, <1>9, <3>1
    <2>5. ~(snd'[t].i > 1) /\ Pipe(w)' = Pipe(w)
      BY <1>5, <1>7
    <2> QED
      BY <1>5, <2>1, <2>3, <2>4, <2>5 DEF Partly
  <1> QED
    BY <1>1, <1>5, <1>6, <1>7, <1>8, <1>9, <1>10, <1>11, <1>13, <1>14, <1>15, CallerFrame

LEMMA AnsweredInv ==
    ASSUME LinkSound, PipeSound, NEW t \in Callers, Answered(t)
    PROVE  PipeSound'
  <1>1. /\ caller[t].pc = "await" /\ reply[t] # <<>>
        /\ UNCHANGED <<slot, seq, bake, queue, recv, snd, server, handled>>
        /\ caller' = [caller EXCEPT ![t] = [pc |-> "idle", n |-> @.n + 1]]
        /\ reply' = [reply EXCEPT ![t] = <<>>]
    BY DEF Answered, link
  <1>2. TypeOK /\ t \in Senders /\ caller[t] \in Calling
    BY DEF LinkSound, TypeOK, Senders
  <1>3. /\ caller'[t].pc = "idle" /\ caller'[t].n = caller[t].n + 1 /\ caller[t].n \in Nat
        /\ \A u \in Callers : u # t => caller'[u] = caller[u]
    BY <1>1, <1>2 DEF TypeOK, Calling
  <1>4. reply'[t] = <<>> /\ \A u \in Callers : u # t => reply'[u] = reply[u]
    BY <1>1, <1>2 DEF TypeOK
  <1>5. \A v \in Servers : Pipe(v)' = Pipe(v)
    BY <1>1, PipeStays
  <1>6. ~Active(t) /\ ~Active(t)'
    <2>1. ~Active(t)
      BY <1>1, <1>2 DEF LinkSound, Busy
    <2> QED
      BY <1>1, <2>1 DEF Active
  <1>7. Begun(t)' = Begun(t)
    BY <1>1, <1>3 DEF Begun
  <1>8. /\ Len(handled[t]) = caller[t].n + 1
        /\ \A v \in Servers : Active(v) => snd[v].msg.t # t
        /\ \A v \in Servers : \A k \in 1 .. Len(Pipe(v)) : Pipe(v)[k].hd.ack => Pipe(v)[k].hd.t # t
    BY <1>1 DEF PipeSound, Replied
  <1>9. InCall(t)'
    <2>1. caller'[t].n <= Len(handled'[t])
      BY <1>1, <1>3, <1>8
    <2> QED
      BY <1>3, <1>6, <2>1 DEF InCall
  <1> QED
    BY <1>1, <1>3, <1>4, <1>5, <1>6, <1>7, <1>8, <1>9, CallerFrame
-----------------------------------------------------------------------------
LEMMA PipeInit == Init => PipeSound
  <1> SUFFICES ASSUME Init PROVE PipeSound
    OBVIOUS
  <1>1. LinkSound /\ Len(<<>>) = 0
    BY LinkInit, EmptySeq
  <1>2. \A x \in Senders : snd[x] = Idle /\ ~Active(x)
    BY DEF Init, Active, Idle
  <1>3. ASSUME NEW v \in Servers PROVE Pipe(v) = <<>> /\ server[v].pc = "wait" /\ server[v].got = <<>>
    <2>1. v[1] \in Cores /\ Peer(v[1]) \in Cores /\ Peer(Peer(v[1])) \in Cores
      BY ServerPair, PeerFacts
    <2>2. server[v].got = <<>> /\ queue[v] = <<>> /\ server[v].pc = "wait"
      BY DEF Init
    <2>3. RecvPart(v) = <<>>
      BY <2>1 DEF Init, RecvPart
    <2>4. SlotPart(v) = <<>>
      BY <2>1 DEF Init, SlotPart, InFlight
    <2>5. <<>> \o <<>> = <<>>
      OBVIOUS
    <2> QED
      BY <2>2, <2>3, <2>4, <2>5 DEF Pipe
  <1>4. ASSUME NEW v \in Servers
        PROVE  /\ Routed(v, Pipe(v)) /\ Chained(Pipe(v)) /\ Ordered(Pipe(v)) /\ Unfinished(Pipe(v))
               /\ \A k \in 1 .. Len(Pipe(v)) : Pipe(v)[k].hd.ack => Answering(Pipe(v)[k].hd)
               /\ Collecting(v) /\ Acking(v)
    <2>1. Pipe(v) = <<>> /\ Len(Pipe(v)) = 0 /\ server[v].pc = "wait" /\ Len(server[v].got) = 0
      BY <1>1, <1>3
    <2>2. Routed(v, Pipe(v)) /\ Chained(Pipe(v)) /\ Ordered(Pipe(v)) /\ Unfinished(Pipe(v))
      BY <2>1 DEF Routed, Chained, Ordered, Unfinished
    <2>3. Collecting(v) /\ Acking(v)
      BY <1>2, <2>1 DEF Collecting, Pieces, Acking, Senders
    <2> QED
      BY <2>1, <2>2, <2>3
  <1>5. ASSUME NEW t \in Callers PROVE Numbered(t) /\ InCall(t) /\ Replied(t)
    <2>1. /\ caller[t].pc = "idle" /\ caller[t].n = 0 /\ handled[t] = <<>> /\ reply[t] = <<>>
          /\ ~Active(t)
      BY <1>2 DEF Init, Senders
    <2>2. Begun(t) = 0 /\ Len(handled[t]) = 0
      BY <1>1, <2>1 DEF Begun
    <2>3. Pipe(Home(t)) = <<>> /\ Len(Pipe(Home(t))) = 0
      BY <1>1, <1>3, HomeType
    <2>4. handled[t] = [i \in 1 .. Len(handled[t]) |-> i]
      BY <2>1, <2>2
    <2>5. Numbered(t)
      BY <2>2, <2>3, <2>4 DEF Numbered
    <2> QED
      BY <2>1, <2>2, <2>5 DEF InCall, Replied
  <1>6. OnceEach
    <2>1. \A t \in Callers : handled[t] = [i \in 1 .. Len(handled[t]) |-> i] /\ Len(reply[t]) = 0
      BY <1>1, <1>5 DEF Numbered, Init
    <2> QED
      BY <2>1 DEF OnceEach
  <1> QED
    BY <1>2, <1>4, <1>5, <1>6 DEF PipeSound

LEMMA PipeNext == (TypeOK /\ LinkInv /\ PipeInv) /\ [Next]_vars => PipeInv'
  <1> SUFFICES ASSUME TypeOK, LinkInv, PipeInv, [Next]_vars, Settled' PROVE PipeSound'
    BY DEF PipeInv
  <1>a. Settled /\ \A v \in Servers : ~AddService(v)
    BY StaysSettled
  <1>b. LinkSound /\ PipeSound
    BY <1>a DEF LinkInv, PipeInv
  <1>1. ASSUME UNCHANGED vars PROVE PipeSound'
    <2>1. UNCHANGED <<slot, seq, bake, queue, recv, snd, server, caller, reply, handled>>
      BY <1>1 DEF vars, link, tasks
    <2>2. \A v \in Servers : Pipe(v)' = Pipe(v)
      BY <2>1, PipeStays
    <2>3. \A v \in Servers : Collecting(v)'
      BY <1>b, <2>1 DEF PipeSound, Collecting, Pieces
    <2>4. \A x \in Senders : /\ Active(x)' <=> Active(x)
                             /\ snd'[x].msg = snd[x].msg /\ snd'[x].i = snd[x].i
      BY <2>1 DEF Active
    <2> QED
      BY <1>b, <2>1, <2>2, <2>3, <2>4, PipeFrame
  <1>2. ASSUME NEW c \in Cores, Step(c) PROVE PipeSound'
    <2>1. CASE Isr(c) \/ Recv(c)
      BY <1>a, <1>b, <2>1, QuietSteps
    <2>2. ASSUME NEW x \in Senders, Send(x) PROVE PipeSound'
      BY <1>a, <1>b, <2>2, QuietSteps, PutInv DEF Send
    <2>3. ASSUME NEW v \in Servers, Serve(v) PROVE PipeSound'
      BY <1>a, <1>b, <2>3, QuietSteps, AnswerInv, ProcessInv DEF Serve
    <2> QED
      BY <1>b, <1>2, <2>1, <2>2, <2>3, AnsweredInv DEF Step
  <1>3. ASSUME NEW t \in Callers, Call(t) PROVE PipeSound'
    BY <1>b, <1>3, CallInv
  <1>4. ~(\E v \in Servers : AddService(v))
    BY <1>a
  <1>5. CASE Next
    BY <1>2, <1>3, <1>4, <1>5 DEF Next
  <1> QED
    BY <1>1, <1>5

\* PipeInv is inductive together with LinkInv: until a service is added late,
\* the fragments on their way to a service, from the slot of the mailbox
\* (channel_mailbox.c) over the receive task and the service's queue to
\* transfer_recv, are consecutive messages, each complete but for the end of one
\* that is still being sent.
THEOREM PipeHolds == Spec => []PipeInv
  <1>1. Init => PipeInv
    BY PipeInit DEF PipeInv
  <1> QED
    BY <1>1, PipeNext, LinkHolds, IPCTypes, PTL DEF Spec

\* transfer_recv (ipc.c) puts together exactly the fragments of one message,
\* all of them and in order, whatever number of callers and services share
\* the link and whatever the lengths of their messages, until a service is added
\* late.
THEOREM MessagesIntact == Spec => []Intact
  <1>1. LinkInv /\ PipeInv => Intact
    <2> SUFFICES ASSUME LinkInv, PipeInv, Settled PROVE Assembled
      BY DEF Intact
    <2>1. LinkSound /\ PipeSound
      BY DEF LinkInv, PipeInv
    <2>2. \A v \in Servers : server[v].pc = "handle" => Whole(server[v].got)
      BY <2>1, FrontWhole
    <2>3. \A v \in Servers : server[v].pc # "undefined"
      BY <2>1 DEF PipeSound, Collecting
    <2> QED
      BY <2>2, <2>3 DEF Assembled
  <1> QED
    BY <1>1, LinkHolds, PipeHolds, PTL

\* Until a service is added late, the messages of a caller are processed in the
\* order sent, none twice and none skipped, and the answer that ipc_message_send
\* takes from its queue is the whole answer to this very call (the assertion at
\* ipc.c:464).
THEOREM MessagesInOrder == Spec => []InOrder
  <1>1. PipeInv => InOrder
    BY DEF PipeInv, PipeSound, InOrder
  <1> QED
    BY <1>1, PipeHolds, PTL
=============================================================================
