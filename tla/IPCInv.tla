------------------------------- MODULE IPCInv -------------------------------
(***************************************************************************)
(* Inductive invariants of IPC.  LinkInv follows the right to use a        *)
(* mailbox slot on its way between the cores and the blocks that go with   *)
(* it; PipeInv follows the fragments from the slot to the service.         *)
(***************************************************************************)
EXTENDS IPC

(* The link. *)

Active(x)  == snd[x].pc # "off"
Putting(c) == \E x \in Senders : CoreOf(x) = c /\ snd[x].pc = "put"

\* The header in slot c has not been read yet.
InFlight(c) == seq[c] = bake[Peer(c)] + 2

\* Where the right to use slot c is: with the sending core as its write event,
\* with the sender that has taken the event, on the way as an interrupt, with
\* the receiving core, with its receive task, on the way back.
Place == {"write", "put", "data", "read", "get", "ack"}

Token(c, p) == LET r == Peer(c) IN
    /\ "write" \in evt[c] <=> p = "write"
    /\ Putting(c) <=> p = "put"
    /\ "data" \in irq[r] \ isr[r] <=> p = "data"
    /\ "read" \in evt[r] <=> p = "read"
    /\ recv[r].pc = "get" <=> p = "get"
    /\ "ack" \in irq[c] \ isr[c] <=> p = "ack"
    /\ p \in {"data", "read", "get"} => InFlight(c)
    /\ p \in {"write", "put", "ack"} => seq[c] = bake[r] + 1

\* What a running interrupt handler has read it has already turned into events.
Handler(c) ==
    /\ isr[c] \subseteq irq[c]
    /\ "ack" \in isr[c] => "write" \in evt[c]
    /\ "data" \in isr[c] => "read" \in evt[c]

\* The block that a header names holds the fragment it announces.
Stored(c, h) ==
    /\ h.ser = Job[h.msg.t].ser
    /\ h.blk = h.seq % BLOCK_SIZE
    /\ shm[c][h.blk] = [msg |-> h.msg, i |-> h.i]

Blocks(c) == LET r == Peer(c) IN
    /\ InFlight(c) => slot[c] \in Header /\ slot[c].seq = bake[r] + 1 /\ Stored(c, slot[c])
    /\ recv[r].pc = "copy" => recv[r].m.seq = bake[r] /\ Stored(c, recv[r].m)
    /\ \A x \in Senders : CoreOf(x) = c /\ snd[x].pc \in {"wait", "put"} =>
          /\ snd[x].blk = Block(c)
          /\ shm[c][Block(c)] = [msg |-> snd[x].msg, i |-> snd[x].i]

\* tx_mutex belongs to a sender from its first fragment to its last.
Holding(x) == snd[x].pc \in {"wait", "put"} \/ (snd[x].pc = "fill" /\ snd[x].i > 1)

Mutex(x) ==
    /\ tx[CoreOf(x)] = x <=> Holding(x)
    /\ Active(x) => snd[x].i <= Fragments(snd[x].msg)

\* A task sends while it is in transfer_send.
Busy(x) ==
    IF x \in Callers THEN caller[x].pc = "send" <=> Active(x)
                     ELSE server[x].pc = "ack" <=> Active(x)

\* What a service has of a message at each point of transfer_recv.
Got(v) ==
    /\ server[v].pc \in {"wait", "ack"} => server[v].got = <<>>
    /\ server[v].pc \in {"lock", "collect", "handle", "undefined"} => server[v].got # <<>>

LinkSound ==
    /\ TypeOK
    /\ \A c \in Cores : (\E p \in Place : Token(c, p)) /\ Handler(c) /\ Blocks(c)
    /\ \A x \in Senders : Mutex(x) /\ Busy(x)
    /\ \A v \in Servers : Got(v)

\* Until a late registration, the right to use a slot is in one place and its
\* blocks hold what the headers announce (ipc_channel_send, ipc_channel_recv).
LinkInv == Settled => LinkSound
-----------------------------------------------------------------------------
(* The fragments on their way to a service, the oldest first. *)

Carried(h) == [hd |-> h.msg, data |-> [msg |-> h.msg, i |-> h.i]]

RecvPart(v) == LET m == recv[v[1]].m IN
    CASE recv[v[1]].pc = "copy" /\ m.ser = v[2] -> <<Carried(m)>>
      [] recv[v[1]].pc = "give" /\ m.ser = v[2] -> <<[hd |-> m.hd, data |-> m.data]>>
      [] OTHER -> <<>>

SlotPart(v) == LET h == slot[Peer(v[1])] IN
    IF InFlight(Peer(v[1])) /\ h.ser = v[2] THEN <<Carried(h)>> ELSE <<>>

Pipe(v) == (server[v].got \o queue[v]) \o (RecvPart(v) \o SlotPart(v))

\* The service a message goes to, and the service that a caller calls.
Dest(m) == <<IF m.ack THEN Job[m.t].core ELSE Peer(Job[m.t].core), Job[m.t].ser>>
Home(t) == <<Peer(Job[t].core), Job[t].ser>>

\* A fragment is followed by the next one of its message, and the last one by
\* the first one of any message.
Follows(f, g) ==
    IF f.i < Fragments(f.msg) THEN g = [msg |-> f.msg, i |-> f.i + 1] ELSE g.i = 1

Routed(v, P) == \A k \in 1 .. Len(P) :
    /\ P[k].hd = P[k].data.msg
    /\ Dest(P[k].hd) = v
    /\ P[k].data.i <= Fragments(P[k].hd)

Chained(P) ==
    /\ P # <<>> => P[1].data.i = 1
    /\ \A k \in 1 .. Len(P) - 1 : Follows(P[k].data, P[k + 1].data)

Ordered(P) == \A j, k \in 1 .. Len(P) :
    (j < k /\ P[j].hd.t = P[k].hd.t /\ P[j].hd.ack = P[k].hd.ack) =>
        \/ P[j].hd.n < P[k].hd.n
        \/ P[j].hd.n = P[k].hd.n /\ P[j].data.i < P[k].data.i

\* A message of which only a part is on its way is still being sent.
Unfinished(P) ==
    (P # <<>> /\ P[Len(P)].data.i < Fragments(P[Len(P)].hd)) =>
        \E x \in Senders : /\ Active(x) /\ snd[x].msg = P[Len(P)].hd
                           /\ snd[x].i = P[Len(P)].data.i + 1

\* What a sender has sent of its message.
Partly(x) == LET P == Pipe(Dest(snd[x].msg)) IN
    /\ Dest(snd[x].msg)[1] = Peer(CoreOf(x))
    /\ snd[x].i > 1 => P # <<>> /\ P[Len(P)].data = [msg |-> snd[x].msg, i |-> snd[x].i - 1]
    /\ \A k \in 1 .. Len(P) : P[k].hd = snd[x].msg => P[k].data.i < snd[x].i

\* A synchronous call at the point where its request has been processed.
Answering(m) ==
    /\ m.ack /\ Job[m.t].sync
    /\ caller[m.t].pc = "await"
    /\ m.n = caller[m.t].n + 1 /\ Len(handled[m.t]) = m.n

\* The whole message, fragment by fragment.
Pieces(g) == \A k \in 1 .. Len(g) :
    g[k] = [hd |-> g[1].hd, data |-> [msg |-> g[1].hd, i |-> k]]

Collecting(v) == LET g == server[v].got IN
    /\ server[v].pc # "undefined"
    /\ server[v].pc = "lock" => Len(g) = 1
    /\ server[v].pc = "collect" => Len(g) < Fragments(g[1].hd)
    /\ server[v].pc = "handle" => Len(g) = Fragments(g[1].hd)
    /\ Pieces(g)

\* The number of the last message of t of which a fragment has been put.
Begun(t) ==
    IF caller[t].pc = "await" \/ (caller[t].pc = "send" /\ snd[t].i > 1)
    THEN caller[t].n + 1 ELSE caller[t].n

Numbered(t) == LET P == Pipe(Home(t)) IN
    /\ handled[t] = [i \in 1 .. Len(handled[t]) |-> i]
    /\ Len(handled[t]) <= Begun(t)
    /\ \A k \in 1 .. Len(P) : (P[k].hd.t = t /\ ~P[k].hd.ack) =>
          Len(handled[t]) < P[k].hd.n /\ P[k].hd.n <= Begun(t)
    /\ \A n \in Len(handled[t]) + 1 .. Begun(t) :
          \E k \in 1 .. Len(P) : P[k].hd = [t |-> t, n |-> n, ack |-> FALSE]

InCall(t) ==
    /\ Active(t) => snd[t].msg = [t |-> t, n |-> caller[t].n + 1, ack |-> FALSE]
    /\ caller[t].pc = "await" => Job[t].sync
    /\ Job[t].sync => caller[t].n <= Len(handled[t])

Acking(v) == Active(v) => Answering(snd[v].msg) /\ v = Home(snd[v].msg.t)

\* The answer is the last trace of a call.
Replied(t) == reply[t] # <<>> =>
    /\ caller[t].pc = "await" /\ Len(handled[t]) = caller[t].n + 1
    /\ \A v \in Servers : Active(v) => snd[v].msg.t # t
    /\ \A v \in Servers : \A k \in 1 .. Len(Pipe(v)) :
          Pipe(v)[k].hd.ack => Pipe(v)[k].hd.t # t

PipeSound ==
    /\ \A v \in Servers :
          /\ Routed(v, Pipe(v)) /\ Chained(Pipe(v)) /\ Ordered(Pipe(v)) /\ Unfinished(Pipe(v))
          /\ \A k \in 1 .. Len(Pipe(v)) : Pipe(v)[k].hd.ack => Answering(Pipe(v)[k].hd)
          /\ Collecting(v) /\ Acking(v)
    /\ \A x \in Senders : Active(x) => Partly(x)
    /\ \A t \in Callers : Numbered(t) /\ InCall(t) /\ Replied(t)
    /\ OnceEach

\* Until a late registration, what is on its way to a service is a chain of
\* consecutive fragments of whole messages (transfer_send, transfer_recv).
PipeInv == Settled => PipeSound
=============================================================================
