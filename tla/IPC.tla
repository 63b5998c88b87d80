--------------------------------- MODULE IPC ---------------------------------
(***************************************************************************)
(* Messages between the two cores: ipc/ipc.c, ipc/channel_mailbox.c and    *)
(* the mailbox driver chip_bl606p/drivers/blyoc_mbox.                      *)
(*                                                                         *)
(* Each core owns one mailbox slot towards the other, four blocks of       *)
(* shared memory and two event bits.  A message is cut into fragments; a   *)
(* fragment is put in a block, its header in the slot, and an interrupt    *)
(* tells the other core.  The receive task of that core empties the slot,  *)
(* which raises the acknowledge interrupt, copies the block and hands the  *)
(* fragment to the queue of a service, whose task puts the message         *)
(* together, processes it and answers synchronous ones the same way.       *)
(***************************************************************************)
EXTENDS Naturals, Sequences, FiniteSets

CONSTANTS
    Callers,      \* tasks that call ipc_message_send
    Service,      \* service ids
    Late,         \* services (core and id) that are added while the link is in use
    Job,          \* what a caller sends: [core, ser, sync, req, resp, times]
    BLOCK_SIZE,   \* blocks of shared memory per core (4)
    QueueLen,     \* capacity of a service's queue (10)
    None

Cores == {0, 1}
Peer(c) == 1 - c

ASSUME IPCAssumption ==
    /\ BLOCK_SIZE \in Nat /\ BLOCK_SIZE >= 3 /\ QueueLen \in Nat \ {0}
    /\ Job \in [Callers -> [core : Cores, ser : Service, sync : BOOLEAN,
                            req : Nat \ {0}, resp : Nat \ {0}, times : Nat]]
    /\ Callers \cap (Cores \X Service) = {}
    /\ None \notin Callers /\ None \notin Cores \X Service
    /\ Late \subseteq Cores \X Service

Servers == Cores \X Service       \* the task of a service on a core
Senders == Callers \cup Servers   \* tasks that run transfer_send

CoreOf(x) == IF x \in Callers THEN Job[x].core ELSE x[1]

\* The n-th message of caller t, or the answer to it.
Msg == [t : Callers, n : Nat \ {0}, ack : BOOLEAN]
Fragments(m) == IF m.ack THEN Job[m.t].resp ELSE Job[m.t].req

Events     == {"write", "read"}
Interrupts == {"ack", "data"}

VARIABLES
    added,    \* ipc->service_list of both cores
    evt,      \* ipc->evt of each core
    irq,      \* raw interrupt status of each core
    isr,      \* the status a running interrupt handler has read
    slot,     \* slot[c]: the header that core c has put for the other
    shm,      \* contents of each core's blocks
    seq,      \* ipc->seq
    bake,     \* ipc->seq_bake
    tx,       \* owner of tx_mutex
    rx,       \* owner of rx_mutex
    queue,    \* the queue of each service
    recv,     \* the receive task of each core
    snd,      \* transfer_send in each sending task
    server,   \* the task of each service
    caller,   \* the callers
    reply,    \* the queue a synchronous caller waits on
    handled   \* history: the numbers of a caller's messages processed so far

link  == <<evt, irq, isr, slot, shm, seq, bake>>
tasks == <<tx, rx, queue, recv, snd, server, caller, reply>>
vars  == <<link, tasks, handled, added>>
-----------------------------------------------------------------------------
\* Both cores have added the services that are not late and heard the other
\* one's probe, and both probes are over (ipc.c:358).  The slots still hold the
\* probes, whose number is 1 (ipc.c:345): None.
Idle == [pc |-> "off", msg |-> None, i |-> 0, blk |-> 0]

Init ==
    /\ added = Servers \ Late
    /\ evt = [c \in Cores |-> {"write"}]
    /\ irq = [c \in Cores |-> {}]
    /\ isr = [c \in Cores |-> {}]
    /\ slot = [c \in Cores |-> None]
    /\ shm = [c \in Cores |-> [b \in 0 .. BLOCK_SIZE - 1 |-> None]]
    /\ seq = [c \in Cores |-> 2]
    /\ bake = [c \in Cores |-> 1]
    /\ tx = [c \in Cores |-> None]
    /\ rx = [c \in Cores |-> None]
    /\ queue = [v \in Servers |-> <<>>]
    /\ recv = [c \in Cores |-> [pc |-> "wait", m |-> None]]
    /\ snd = [x \in Senders |-> Idle]
    /\ server = [v \in Servers |-> [pc |-> "wait", got |-> <<>>]]
    /\ caller = [t \in Callers |-> [pc |-> "idle", n |-> 0]]
    /\ reply = [t \in Callers |-> <<>>]
    /\ handled = [t \in Callers |-> <<>>]

\* A task runs when its core is not in the interrupt handler.
Running(c) == isr[c] = {}
-----------------------------------------------------------------------------
(* The mailbox driver.  A trigger sets a bit of the other core's status.   *)
Trigger(c, i) == irq' = [irq EXCEPT ![c] = @ \cup {i}]

\* channel_put_message: the header overwrites the slot and "data" is raised.
PutMessage(c, m) ==
    /\ slot' = [slot EXCEPT ![c] = m]
    /\ Trigger(Peer(c), "data")

\* blyoc_ipc_irqhander reads the status and calls ipc_event for each bit ...
EventOf(i) == IF i = "ack" THEN "write" ELSE "read"

IsrEnter(c) ==
    /\ isr[c] = {} /\ irq[c] # {}
    /\ isr' = [isr EXCEPT ![c] = irq[c]]
    /\ evt' = [evt EXCEPT ![c] = @ \cup {EventOf(i) : i \in irq[c]}]
    /\ UNCHANGED <<irq, slot, shm, seq, bake, tasks, handled, added>>

\* Bug: all bits are cleared, those raised meanwhile too.
IsrExit_All(c) ==
    /\ isr[c] # {}
    /\ irq' = [irq EXCEPT ![c] = {}]
    /\ isr' = [isr EXCEPT ![c] = {}]
    /\ UNCHANGED <<evt, slot, shm, seq, bake, tasks, handled, added>>

\* ... and then clears the bits it has read.
IsrExit(c) ==
    /\ isr[c] # {}
    /\ irq' = [irq EXCEPT ![c] = @ \ isr[c]]
    /\ isr' = [isr EXCEPT ![c] = {}]
    /\ UNCHANGED <<evt, slot, shm, seq, bake, tasks, handled, added>>
-----------------------------------------------------------------------------
(* transfer_send, run by callers and, to answer, by the tasks of services. *)
Started(m) == [pc |-> "fill", msg |-> m, i |-> 1, blk |-> 0]

\* Bug: two blocks are taken in turn.
Block_Two(c) == seq[c] % 2

\* The block of the next fragment; tx_mutex is held from the first fragment
\* to the last.
Block(c) == seq[c] % BLOCK_SIZE

Fill(x) == LET c == CoreOf(x) IN
    /\ Running(c) /\ snd[x].pc = "fill"
    /\ tx[c] \in {None, x}
    /\ tx' = [tx EXCEPT ![c] = x]
    /\ shm' = [shm EXCEPT ![c][Block(c)] = [msg |-> snd[x].msg, i |-> snd[x].i]]
    /\ snd' = [snd EXCEPT ![x] = [@ EXCEPT !.pc = "wait", !.blk = Block(c)]]
    /\ UNCHANGED <<evt, irq, isr, slot, seq, bake, rx, queue, recv, server,
                   caller, reply, handled, added>>

\* Bug: the event is looked at but not taken.
WaitWrite_Keeps(x) == LET c == CoreOf(x) IN
    /\ Running(c) /\ snd[x].pc = "wait" /\ "write" \in evt[c]
    /\ snd' = [snd EXCEPT ![x].pc = "put"]
    /\ UNCHANGED <<link, tx, rx, queue, recv, server, caller, reply, handled, added>>

\* ipc_channel_send waits until the other core has emptied the slot.
WaitWrite(x) == LET c == CoreOf(x) IN
    /\ Running(c) /\ snd[x].pc = "wait" /\ "write" \in evt[c]
    /\ evt' = [evt EXCEPT ![c] = @ \ {"write"}]
    /\ snd' = [snd EXCEPT ![x].pc = "put"]
    /\ UNCHANGED <<irq, isr, slot, shm, seq, bake, tx, rx, queue, recv, server,
                   caller, reply, handled, added>>

\* After its last fragment a caller returns or waits for the answer, and a
\* service goes on with its next message.
Sent(x) ==
    /\ caller' = IF x \in Callers
                 THEN [caller EXCEPT ![x] = IF Job[x].sync THEN [@ EXCEPT !.pc = "await"]
                                            ELSE [pc |-> "idle", n |-> @.n + 1]]
                 ELSE caller
    /\ server' = IF x \in Servers THEN [server EXCEPT ![x].pc = "wait"] ELSE server

\* Bug: tx_mutex is given back after every fragment.
Put_Unlocks(x) == LET c == CoreOf(x)
                      m == snd[x].msg
                  IN
    /\ Running(c) /\ snd[x].pc = "put"
    /\ PutMessage(c, [ser |-> Job[m.t].ser, msg |-> m, i |-> snd[x].i,
                      blk |-> snd[x].blk, seq |-> seq[c]])
    /\ seq' = [seq EXCEPT ![c] = @ + 1]
    /\ tx' = [tx EXCEPT ![c] = None]
    /\ IF snd[x].i < Fragments(m)
       THEN /\ snd' = [snd EXCEPT ![x] = [@ EXCEPT !.pc = "fill", !.i = snd[x].i + 1]]
            /\ UNCHANGED <<caller, server>>
       ELSE snd' = [snd EXCEPT ![x] = Idle] /\ Sent(x)
    /\ UNCHANGED <<evt, isr, shm, bake, rx, queue, recv, reply, handled, added>>

Put(x) == LET c == CoreOf(x)
              m == snd[x].msg
          IN
    /\ Running(c) /\ snd[x].pc = "put"
    /\ PutMessage(c, [ser |-> Job[m.t].ser, msg |-> m, i |-> snd[x].i,
                      blk |-> snd[x].blk, seq |-> seq[c]])
    /\ seq' = [seq EXCEPT ![c] = @ + 1]
    /\ IF snd[x].i < Fragments(m)
       THEN /\ snd' = [snd EXCEPT ![x] = [@ EXCEPT !.pc = "fill", !.i = snd[x].i + 1]]
            /\ UNCHANGED <<tx, caller, server>>
       ELSE /\ snd' = [snd EXCEPT ![x] = Idle]
            /\ tx' = [tx EXCEPT ![c] = None]
            /\ Sent(x)
    /\ UNCHANGED <<evt, isr, shm, bake, rx, queue, recv, reply, handled, added>>
-----------------------------------------------------------------------------
(* ipc_task_process_entry with phy_recv.                                   *)
\* Bug: the read event is not taken.
RecvWait_Keeps(c) ==
    /\ Running(c) /\ recv[c].pc = "wait" /\ "read" \in evt[c]
    /\ recv' = [recv EXCEPT ![c].pc = "get"]
    /\ UNCHANGED <<link, tx, rx, queue, snd, server, caller, reply, handled, added>>

RecvWait(c) ==
    /\ Running(c) /\ recv[c].pc = "wait" /\ "read" \in evt[c]
    /\ evt' = [evt EXCEPT ![c] = @ \ {"read"}]
    /\ recv' = [recv EXCEPT ![c].pc = "get"]
    /\ UNCHANGED <<irq, isr, slot, shm, seq, bake, tx, rx, queue, snd, server,
                   caller, reply, handled, added>>

\* Emptying the slot raises the acknowledge interrupt at once, before the
\* block is copied.  The driver does not look whether the slot is new: after a
\* read event of its own core the task takes the last header, or the probe, again.
RecvGet(c) == LET m == slot[Peer(c)] IN
    /\ Running(c) /\ recv[c].pc = "get"
    /\ Trigger(Peer(c), "ack")
    /\ bake' = [bake EXCEPT ![c] = IF m = None THEN 1 ELSE m.seq]
    /\ recv' = [recv EXCEPT ![c] = IF m = None THEN [pc |-> "wait", m |-> None]
                                   ELSE [pc |-> "copy", m |-> m]]
    /\ UNCHANGED <<evt, isr, slot, shm, seq, tx, rx, queue, snd, server, caller,
                   reply, handled, added>>

\* The block is copied: what counts from now on is what it holds now.
RecvCopy(c) == LET m == recv[c].m IN
    /\ Running(c) /\ recv[c].pc = "copy"
    /\ recv' = [recv EXCEPT ![c] =
                  [pc |-> "give", m |-> [ser |-> m.ser, hd |-> m.msg,
                                         data |-> shm[Peer(c)][m.blk]]]]
    /\ UNCHANGED <<link, tx, rx, queue, snd, server, caller, reply, handled, added>>

\* Bug: a full queue is not looked for.
RecvGive_Full(c) == LET m == recv[c].m
                        v == <<c, m.ser>>
                    IN
    /\ Running(c) /\ recv[c].pc = "give"
    /\ queue' = [queue EXCEPT ![v] = Append(@, [hd |-> m.hd, data |-> m.data])]
    /\ recv' = [recv EXCEPT ![c] = [pc |-> "wait", m |-> None]]
    /\ UNCHANGED <<link, tx, rx, snd, server, caller, reply, handled, added>>

\* The task tries again every 10 ms while the service's queue is full; what is
\* for a service that does not exist is dropped.
RecvGive(c) == LET m == recv[c].m
                   v == <<c, m.ser>>
               IN
    /\ Running(c) /\ recv[c].pc = "give"
    /\ v \in added => Len(queue[v]) < QueueLen
    /\ queue' = IF v \in added
                THEN [queue EXCEPT ![v] = Append(@, [hd |-> m.hd, data |-> m.data])]
                ELSE queue
    /\ recv' = [recv EXCEPT ![c] = [pc |-> "wait", m |-> None]]
    /\ UNCHANGED <<link, tx, rx, snd, server, caller, reply, handled, added>>
-----------------------------------------------------------------------------
(* ipc_service_entry with transfer_recv.                                   *)
ServerWait(v) ==
    /\ Running(v[1]) /\ server[v].pc = "wait" /\ queue[v] # <<>>
    /\ server' = [server EXCEPT ![v] = [pc |-> "lock", got |-> <<Head(queue[v])>>]]
    /\ queue' = [queue EXCEPT ![v] = Tail(@)]
    /\ UNCHANGED <<link, tx, rx, recv, snd, caller, reply, handled, added>>

\* The first fragment starts with the length of the whole message; what
\* another fragment would be read as is not defined.
Total(got) == Fragments(got[1].data.msg)

ServerLock(v) == LET g == server[v].got IN
    /\ Running(v[1]) /\ server[v].pc = "lock"
    /\ rx[v[1]] = None
    /\ server' = [server EXCEPT ![v].pc =
                    IF g[1].data.i # 1 THEN "undefined"
                    ELSE IF Total(g) = 1 THEN "handle" ELSE "collect"]
    /\ rx' = [rx EXCEPT ![v[1]] =
                IF g[1].data.i = 1 /\ Total(g) = 1 THEN None ELSE v]
    /\ UNCHANGED <<link, tx, queue, recv, snd, caller, reply, handled, added>>

\* rx_mutex stays taken until the last fragment has come.
ServerCollect(v) == LET g == Append(server[v].got, Head(queue[v])) IN
    /\ Running(v[1]) /\ server[v].pc = "collect" /\ queue[v] # <<>>
    /\ queue' = [queue EXCEPT ![v] = Tail(@)]
    /\ server' = [server EXCEPT ![v] =
                    [pc |-> IF Len(g) = Total(g) THEN "handle" ELSE "collect",
                     got |-> g]]
    /\ rx' = [rx EXCEPT ![v[1]] = IF Len(g) = Total(g) THEN None ELSE v]
    /\ UNCHANGED <<link, tx, recv, snd, caller, reply, handled, added>>

\* Flags and number of a message are those of its last header.
Last(got) == got[Len(got)].hd

\* An answer goes to the queue named by the first fragment, if it is there.
ServerAnswer(v) == LET t == server[v].got[1].data.msg.t IN
    /\ Running(v[1]) /\ server[v].pc = "handle" /\ Last(server[v].got).ack
    /\ reply' = IF caller[t].pc # "idle" /\ Len(reply[t]) < 2
                THEN [reply EXCEPT ![t] = Append(@, server[v].got)] ELSE reply
    /\ server' = [server EXCEPT ![v] = [pc |-> "wait", got |-> <<>>]]
    /\ UNCHANGED <<link, tx, rx, queue, recv, snd, caller, handled, added>>

\* A request is processed; the callback of a service answers a synchronous
\* one with ipc_message_ack.
ServerProcess(v) == LET m == Last(server[v].got) IN
    /\ Running(v[1]) /\ server[v].pc = "handle" /\ ~m.ack
    /\ handled' = [handled EXCEPT ![m.t] = Append(@, m.n)]
    /\ IF Job[m.t].sync
       THEN /\ snd' = [snd EXCEPT ![v] = Started([m EXCEPT !.ack = TRUE])]
            /\ server' = [server EXCEPT ![v] = [pc |-> "ack", got |-> <<>>]]
       ELSE /\ server' = [server EXCEPT ![v] = [pc |-> "wait", got |-> <<>>]]
            /\ UNCHANGED snd
    /\ UNCHANGED <<link, tx, rx, queue, recv, caller, reply, added>>
-----------------------------------------------------------------------------
(* ipc_message_send: without the service on its own core a call fails.     *)
Call(t) ==
    /\ Running(Job[t].core) /\ caller[t].pc = "idle" /\ caller[t].n < Job[t].times
    /\ <<Job[t].core, Job[t].ser>> \in added
    /\ caller' = [caller EXCEPT ![t].pc = "send"]
    /\ snd' = [snd EXCEPT ![t] = Started([t |-> t, n |-> caller[t].n + 1, ack |-> FALSE])]
    /\ UNCHANGED <<link, tx, rx, queue, recv, server, reply, handled, added>>

\* The answer is taken and the caller's queue deleted.
Answered(t) ==
    /\ Running(Job[t].core) /\ caller[t].pc = "await" /\ reply[t] # <<>>
    /\ caller' = [caller EXCEPT ![t] = [pc |-> "idle", n |-> @.n + 1]]
    /\ reply' = [reply EXCEPT ![t] = <<>>]
    /\ UNCHANGED <<link, tx, rx, queue, recv, snd, server, handled, added>>

\* ipc_add_service: the task of the service starts, and the receive task of the
\* core is woken as if a header had come.
AddService(v) ==
    /\ Running(v[1]) /\ v \notin added
    /\ added' = added \cup {v}
    /\ evt' = [evt EXCEPT ![v[1]] = @ \cup {"read"}]
    /\ UNCHANGED <<irq, isr, slot, shm, seq, bake, tasks, handled>>
-----------------------------------------------------------------------------
Isr(c)   == IsrEnter(c) \/ IsrExit(c)
Send(x)  == Fill(x) \/ WaitWrite(x) \/ Put(x)
Recv(c)  == RecvWait(c) \/ RecvGet(c) \/ RecvCopy(c) \/ RecvGive(c)
Serve(v) == ServerWait(v) \/ ServerLock(v) \/ ServerCollect(v) \/ ServerAnswer(v)
            \/ ServerProcess(v)

\* A step of core c that somebody has asked for.
Step(c) ==
    \/ Isr(c) \/ Recv(c)
    \/ \E x \in Senders : CoreOf(x) = c /\ Send(x)
    \/ \E v \in Servers : v[1] = c /\ Serve(v)
    \/ \E t \in Callers : Job[t].core = c /\ Answered(t)

Next ==
    \/ \E c \in Cores : Step(c)
    \/ \E t \in Callers : Call(t)
    \/ \E v \in Servers : AddService(v)

\* A core with something to do does something; which task is the scheduler's
\* choice.  Nothing makes a caller call or an application add a service.
Fairness == \A c \in Cores : WF_vars(Step(c))

Spec == Init /\ [][Next]_vars /\ Fairness

-----------------------------------------------------------------------------
\* No service has been added since the link came up, and the services that the
\* callers use are there on both cores.  What is promised below ends with the
\* first late registration: its read event (ipc.c:635) makes the receive task
\* take an old header again and acknowledge it.
Settled ==
    /\ added = Servers \ Late
    /\ \A t \in Callers, c \in Cores : <<c, Job[t].ser>> \notin Late

Fragment == [msg : Msg, i : Nat \ {0}]
Header   == [ser : Service, msg : Msg, i : Nat \ {0}, blk : 0 .. BLOCK_SIZE - 1,
             seq : Nat]
ASSUME NoneAssumption == None \notin Header \cup Fragment

Copied   == [hd : Msg, data : Fragment]
Sending  == [pc : {"fill", "wait", "put"}, msg : Msg, i : Nat \ {0}, blk : 0 .. BLOCK_SIZE - 1]
Receiving == [pc : {"wait", "get"}, m : {None}] \cup [pc : {"copy"}, m : Header]
             \cup [pc : {"give"}, m : [ser : Service, hd : Msg, data : Fragment]]
Serving  == [pc : {"wait", "lock", "collect", "handle", "ack", "undefined"}, got : Seq(Copied)]
Calling  == [pc : {"idle", "send", "await"}, n : Nat]

\* The state has its types, and no service queue of ipc.c grows past its size.
TypeOK ==
    /\ Servers \ Late \subseteq added /\ added \subseteq Servers
    /\ evt \in [Cores -> SUBSET Events]
    /\ irq \in [Cores -> SUBSET Interrupts]
    /\ isr \in [Cores -> SUBSET Interrupts]
    /\ slot \in [Cores -> Header \cup {None}]
    /\ shm \in [Cores -> [0 .. BLOCK_SIZE - 1 -> Fragment \cup {None}]]
    /\ seq \in [Cores -> Nat] /\ bake \in [Cores -> Nat]
    /\ tx \in [Cores -> Senders \cup {None}]
    /\ rx \in [Cores -> Servers \cup {None}]
    /\ queue \in [Servers -> Seq(Copied)]
    /\ \A v \in Servers : Len(queue[v]) <= QueueLen
    /\ recv \in [Cores -> Receiving]
    /\ snd \in [Senders -> {Idle} \cup Sending]
    /\ server \in [Servers -> Serving]
    /\ caller \in [Callers -> Calling]
    /\ reply \in [Callers -> Seq(Seq(Copied))]
    /\ handled \in [Callers -> Seq(Nat)]

Untouched == \A c \in Cores : recv[c].pc = "copy" =>
    shm[Peer(c)][recv[c].m.blk] = [msg |-> recv[c].m.msg, i |-> recv[c].m.i]

\* A block is not used again before the other core has copied it: the receive
\* task, which acknowledges a fragment before it copies it, copies the
\* fragment that its header announced (ipc.c:62 and ipc.c:111).
BlockKept == Settled => Untouched

Whole(got) == LET m == got[1].data.msg IN
    /\ Len(got) = Fragments(m)
    /\ \A i \in 1 .. Len(got) : got[i] = [hd |-> m, data |-> [msg |-> m, i |-> i]]

Assembled == \A v \in Servers :
    /\ server[v].pc = "handle" => Whole(server[v].got)
    /\ server[v].pc # "undefined"

\* transfer_recv puts together exactly the fragments of one message, all of
\* them and in order, although several services and callers share the link.
Intact == Settled => Assembled

OnceEach == \A t \in Callers :
    /\ handled[t] = [i \in 1 .. Len(handled[t]) |-> i]
    /\ \A k \in 1 .. Len(reply[t]) :
         /\ Whole(reply[t][k])
         /\ reply[t][k][1].hd = [t |-> t, n |-> caller[t].n + 1, ack |-> TRUE]

\* A caller's messages are processed in the order sent, none twice and none
\* skipped, and an answer taken by ipc_message_send is the answer to this
\* very call (aos_assert at ipc.c:464).
InOrder == Settled => OnceEach

\* Until a service is added late the check of ipc_channel_recv finds no gap:
\* each header that the receive task reads is the successor of the one before
\* (ipc.c:65).
NeverLost ==
    [][Settled' => \A c \in Cores : (recv[c].pc = "get" /\ recv'[c].pc # "get") =>
                                        bake'[c] = bake[c] + 1]_vars

\* No call is under way and all messages that ipc_message_send has reported as
\* sent are processed.
Quiet == \A t \in Callers :
    caller[t].pc = "idle" /\ {handled[t][i] : i \in 1 .. Len(handled[t])} = 1 .. caller[t].n

\* The receive task of c waits for room in a service's queue (ipc.c:295).
Blocked(c) == recv[c].pc = "give" /\ Len(queue[<<c, recv[c].m.ser>>]) = QueueLen

\* Unless the receive tasks of both cores wait for room for ever or a service is
\* added late, the link is quiet again and again: every call returns, nothing is
\* lost, and mutexes, events and answers alone never hold each other up.
Delivered == []Settled => ([]<>Quiet \/ <>[](\A c \in Cores : Blocked(c)))

\* What ipc_message_send promises: a call returns.
CallsReturn == \A t \in Callers : (caller[t].pc # "idle") ~> (caller[t].pc = "idle")
=============================================================================
