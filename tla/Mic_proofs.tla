----------------------------- MODULE Mic_proofs -----------------------------
(***************************************************************************)
(* The microphone path for every size of its queue and its rings.          *)
(***************************************************************************)
EXTENDS Mic, FiniteSetTheorems, SequenceTheorems, TLAPS

(* The plugin task says that it has exited when it is gone, and the utask  *)
(* waits for that only after it has told the plugin task to stop.          *)
Handshake ==
    /\ exited => plugin = "none"
    /\ utask = "stop" => ~running
    /\ StopIsFinal

(* Commands leave room in the queue for an event. *)
Room == Cardinality(Waiting) <= MaxCommands

(* The inductive invariant of EventPending. *)
IInv == TypeOK /\ Handshake /\ Room /\ EventPending
-----------------------------------------------------------------------------
\* A message that is posted fits in the queue.
LEMMA PostType ==
    ASSUME TypeOK, NEW m \in Commands \cup MicEvents, Post(m)
    PROVE  /\ queue' \in Seq(Commands \cup MicEvents) /\ Len(queue') <= QueueLen
           /\ Len(queue') = Len(queue) + 1
           /\ \A j \in 1 .. Len(queue) : queue'[j] = queue[j]
           /\ queue'[Len(queue) + 1] = m
  <1>1. queue \in Seq(Commands \cup MicEvents) /\ Len(queue) \in Nat /\ Len(queue) < QueueLen
    BY MicAssumption DEF TypeOK, Post, Full
  <1> QED
    BY <1>1, MicAssumption DEF Post

\* A message that is received leaves the rest of the queue in order.
LEMMA ReceiveType ==
    ASSUME TypeOK, NEW m, Receive(m)
    PROVE  /\ queue' \in Seq(Commands \cup MicEvents) /\ Len(queue') <= QueueLen
           /\ Len(queue) \in Nat \ {0} /\ Len(queue') = Len(queue) - 1
           /\ \A j \in 1 .. Len(queue') : queue'[j] = queue[j + 1]
           /\ queue[1] = m
  <1>1. queue \in Seq(Commands \cup MicEvents) /\ queue # <<>> /\ Len(queue) <= QueueLen
    BY DEF TypeOK, Receive
  <1>2. queue' = Tail(queue) /\ Head(queue) = m
    BY DEF Receive
  <1>3. Len(queue) \in Nat \ {0}
    BY <1>1, EmptySeq
  <1> QED
    BY <1>1, <1>2, <1>3, MicAssumption, HeadTailProperties

\* The types are kept by every step.
LEMMA TypeStep == TypeOK /\ [Next]_vars => TypeOK'
  <1> SUFFICES ASSUME TypeOK, [Next]_vars PROVE TypeOK'
    OBVIOUS
  <1> USE MicAssumption
  <1>1. CASE Application
    <2>1. ASSUME NEW c \in Commands, Command(c) PROVE TypeOK'
      <3>1. queue' \in Seq(Commands \cup MicEvents) /\ Len(queue') <= QueueLen
        BY <2>1, PostType DEF Command
      <3> QED
        BY <2>1, <3>1 DEF Command, TypeOK, voice, mic, tasks
    <2>2. ASSUME NEW e \in BOOLEAN, PcmControl(e) PROVE TypeOK'
      BY <2>2 DEF PcmControl, Signal, TypeOK, mic, tasks
    <2> QED
      BY <1>1, <2>1, <2>2 DEF Application
  <1>2. CASE PcmData
    BY <1>2 DEF PcmData, TypeOK, mic, tasks
  <1>3. CASE Wakeup
    BY <1>3 DEF Wakeup, TypeOK, voice, mic
  <1>4. CASE Sends
    <2>1. CASE ServiceSend
      <3>1. queue' \in Seq(Commands \cup MicEvents) /\ Len(queue') <= QueueLen
        BY <2>1, PostType DEF ServiceSend, MicEvents
      <3> QED
        BY <2>1, <3>1 DEF ServiceSend, TypeOK, voice, mic
    <2>2. CASE ServiceGiveUp
      BY <2>2 DEF ServiceGiveUp, TypeOK, voice, mic
    <2> QED
      BY <1>4, <2>1, <2>2 DEF Sends
  <1>5. CASE Plugin
    <2>1. CASE PluginSend
      <3>1. queue' \in Seq(Commands \cup MicEvents) /\ Len(queue') <= QueueLen
        BY <2>1, PostType DEF PluginSend, MicEvents
      <3> QED
        BY <2>1, <3>1 DEF PluginSend, TypeOK, voice, mic
    <2>2. ASSUME NEW read \in {1, PCM_CHANNELS}, PluginFrame(read) PROVE TypeOK'
      <3>1. evt_cnt' \in 0 .. 2 /\ stored' \in 0 .. AudioRing /\ ring' \in 0 .. PcmRing
        BY <2>2 DEF PluginFrame, Counted, TypeOK
      <3> QED
        BY <2>2, <3>1 DEF PluginFrame, TypeOK
    <2>3. CASE PluginInit \/ PluginAbort \/ PluginGiveUp \/ PluginExit
      BY <2>3 DEF PluginInit, PluginAbort, PluginGiveUp, PluginExit, TypeOK, voice, mic
    <2>4. CASE PluginSem
      BY <2>4 DEF PluginSem, TypeOK, mic
    <2> QED
      BY <1>5, <2>1, <2>2, <2>3, <2>4 DEF Plugin, Frame
  <1>6. CASE Utask
    <2>1. CASE Start \/ Stop \/ Event
      <3>1. queue' \in Seq(Commands \cup MicEvents) /\ Len(queue') <= QueueLen
        BY <2>1, ReceiveType DEF Start, Stop, Event
      <3>2. CASE Start
        <4>1. exited' \in BOOLEAN /\ running' \in BOOLEAN
          BY <3>2, Zenon DEF Start
        <4>2. plugin' \in {"none", "init", "sem", "loop", "call", "dead"}
          BY <3>2 DEF Start, TypeOK
        <4> QED
          BY <3>1, <3>2, <4>1, <4>2 DEF Start, TypeOK, mic
      <3>3. CASE Stop
        <4>1. busy' \in BOOLEAN /\ running' \in BOOLEAN /\ exited' \in BOOLEAN /\ served' \in BOOLEAN
          BY <3>3, Zenon DEF Stop, TypeOK
        <4>2. sem' \in 0 .. SemMax /\ utask' \in {"wait", "drain", "reset", "stop", "dead"}
          BY <3>3 DEF Stop, Signal, TypeOK
        <4> QED
          BY <3>1, <3>3, <4>1, <4>2, Zenon DEF Stop, TypeOK, mic
      <3>4. CASE Event
        BY <3>1, <3>4 DEF Event, TypeOK, voice, mic
      <3> QED
        BY <2>1, <3>2, <3>3, <3>4
    <2>2. CASE StopDone \/ Hear \/ Drained \/ EventEnd
      BY <2>2 DEF StopDone, Hear, Drained, EventEnd, TypeOK, voice, mic, tasks
    <2> QED
      BY <1>6, <2>1, <2>2 DEF Utask
  <1>7. CASE UNCHANGED vars
    BY <1>7 DEF vars, voice, mic, tasks, TypeOK
  <1> QED
    BY <1>1, <1>2, <1>3, <1>4, <1>5, <1>6, <1>7 DEF Next

\* evt_cnt, the queue and the rings keep to their bounds, whatever these are.
THEOREM MicTypes == Spec => []TypeOK
  <1>1. Init => TypeOK
    <2>1. <<>> \in Seq(Commands \cup MicEvents) /\ Len(<<>>) = 0
      BY EmptySeq
    <2>2. Init => queue \in Seq(Commands \cup MicEvents) /\ Len(queue) <= QueueLen
      BY <2>1, MicAssumption DEF Init
    <2>3. /\ 0 \in 0 .. SemMax /\ 0 \in 0 .. PcmRing
          /\ 0 \in 0 .. AudioRing /\ 0 \in 0 .. 2
      BY MicAssumption
    <2> QED
      BY <2>2, <2>3, Zenon DEF Init, TypeOK
  <1> QED
    BY <1>1, TypeStep, PTL DEF Spec

-----------------------------------------------------------------------------
\* The handshake of stop and exit is kept by every step.
LEMMA HandshakeStep == Handshake /\ [Next]_vars => Handshake'
  <1> SUFFICES ASSUME Handshake, [Next]_vars PROVE Handshake'
    OBVIOUS
  <1>1. CASE Start
    BY <1>1, Zenon DEF Start, Receive, Handshake, StopIsFinal
  <1>2. CASE Stop
    BY <1>2, Zenon DEF Stop, Receive, Handshake, StopIsFinal
  <1>3. CASE StopDone
    BY <1>3, Zenon DEF StopDone, voice, Handshake, StopIsFinal
  <1>4. CASE Event
    BY <1>4, Zenon DEF Event, Receive, voice, Handshake, StopIsFinal
  <1>5. CASE Hear \/ Drained \/ EventEnd
    BY <1>5 DEF Hear, Drained, EventEnd, voice, tasks, Handshake, StopIsFinal
  <1>6. CASE Plugin
    <2>1. ASSUME NEW read, PluginFrame(read) PROVE Handshake'
      BY <2>1 DEF PluginFrame, Handshake, StopIsFinal
    <2>2. CASE PluginInit \/ PluginAbort \/ PluginSem \/ PluginSend \/ PluginGiveUp \/ PluginExit
      BY <2>2 DEF PluginInit, PluginAbort, PluginSem, PluginSend, PluginGiveUp, PluginExit, voice,
                  Handshake, StopIsFinal
    <2> QED
      BY <1>6, <2>1, <2>2 DEF Plugin, Frame
  <1>7. CASE Application \/ PcmData \/ Wakeup \/ Sends
    BY <1>7 DEF Application, Command, PcmControl, PcmData, Wakeup, Sends, ServiceSend,
                ServiceGiveUp, voice, tasks, Handshake, StopIsFinal
  <1>8. CASE UNCHANGED vars
    BY <1>8 DEF vars, voice, tasks, Handshake, StopIsFinal
  <1> QED
    BY <1>1, <1>2, <1>3, <1>4, <1>5, <1>6, <1>7, <1>8 DEF Next, Utask

\* When mic_adaptor_stop has returned the plugin task is gone, for any queue.
THEOREM StopsForGood == Spec => []StopIsFinal
  <1>1. Init => Handshake
    BY DEF Init, Handshake, StopIsFinal
  <1>2. Handshake => StopIsFinal
    BY DEF Handshake
  <1> QED
    BY <1>1, <1>2, HandshakeStep, PTL DEF Spec

-----------------------------------------------------------------------------
\* The places of commands are finitely many numbers.
LEMMA WaitingFinite ==
    ASSUME TypeOK
    PROVE  IsFiniteSet(Waiting) /\ Cardinality(Waiting) \in Nat
  <1>1. Len(queue) \in Nat
    BY DEF TypeOK
  <1>2. IsFiniteSet(1 .. Len(queue))
    BY <1>1, FS_Interval
  <1>3. Waiting \subseteq 1 .. Len(queue)
    BY DEF Waiting
  <1> QED
    BY <1>2, <1>3, FS_Subset, FS_CardinalityType

\* No message is both a command and an event.
LEMMA Kinds == Commands \cap MicEvents = {}
  BY DEF Commands, MicEvents

\* An event that is posted takes no command's place.
LEMMA PostEvent ==
    ASSUME TypeOK, Room, NEW m \in MicEvents, Post(m)
    PROVE  Room' /\ \E j \in 1 .. Len(queue') : queue'[j] \in MicEvents
  <1>1. Len(queue) \in Nat
    BY DEF TypeOK
  <1>2. /\ Len(queue') = Len(queue) + 1 /\ queue'[Len(queue) + 1] = m
        /\ \A j \in 1 .. Len(queue) : queue'[j] = queue[j]
    BY PostType
  <1>3. Waiting' = Waiting
    BY <1>1, <1>2, Kinds DEF Waiting
  <1>4. Len(queue) + 1 \in 1 .. Len(queue')
    BY <1>1, <1>2
  <1> QED
    BY <1>2, <1>3, <1>4 DEF Room

\* A command that is posted adds one place.
LEMMA PostCommand ==
    ASSUME TypeOK, NEW c \in Commands, Command(c)
    PROVE  Room'
  <1>1. Len(queue) \in Nat
    BY DEF TypeOK
  <1>2. Post(c) /\ Cardinality(Waiting) < MaxCommands
    BY DEF Command
  <1>3. /\ Len(queue') = Len(queue) + 1 /\ queue'[Len(queue) + 1] = c
        /\ \A j \in 1 .. Len(queue) : queue'[j] = queue[j]
    BY <1>2, PostType
  <1>4. Waiting' = Waiting \cup {Len(queue) + 1}
    BY <1>1, <1>3 DEF Waiting
  <1>5. Len(queue) + 1 \notin Waiting
    BY <1>1 DEF Waiting
  <1>6. Cardinality(Waiting') = Cardinality(Waiting) + 1
    BY <1>4, <1>5, WaitingFinite, FS_AddElement
  <1> QED
    BY <1>2, <1>6, WaitingFinite, MicAssumption DEF Room

\* Receiving a message moves the places down by one.
LEMMA ReceiveRoom ==
    ASSUME TypeOK, Room, NEW m, Receive(m)
    PROVE  Room'
  <1>1. /\ Len(queue) \in Nat \ {0} /\ Len(queue') = Len(queue) - 1
        /\ \A j \in 1 .. Len(queue') : queue'[j] = queue[j + 1]
    BY ReceiveType
  <1> DEFINE f == [j \in Waiting' |-> j + 1]
  <1>2. f \in Injection(Waiting', Waiting)
    <2>1. ASSUME NEW j \in Waiting' PROVE j \in Nat /\ j + 1 \in Waiting
      BY <1>1 DEF Waiting
    <2>2. f \in [Waiting' -> Waiting]
      BY <2>1
    <2>3. \A a, b \in Waiting' : f[a] = f[b] => a = b
      BY <2>1
    <2> QED
      BY <2>2, <2>3 DEF Injection, IsInjective
  <1>3. Cardinality(Waiting') <= Cardinality(Waiting) /\ Cardinality(Waiting') \in Nat
    BY <1>2, WaitingFinite, FS_Injection, FS_CardinalityType
  <1> QED
    BY <1>3, WaitingFinite, MicAssumption DEF Room

\* A full queue holds an event.
LEMMA FullHasEvent ==
    ASSUME TypeOK, Room, Full
    PROVE  \E j \in 1 .. Len(queue) : queue[j] \in MicEvents
  <1> SUFFICES ASSUME \A j \in 1 .. Len(queue) : queue[j] \notin MicEvents PROVE FALSE
    OBVIOUS
  <1>1. \A j \in 1 .. Len(queue) : queue[j] \in Commands
    BY DEF TypeOK
  <1>2. Waiting = 1 .. QueueLen
    BY <1>1 DEF Waiting, Full
  <1>3. Cardinality(Waiting) = QueueLen
    BY <1>2, FS_Interval, MicAssumption
  <1> QED
    BY <1>3, MicAssumption DEF Room

\* An event is pending after a step as it was before, unless sends just fail.
LEMMA PendingStep ==
    ASSUME Faults = FALSE, IInv, [Next]_vars
    PROVE  Room' /\ EventPending'
  <1> USE DEF IInv
  <1>1. ASSUME UNCHANGED queue PROVE Room'
    BY <1>1 DEF Room, Waiting
  <1>2. ASSUME UNCHANGED <<queue, evt_cnt, plugin, utask>> PROVE Room' /\ EventPending'
    BY <1>1, <1>2 DEF EventPending
  <1>3. CASE Application
    <2>1. ASSUME NEW c \in Commands, Command(c) PROVE Room' /\ EventPending'
      <3>1. Len(queue) \in Nat /\ Len(queue') = Len(queue) + 1
            /\ \A j \in 1 .. Len(queue) : queue'[j] = queue[j]
        BY <2>1, PostType DEF Command, TypeOK
      <3>2. EventPending'
        BY <2>1, <3>1 DEF Command, EventPending, mic, tasks
      <3> QED
        BY <2>1, <3>2, PostCommand
    <2>2. ASSUME NEW e \in BOOLEAN, PcmControl(e) PROVE Room' /\ EventPending'
      BY <2>2, <1>2 DEF PcmControl, mic, tasks
    <2> QED
      BY <1>3, <2>1, <2>2 DEF Application
  <1>4. CASE PcmData \/ Wakeup \/ ServiceGiveUp \/ PluginInit \/ PluginAbort \/ PluginSem \/ PluginExit
    <2>1. CASE PcmData \/ Wakeup \/ ServiceGiveUp
      BY <2>1, <1>2 DEF PcmData, Wakeup, ServiceGiveUp, mic, tasks
    <2>2. CASE PluginInit \/ PluginAbort \/ PluginSem \/ PluginExit
      <3>1. /\ UNCHANGED <<queue, evt_cnt>> /\ plugin # "call"
            /\ UNCHANGED utask \/ plugin' = "dead"
            /\ plugin # "dead"
        BY <2>2 DEF PluginInit, PluginAbort, PluginSem, PluginExit, mic
      <3> QED
        BY <3>1, <1>1 DEF EventPending
    <2> QED
      BY <1>4, <2>1, <2>2
  <1>5. CASE ServiceSend
    BY <1>5, PostEvent DEF ServiceSend, EventPending, MicEvents
  <1>6. CASE PluginSend
    BY <1>6, PostEvent DEF PluginSend, EventPending, MicEvents
  <1>7. CASE PluginGiveUp
    <2>1. UNCHANGED queue /\ Full
      BY <1>7 DEF PluginGiveUp, GivesUp
    <2> QED
      BY <2>1, <1>1, FullHasEvent DEF EventPending
  <1>8. ASSUME NEW read \in {1, PCM_CHANNELS}, PluginFrame(read) PROVE Room' /\ EventPending'
    <2>1. UNCHANGED <<queue, utask>> /\ plugin = "loop" /\ evt_cnt' = Counted(evt_cnt)
          /\ plugin' = IF Notifies(evt_cnt') THEN "call" ELSE "loop"
      BY <1>8 DEF PluginFrame
    <2>2. CASE evt_cnt = 0
      BY <2>1, <2>2, <1>1 DEF Counted, Notifies, EventPending
    <2>3. CASE evt_cnt > 0
      BY <2>1, <2>3, <1>1 DEF EventPending
    <2> QED
      BY <2>2, <2>3 DEF TypeOK
  <1>9. CASE Start \/ Stop
    <2>1. PICK m \in Commands : Receive(m)
      BY <1>9 DEF Start, Stop, Commands
    <2>2. /\ Len(queue) \in Nat \ {0} /\ Len(queue') = Len(queue) - 1
          /\ \A j \in 1 .. Len(queue') : queue'[j] = queue[j + 1]
          /\ queue[1] = m
      BY <2>1, ReceiveType
    <2>3. utask = "wait" /\ UNCHANGED evt_cnt
      BY <1>9, <2>1 DEF Start, Stop, Receive, mic
    <2>4. plugin \in {"call", "dead"} => plugin' = plugin
      <3>1. plugin \in {"call", "dead"} => running
        BY <2>3 DEF Handshake, StopIsFinal
      <3> QED
        BY <1>9, <3>1 DEF Start, Stop
    <2>5. ASSUME NEW j \in 1 .. Len(queue), queue[j] \in MicEvents
          PROVE  \E k \in 1 .. Len(queue') : queue'[k] \in MicEvents
      <3>1. j # 1
        BY <2>1, <2>2, <2>5, Kinds
      <3>2. j - 1 \in 1 .. Len(queue') /\ (j - 1) + 1 = j
        BY <2>2, <3>1
      <3> QED
        BY <2>2, <2>5, <3>2
    <2>6. EventPending'
      BY <2>3, <2>4, <2>5 DEF EventPending
    <2> QED
      BY <2>1, <2>6, ReceiveRoom
  <1>10. CASE Event
    <2>1. PICK m : Receive(m)
      BY <1>10 DEF Event
    <2>2. utask' \in {"drain", "reset"}
      BY <1>10 DEF Event
    <2> QED
      BY <2>1, <2>2, ReceiveRoom DEF EventPending
  <1>11. CASE StopDone \/ Hear \/ Drained
    <2>1. UNCHANGED <<queue, evt_cnt, plugin>>
          /\ (utask \in {"drain", "reset"} => utask' \in {"drain", "reset"})
      BY <1>11 DEF StopDone, Hear, Drained, mic, tasks
    <2> QED
      BY <2>1, <1>1 DEF EventPending
  <1>12. CASE EventEnd
    BY <1>12, <1>1 DEF EventEnd, EventPending
  <1>13. CASE UNCHANGED vars
    BY <1>13, <1>2 DEF vars, mic, tasks
  <1> QED
    BY <1>3, <1>4, <1>5, <1>6, <1>7, <1>8, <1>9, <1>10, <1>11, <1>12, <1>13
       DEF Next, Sends, Plugin, Frame, Utask

\* While the utask keeps up with its queue, the count in mic_event_hdl never
\* holds back an event that nothing else would make good.
THEOREM EventNeverForgotten == Faults = FALSE => (Spec => []EventPending)
  <1> SUFFICES ASSUME Faults = FALSE PROVE Spec => []EventPending
    OBVIOUS
  <1>1. Init => Handshake /\ Room /\ EventPending
    <2>1. Init => Handshake /\ EventPending
      BY DEF Init, Handshake, StopIsFinal, EventPending
    <2>2. ASSUME Init PROVE Room
      <3>1. Waiting = {}
        BY <2>2 DEF Init, Waiting
      <3> QED
        BY <3>1, FS_EmptySet, MicAssumption DEF Room
    <2> QED
      BY <2>1, <2>2
  <1>2. TypeOK /\ (Handshake /\ Room /\ EventPending) /\ [Next]_vars
        => (Handshake /\ Room /\ EventPending)'
    BY HandshakeStep, PendingStep DEF IInv
  <1> QED
    BY <1>1, <1>2, MicTypes, PTL DEF Spec

=============================================================================
