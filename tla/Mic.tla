--------------------------------- MODULE Mic ---------------------------------
(***************************************************************************)
(* The microphone path of the application core.                            *)
(*                                                                         *)
(*   ipc service task        plugin task             utask of the mic      *)
(*   _mic_input_event  -->   plugin_task_entry  -->  _event_hdl  --> app   *)
(*            ring of TYPE_PCM           ring of audio[MIC_AEC_DATA]       *)
(*                                       and _EVENT_CMD in its queue       *)
(*                                                                         *)
(* voice_mind/voice_mind.c, voice_wrapper/aui_mic_imp.c and the service    *)
(* queue of multimedia/uservice.  Both rings are taken as the queues that  *)
(* Ringbuf shows them to be and count mono frames of 320 bytes; what the   *)
(* frames hold is left out.                                                *)
(*                                                                         *)
(* The ipc service has priority 9, the plugin task 11 and a utask          *)
(* AOS_DEFAULT_APP_PRI (32), where less is more urgent: what the first two *)
(* do between two waits is one step, and the utask can be preempted        *)
(* anywhere.                                                               *)
(***************************************************************************)
EXTENDS Naturals, Sequences, FiniteSets

CONSTANTS
    QueueLen,      \* messages in the queue of the utask (QUEUE_MSG_COUNT)
    MaxCommands,   \* bound on start and stop commands that wait in it
    PcmRing,       \* frames that the ring of TYPE_PCM holds
    AudioRing,     \* frames that the ring of aui_mic holds
    PCM_CHANNELS,  \* frames read for one frame in the modes other than mono
    SemMax,        \* bound on the count of pcm_sem
    Faults         \* may the send of an event fail at any time?

ASSUME MicAssumption ==
    /\ QueueLen \in Nat \ {0} /\ PcmRing \in Nat /\ AudioRing \in Nat \ {0}
    /\ SemMax \in Nat \ {0} /\ PCM_CHANNELS \in 1 .. PcmRing
    /\ MaxCommands \in 0 .. QueueLen - 1
    /\ Faults \in BOOLEAN

Commands == {"start", "stop"}
MicEvents == {"pcm", "session"}   \* _EVENT_CMD with its evt_id

VARIABLES
    busy,      \* g_voice_priv.state = VOICE_STATE_BUSY
    running,   \* g_voice_priv.task_running
    exited,    \* g_voice_priv.task_exit
    sem,       \* the count of pcm_sem
    served,    \* has DataInput_Init registered the ipc service?
    ring,      \* frames in the ring of TYPE_PCM
    stored,    \* frames in the ring of aui_mic
    evt_cnt,   \* mic->evt_cnt
    queue,     \* the queue of the utask
    service,   \* the ipc service task: "idle" or in uservice_call
    plugin,    \* the plugin task
    utask      \* the utask

voice == <<busy, running, exited, sem, served, ring>>
mic   == <<stored, evt_cnt>>
tasks == <<service, plugin, utask>>
vars  == <<voice, mic, queue, tasks>>

Init ==
    /\ busy = FALSE /\ running = FALSE /\ exited = FALSE /\ served = FALSE
    /\ sem = 0 /\ ring = 0 /\ stored = 0 /\ evt_cnt = 0
    /\ queue = <<>>
    /\ service = "idle" /\ plugin = "none" /\ utask = "wait"

\* aos_sem_signal, up to the bound.
Signal == sem' = IF sem < SemMax THEN sem + 1 ELSE sem

Full == Len(queue) = QueueLen

\* msp_queue_send: a message is refused at once when the queue is full.
Post(m) == ~Full /\ queue' = Append(queue, m)
-----------------------------------------------------------------------------
(* The application. *)

\* The places of the commands in the queue.
Waiting == {j \in 1 .. Len(queue) : queue[j] \in Commands}

\* aui_mic_start and aui_mic_stop; a call that fails changes nothing.
Command(c) ==
    /\ plugin # "dead" /\ Cardinality(Waiting) < MaxCommands
    /\ Post(c)
    /\ UNCHANGED <<voice, mic, tasks>>

\* MIC_CTRL_START_PCM and MIC_CTRL_STOP_PCM: mic_adaptor_pcm_data_control
PcmControl(enable) ==
    /\ plugin # "dead"
    /\ busy' = enable
    /\ IF enable THEN Signal ELSE sem' = sem
    /\ UNCHANGED <<running, exited, served, ring, mic, queue, tasks>>
-----------------------------------------------------------------------------
(* The ipc service task: _msg_process and _mic_input_event. *)

\* A frame from the other core is kept while the session is busy and it fits.
PcmData ==
    /\ service = "idle" /\ served /\ busy
    /\ ring < PcmRing
    /\ ring' = ring + 1
    /\ UNCHANGED <<busy, running, exited, sem, served, mic, queue, tasks>>

\* The wake word: unless the microphone is muted, mic_event_hdl sends
\* MIC_EVENT_SESSION_START whatever evt_cnt is.
Wakeup ==
    /\ service = "idle" /\ served
    /\ service' = "call"
    /\ UNCHANGED <<voice, mic, queue, plugin, utask>>

ServiceSend ==
    /\ service = "call"
    /\ Post("session")
    /\ service' = "idle"
    /\ UNCHANGED <<voice, mic, plugin, utask>>

\* Bug: a call waits until there is room.
GivesUp_Never == FALSE

\* uservice_call gives up after ten tries in a second, and
\* uservice_call_async when there is no memory.  Without faults the utask
\* makes room in time, except while it waits for the plugin task itself.
GivesUp == Faults \/ (Full /\ utask = "stop")

ServiceGiveUp ==
    /\ service = "call" /\ GivesUp
    /\ service' = "idle"
    /\ UNCHANGED <<voice, mic, queue, plugin, utask>>
-----------------------------------------------------------------------------
(* The plugin task: plugin_task_entry. *)

PluginInit ==
    /\ plugin = "init"
    /\ served' = TRUE
    /\ plugin' = "sem"
    /\ UNCHANGED <<busy, running, exited, sem, ring, mic, queue, service, utask>>

\* The second time, DataInput_Init runs into the assertion of ipc_add_service.
\* A build that keeps assert() ends in abort(), which stops the core; one that
\* does not goes on with PluginInit.
PluginAbort ==
    /\ plugin = "init" /\ served
    /\ plugin' = "dead" /\ utask' = "dead" /\ service' = "dead"
    /\ UNCHANGED <<voice, mic, queue>>

PluginSem ==
    /\ plugin = "sem" /\ sem > 0
    /\ sem' = sem - 1
    /\ plugin' = "loop"
    /\ UNCHANGED <<busy, running, exited, served, ring, mic, queue, service, utask>>

\* Bug: the event is sent on a count below one.
Notifies_Never(n) == n < 1

\* mic_event_hdl: the count after this frame decides whether an event is sent.
Notifies(n) == n < 2

\* Bug: the count is not capped.
Counted_On(n) == n + 1

Counted(n) == IF n < 2 THEN n + 1 ELSE n

\* A frame is made of one or, in the de-interleaving modes, PCM_CHANNELS of the
\* ring's frames (the mode is read from kv again and again), and goes to
\* mic_event_hdl, which drops it if its own ring is full.
PluginFrame(read) ==
    /\ plugin = "loop" /\ running
    /\ ring >= read
    /\ ring' = ring - read
    /\ stored' = IF stored < AudioRing THEN stored + 1 ELSE stored
    /\ evt_cnt' = Counted(evt_cnt)
    /\ plugin' = IF Notifies(evt_cnt') THEN "call" ELSE "loop"
    /\ UNCHANGED <<busy, running, exited, sem, served, queue, service, utask>>

PluginSend ==
    /\ plugin = "call"
    /\ Post("pcm")
    /\ plugin' = "loop"
    /\ UNCHANGED <<voice, mic, service, utask>>

\* The result of uservice_call_async is not looked at.
PluginGiveUp ==
    /\ plugin = "call" /\ GivesUp
    /\ plugin' = "loop"
    /\ UNCHANGED <<voice, mic, queue, service, utask>>

PluginExit ==
    /\ plugin = "loop" /\ ~running
    /\ exited' = TRUE
    /\ plugin' = "none"
    /\ UNCHANGED <<busy, running, sem, served, ring, mic, queue, service, utask>>
-----------------------------------------------------------------------------
(* The utask: utask_entry and the handlers of aui_mic. *)

Receive(m) == utask = "wait" /\ queue # <<>> /\ Head(queue) = m /\ queue' = Tail(queue)

\* Bug: task_exit keeps the value of the last run.
Start_Keeps ==
    /\ Receive("start")
    /\ running' = TRUE
    /\ plugin' = IF running THEN plugin ELSE "init"
    /\ UNCHANGED <<busy, exited, sem, served, ring, mic, service, utask>>

\* mic_adaptor_start, which refuses to start a second time
Start ==
    /\ Receive("start")
    /\ running' = TRUE
    /\ exited' = (exited /\ running)
    /\ plugin' = IF running THEN plugin ELSE "init"
    /\ UNCHANGED <<busy, sem, served, ring, mic, service, utask>>

\* mic_adaptor_stop up to its loop; it refuses if nothing runs
Stop ==
    /\ Receive("stop")
    /\ running' = FALSE
    /\ IF running THEN Signal /\ utask' = "stop" ELSE UNCHANGED <<sem, utask>>
    /\ UNCHANGED <<busy, exited, served, ring, mic, service, plugin>>

\* ... and the loop
StopDone ==
    /\ utask = "stop" /\ exited
    /\ utask' = "wait"
    /\ UNCHANGED <<voice, mic, queue, service, plugin>>

\* _event_hdl: the events other than MIC_EVENT_PCM_DATA are one callback.
Event ==
    /\ \/ Receive("pcm") /\ utask' = "drain"
       \/ Receive("session") /\ utask' = "reset"
    /\ UNCHANGED <<voice, mic, service, plugin>>

\* One frame is read and given to the application ...
Hear ==
    /\ utask = "drain" /\ stored > 0
    /\ stored' = stored - 1
    /\ UNCHANGED <<voice, evt_cnt, queue, tasks>>

\* ... until the ring is found empty.
Drained ==
    /\ utask = "drain" /\ stored = 0
    /\ utask' = "reset"
    /\ UNCHANGED <<voice, mic, queue, service, plugin>>

\* Bug: the count is left as it is.
EventEnd_Keeps ==
    /\ utask = "reset"
    /\ utask' = "wait"
    /\ UNCHANGED <<voice, mic, queue, service, plugin>>

\* The end of _event_hdl clears the count after every event.
EventEnd ==
    /\ utask = "reset"
    /\ evt_cnt' = 0
    /\ utask' = "wait"
    /\ UNCHANGED <<voice, stored, queue, service, plugin>>
-----------------------------------------------------------------------------
Application == (\E c \in Commands : Command(c)) \/ (\E e \in BOOLEAN : PcmControl(e))

Frame == \E read \in {1, PCM_CHANNELS} : PluginFrame(read)

Sends == ServiceSend \/ ServiceGiveUp

Plugin == \/ PluginInit \/ PluginAbort \/ PluginSem \/ Frame
          \/ PluginSend \/ PluginGiveUp \/ PluginExit

Utask == Start \/ Stop \/ StopDone \/ Event \/ Hear \/ Drained \/ EventEnd

Next == Application \/ PcmData \/ Wakeup \/ Sends \/ Plugin \/ Utask

\* The tasks are scheduled; nothing obliges the application to act or the
\* other core to send.
Fairness == WF_vars(Sends) /\ WF_vars(Plugin) /\ WF_vars(Utask)

Spec == Init /\ [][Next]_vars /\ Fairness
-----------------------------------------------------------------------------
(* Properties. *)

\* evt_cnt counts to two, and the queue and the rings keep to their sizes.
TypeOK ==
    /\ busy \in BOOLEAN /\ running \in BOOLEAN /\ exited \in BOOLEAN /\ served \in BOOLEAN
    /\ sem \in 0 .. SemMax /\ ring \in 0 .. PcmRing
    /\ stored \in 0 .. AudioRing /\ evt_cnt \in 0 .. 2
    /\ queue \in Seq(Commands \cup MicEvents) /\ Len(queue) <= QueueLen
    /\ service \in {"idle", "call", "dead"}
    /\ plugin \in {"none", "init", "sem", "loop", "call", "dead"}
    /\ utask \in {"wait", "drain", "reset", "stop", "dead"}

\* While evt_cnt keeps mic_event_hdl from sending, an event is on its way that
\* will clear it: in the queue, in _event_hdl, or in the plugin task's hands
\* (if it has not stopped the core).
EventPending ==
    evt_cnt > 0 => \/ plugin \in {"call", "dead"}
                   \/ utask \in {"drain", "reset"}
                   \/ \E j \in 1 .. Len(queue) : queue[j] \in MicEvents

\* When mic_adaptor_stop has returned, the plugin task is gone; so _start never
\* makes a second one beside it.
StopIsFinal == ~running /\ utask \in {"wait", "drain", "reset"} => plugin = "none"

\* As long as frames come out of the plugin task, the application goes on
\* hearing them: the count in mic_event_hdl never silences the stream, whatever
\* wake words, commands, stops, starts and failed calls came before.  The
\* premise is that stops and failed calls come to an end.
Heard == /\ []<><<Frame>>_vars
         /\ <>[](utask # "stop")
         /\ <>[][~(PluginGiveUp \/ ServiceGiveUp)]_vars
         => []<><<Hear>>_vars

\* mic_adaptor_stop returns, even if the plugin task is stuck in a call to the
\* very utask that waits for it (or the core stops before it can).
Stops == (utask = "stop") ~> (utask # "stop")

=============================================================================
