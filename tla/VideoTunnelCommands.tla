------------------------ MODULE VideoTunnelCommands ------------------------
(***************************************************************************)
(* drivers/media/video_processor/videotunnel/videotunnel.c: the commands   *)
(* from the producer of a tunnel to its consumer, and the calls that wait: *)
(* poll on the device and VT_CTRL_POLL_CMD.  A command goes into a fifo;   *)
(* the tunnel remembers its mode and the last command, and sends them      *)
(* again to a consumer that connects.                                      *)
(*                                                                         *)
(* Three locks matter.  Sending holds dev->instance_lock and, inside it,   *)
(* instance->cmd_lock for the fifo and then instance->lock for the wakeup; *)
(* connecting holds instance->lock and, inside it, cmd_lock for each       *)
(* command sent again.  A step is what happens under one holding of the    *)
(* innermost lock.  The rectangles of crop and display frame are resent    *)
(* like the commands of this module and left out.  Of the buffers only     *)
(* what poll looks at is here: whether a fifo holds some (VideoTunnel has  *)
(* the rest).                                                              *)
(***************************************************************************)
EXTENDS Integers, Sequences

CONSTANTS
  Producer, Consumers,   \* sessions
  Closers,               \* sessions whose process may die
  Uses,                  \* the ways in which the tunnel may be used
  VT_CMD_FIFO_SIZE,
  Pending,               \* bound: nothing is sent while more commands wait
  None

\* VT_VIDEO_SET_GAME_MODE with its data, VT_VIDEO_SET_STATUS with a status
\* that lasts (HIDE) and one that does not (SHOW).
AllKinds == {"game_on", "game_off", "hide", "show"}
Sessions == {Producer} \cup Consumers

ASSUME SessionsAssumption ==
  /\ Producer \notin Consumers /\ None \notin Sessions
  /\ Closers \subseteq Sessions

\* A use of the tunnel: the sessions that disconnect and the commands that are
\* sent.
ASSUME CommandsAssumption ==
  /\ Uses \subseteq [leavers : SUBSET Sessions, kinds : SUBSET AllKinds]
  /\ VT_CMD_FIFO_SIZE \in Nat /\ Pending \in Nat

VARIABLES
  producer, consumer, mode, last_cmd, fifo_cmd,   \* struct vt_instance
  outgoing, returning,       \* is there a buffer in the fifo to the consumer, producer?
  session_mode, cmd_status,  \* struct vt_session; cmd_status only as "> 0"
  use,                       \* how the tunnel is used, once and for all
  pc, woken,                 \* where a session's call is; its poll was woken
  told,                      \* history: a consumer's last status was HIDE
  late,                      \* history: a command was sent to a consumer since it
                             \* last cleared its cmd_status
  unheard,                   \* history: of what no consumer is told that it ended
  behind                     \* history: what a consumer knew when it disconnected
                             \* and has not been told again

instanceVars == <<producer, consumer, mode, last_cmd, fifo_cmd>>
bufferVars == <<outgoing, returning>>
sessionVars == <<session_mode, cmd_status>>
historyVars == <<told, late, unheard, behind>>
vars == <<instanceVars, bufferVars, sessionVars, use, pc, woken, historyVars>>

\* What the commands are about.
GameKinds == {"game_on", "game_off"}
StatusKinds == {"hide", "show"}
Matters == {"game", "status"}

Sending == {"wake"}
Connecting == {"resend", "again", "status", "join"}
PollCmd == {"check", "reset", "wait", "recheck"}
Poll == {"poll", "poll2", "asleep"}

TypeOK ==
  /\ use \in Uses
  /\ producer \in {Producer, None} /\ consumer \in Consumers \cup {None}
  /\ mode \in {"none", "game"} /\ last_cmd \in use.kinds \cup {"invalid"}
  /\ fifo_cmd \in Seq(use.kinds) /\ Len(fifo_cmd) <= VT_CMD_FIFO_SIZE
  /\ outgoing \in BOOLEAN /\ returning \in BOOLEAN
  /\ session_mode \in [Consumers -> {"block", "none", "game"}]
  /\ cmd_status \in [Consumers -> BOOLEAN]
  /\ pc \in [Sessions -> {"out"} \cup Sending \cup Connecting \cup PollCmd \cup Poll]
  /\ woken \in [Sessions -> BOOLEAN]
  /\ told \in [Consumers -> BOOLEAN] /\ late \in [Consumers -> BOOLEAN]
  /\ unheard \subseteq Matters /\ behind \subseteq Consumers \X Matters

Init ==
  /\ use \in Uses
  /\ producer = None /\ consumer = None /\ mode = "none" /\ last_cmd = "invalid"
  /\ fifo_cmd = <<>> /\ outgoing = FALSE /\ returning = FALSE
  /\ session_mode = [c \in Consumers |-> "block"]
  /\ cmd_status = [c \in Consumers |-> FALSE]
  /\ pc = [s \in Sessions |-> "out"] /\ woken = [s \in Sessions |-> FALSE]
  /\ told = [c \in Consumers |-> FALSE] /\ late = [c \in Consumers |-> FALSE]
  /\ unheard = {} /\ behind = {}
-----------------------------------------------------------------------------
Goto(s, where) == pc' = [pc EXCEPT ![s] = where]

\* instance->lock is held through a connection; dev->instance_lock is held
\* from the fifo to the wakeup of a command.
InstanceUnlocked == \A s \in Sessions : pc[s] \notin Connecting
DevUnlocked == \A s \in Sessions : pc[s] \notin Sending

\* kfifo_put, whose result nobody looks at.
Put(cmd) ==
  fifo_cmd' = IF Len(fifo_cmd) < VT_CMD_FIFO_SIZE THEN Append(fifo_cmd, cmd) ELSE fifo_cmd

\* Faulty version: the mode is left for the blocking mode of a session.
ModeBlocking(cmd) ==
  CASE cmd = "game_on" -> "game" [] cmd = "game_off" -> "block" [] OTHER -> mode

\* The tunnel's mode when a command has been put into the fifo.
ModeAfter(cmd) ==
  CASE cmd = "game_on" -> "game" [] cmd = "game_off" -> "none" [] OTHER -> mode

\* A connection between its look at the mode, or at the last command, and what
\* it sends again comes after the command that ends it.
Overtaken(cmd) ==
  {m \in Matters : \E c \in Consumers :
     \/ m = "game" /\ cmd = "game_off" /\ pc[c] = "resend"
     \/ m = "status" /\ cmd = "show" /\ pc[c] = "status"}

About(cmd) == {m \in Matters : cmd \in (IF m = "game" THEN GameKinds ELSE StatusKinds)}

\* vt_send_cmd up to the wakeup.  A status needs a consumer, the game mode
\* does not.
SendCmd(cmd) ==
  /\ pc[Producer] = "out" /\ producer = Producer /\ DevUnlocked
  /\ Len(fifo_cmd) < Pending
  /\ cmd \in StatusKinds => consumer # None
  /\ mode' = ModeAfter(cmd) /\ last_cmd' = cmd /\ Put(cmd)
  /\ late' = [c \in Consumers |-> late[c] \/ c = consumer]
  /\ unheard' = (unheard \ About(cmd)) \cup Overtaken(cmd)
  /\ Goto(Producer, "wake")
  /\ UNCHANGED <<use, producer, consumer, bufferVars, sessionVars, woken, told, behind>>

\* Faulty version: only the first command in the fifo is counted.
FirstCounted == [c \in Consumers |-> cmd_status[c] \/ (c = consumer /\ Len(fifo_cmd) = 1)]

Counted == [c \in Consumers |-> cmd_status[c] \/ c = consumer]

\* The second half: the consumer's cmd_status and its wait_cmd queue.
WakeConsumer ==
  /\ pc[Producer] = "wake" /\ InstanceUnlocked
  /\ cmd_status' = Counted
  /\ Goto(Producer, "out")
  /\ UNCHANGED <<use, instanceVars, bufferVars, session_mode, woken, historyVars>>

\* The oldest command is received; a game mode command sets the session's mode.
RecvCmd(c) ==
  /\ pc[c] = "out" /\ consumer = c /\ fifo_cmd # <<>>
  /\ fifo_cmd' = Tail(fifo_cmd)
  /\ session_mode' = [session_mode EXCEPT ![c] =
       CASE Head(fifo_cmd) = "game_on" -> "game"
         [] Head(fifo_cmd) = "game_off" -> "none"
         [] OTHER -> @]
  /\ told' = [told EXCEPT ![c] =
       CASE Head(fifo_cmd) = "hide" -> TRUE [] Head(fifo_cmd) = "show" -> FALSE [] OTHER -> @]
  /\ behind' = behind \ ({c} \X About(Head(fifo_cmd)))
  /\ UNCHANGED <<use, producer, consumer, mode, last_cmd, bufferVars, cmd_status, pc, woken, late, unheard>>
-----------------------------------------------------------------------------
\* Who is connected may connect again.
ConnectProducer ==
  /\ pc[Producer] = "out" /\ InstanceUnlocked /\ DevUnlocked
  /\ producer' = Producer /\ last_cmd' = "invalid"
  /\ UNCHANGED <<use, consumer, mode, fifo_cmd, bufferVars, sessionVars, pc, woken, historyVars>>

\* A consumer connects: vt_resend_cmd looks at the mode and at the last
\* command, and sends each again under cmd_lock.
Connect(c) ==
  /\ pc[c] = "out" /\ InstanceUnlocked /\ DevUnlocked /\ consumer \in {None, c}
  /\ Len(fifo_cmd) < Pending
  /\ Goto(c, IF mode = "game" THEN "resend" ELSE "again")
  /\ UNCHANGED <<use, instanceVars, bufferVars, sessionVars, woken, historyVars>>

\* Faulty version: the command is not sent again.
NotResent(c, cmd) == UNCHANGED <<fifo_cmd, cmd_status>>

Resent(c, cmd) == Put(cmd) /\ cmd_status' = [cmd_status EXCEPT ![c] = TRUE]

ResendGameMode(c) ==
  /\ pc[c] = "resend"
  /\ Resent(c, "game_on")
  /\ Goto(c, "again")
  /\ UNCHANGED <<use, producer, consumer, mode, last_cmd, bufferVars, session_mode, woken, historyVars>>

CheckLastCmd(c) ==
  /\ pc[c] = "again"
  /\ Goto(c, IF last_cmd = "hide" THEN "status" ELSE "join")
  /\ UNCHANGED <<use, instanceVars, bufferVars, sessionVars, woken, historyVars>>

ResendStatus(c) ==
  /\ pc[c] = "status"
  /\ Resent(c, "hide")
  /\ Goto(c, "join")
  /\ UNCHANGED <<use, producer, consumer, mode, last_cmd, bufferVars, session_mode, woken, historyVars>>

Join(c) ==
  /\ pc[c] = "join"
  /\ consumer' = c
  /\ Goto(c, "out")
  /\ UNCHANGED <<use, producer, mode, last_cmd, fifo_cmd, bufferVars, sessionVars, woken, historyVars>>

\* The mode ends and no command says so.
Unheard == unheard \cup {m \in {"game"} : mode = "game"}

\* What a session takes with it when it disconnects: it is not reset.
Known(c) ==
  {m \in {"game"} : session_mode[c] = "game"} \cup {m \in {"status"} : told[c]}

\* A consumer that leaves gives the buffers it was sent back to the producer.
Disconnect(c) ==
  /\ c \in use.leavers /\ pc[c] = "out" /\ consumer = c /\ InstanceUnlocked
  /\ consumer' = None /\ outgoing' = FALSE
  /\ returning' = (returning \/ (outgoing /\ producer # None))
  /\ behind' = behind \cup ({c} \X Known(c))
  /\ UNCHANGED <<use, producer, mode, last_cmd, fifo_cmd, sessionVars, pc, woken, told, late, unheard>>

\* A producer that leaves ends the mode and the memory of commands; the
\* commands in the fifo stay.
DisconnectProducer ==
  /\ Producer \in use.leavers /\ pc[Producer] = "out" /\ producer = Producer /\ InstanceUnlocked
  /\ producer' = None /\ mode' = "none" /\ last_cmd' = "invalid" /\ unheard' = Unheard
  /\ returning' = FALSE
  /\ UNCHANGED <<use, consumer, fifo_cmd, outgoing, sessionVars, pc, woken, told, late, behind>>

\* vt_instance_trim: the producer's mode ends with it, and so does the mode of
\* a tunnel that is left with nobody.
ModeWithout(s) ==
  IF producer = s \/ {producer, consumer} \subseteq {s, None} THEN "none" ELSE mode

\* A process dies outside or while it sleeps, and opens the device again: the
\* session is new.  The tunnel keeps its commands and the last one of them.
Reopen(s) ==
  /\ s \in Closers /\ pc[s] \in {"out", "asleep"} /\ InstanceUnlocked /\ DevUnlocked
  /\ producer' = IF producer = s THEN None ELSE producer
  /\ consumer' = IF consumer = s THEN None ELSE consumer
  /\ outgoing' = (outgoing /\ s # consumer /\ {producer', consumer'} # {None})
  /\ returning' = (returning /\ producer' # None)
  /\ mode' = ModeWithout(s)
  /\ unheard' = IF producer = s THEN Unheard ELSE unheard
  /\ session_mode' = [c \in Consumers |-> IF c = s THEN "block" ELSE session_mode[c]]
  /\ cmd_status' = [c \in Consumers |-> cmd_status[c] /\ c # s]
  /\ told' = [c \in Consumers |-> told[c] /\ c # s]
  /\ late' = [c \in Consumers |-> late[c] /\ c # s]
  /\ behind' = behind \ ({s} \X Matters)
  /\ Goto(s, "out") /\ woken' = [woken EXCEPT ![s] = FALSE]
  /\ UNCHANGED <<use, last_cmd, fifo_cmd>>
-----------------------------------------------------------------------------
\* The buffers, as far as poll sees them.  In game mode nothing is queued
\* without a consumer.  A queued buffer wakes the queue poll waits on, a
\* released one wakes only instance->wait_producer, which poll does not use.

\* Faulty version: only instance->wait_consumer is woken.
InstanceQueueWoken == woken

ConsumerWoken == [s \in Sessions |-> woken[s] \/ s = consumer]

Queue ==
  /\ pc[Producer] = "out" /\ producer = Producer /\ InstanceUnlocked
  /\ mode = "game" => consumer # None
  /\ outgoing' = TRUE
  /\ woken' = ConsumerWoken
  /\ UNCHANGED <<use, instanceVars, returning, sessionVars, pc, historyVars>>

Acquire(c) ==
  /\ pc[c] = "out" /\ consumer = c /\ outgoing /\ InstanceUnlocked
  /\ outgoing' \in BOOLEAN
  /\ UNCHANGED <<use, instanceVars, returning, sessionVars, pc, woken, historyVars>>

Release(c) ==
  /\ pc[c] = "out" /\ consumer = c /\ producer # None /\ InstanceUnlocked
  /\ returning' = TRUE
  /\ UNCHANGED <<use, instanceVars, outgoing, sessionVars, pc, woken, historyVars>>

Dequeue ==
  /\ pc[Producer] = "out" /\ producer = Producer /\ returning /\ InstanceUnlocked
  /\ returning' \in BOOLEAN
  /\ UNCHANGED <<use, instanceVars, outgoing, sessionVars, pc, woken, historyVars>>
-----------------------------------------------------------------------------
\* vt_poll_ready: what the session waits for is there.
ReadyCmd(s) == (s = producer /\ returning) \/ (s = consumer /\ fifo_cmd # <<>>)
ReadyBuffer(s) == (s = producer /\ returning) \/ (s = consumer /\ outgoing)

\* poll: the caller is put on its session's wait queue, looks for commands,
\* then for buffers, and sleeps if it found neither.
PollRegister(s) ==
  /\ pc[s] = "out" /\ s \in {producer, consumer}
  /\ woken' = [woken EXCEPT ![s] = FALSE] /\ Goto(s, "poll")
  /\ UNCHANGED <<use, instanceVars, bufferVars, sessionVars, historyVars>>

PollCmds(s) ==
  /\ pc[s] = "poll" /\ DevUnlocked /\ InstanceUnlocked
  /\ Goto(s, IF ReadyCmd(s) THEN "out" ELSE "poll2")
  /\ UNCHANGED <<use, instanceVars, bufferVars, sessionVars, woken, historyVars>>

PollBuffers(s) ==
  /\ pc[s] = "poll2" /\ DevUnlocked /\ InstanceUnlocked
  /\ Goto(s, IF ReadyBuffer(s) THEN "out" ELSE "asleep")
  /\ UNCHANGED <<use, instanceVars, bufferVars, sessionVars, woken, historyVars>>

\* Woken, the caller looks again; a timeout or a signal ends the call.
PollWake(s) ==
  /\ pc[s] = "asleep"
  /\ \/ woken[s] /\ Goto(s, "poll") /\ woken' = [woken EXCEPT ![s] = FALSE]
     \/ Goto(s, "out") /\ UNCHANGED woken
  /\ UNCHANGED <<use, instanceVars, bufferVars, sessionVars, historyVars>>

\* VT_CTRL_POLL_CMD: look for commands, clear cmd_status, wait for it to
\* become positive or for the timeout, look again.
PollCmdStep(c, from, to) ==
  /\ pc[c] = from /\ Goto(c, to)
  /\ UNCHANGED <<use, instanceVars, bufferVars, session_mode, woken, told, unheard, behind>>

PollCmdCall(c) ==
  \/ /\ \/ consumer = c /\ PollCmdStep(c, "out", "check")
        \/ /\ DevUnlocked /\ InstanceUnlocked
           /\ \/ PollCmdStep(c, "check", IF ReadyCmd(c) THEN "out" ELSE "reset")
              \/ PollCmdStep(c, "recheck", "out")
        \/ cmd_status[c] /\ PollCmdStep(c, "wait", "recheck")
        \/ PollCmdStep(c, "wait", "out")
     /\ UNCHANGED <<cmd_status, late>>
  \/ /\ PollCmdStep(c, "reset", "wait")
     /\ cmd_status' = [cmd_status EXCEPT ![c] = FALSE]
     /\ late' = [late EXCEPT ![c] = FALSE]
-----------------------------------------------------------------------------
Next ==
  \/ WakeConsumer \/ ConnectProducer \/ DisconnectProducer \/ Queue \/ Dequeue
  \/ \E cmd \in use.kinds : SendCmd(cmd)
  \/ \E c \in Consumers :
       \/ RecvCmd(c) \/ Connect(c) \/ ResendGameMode(c) \/ CheckLastCmd(c)
       \/ ResendStatus(c) \/ Join(c) \/ Disconnect(c)
       \/ Acquire(c) \/ Release(c) \/ PollCmdCall(c)
  \/ \E s \in Sessions :
       Reopen(s) \/ PollRegister(s) \/ PollCmds(s) \/ PollBuffers(s) \/ PollWake(s)

Spec == Init /\ [][Next]_vars
-----------------------------------------------------------------------------
(***************************************************************************)
(* Properties                                                              *)
(***************************************************************************)
\* Nobody is in the middle of sending or connecting, and consumer c has
\* received all there is.
Settled(c) ==
  consumer = c /\ fifo_cmd = <<>> /\ InstanceUnlocked /\ DevUnlocked

\* The game mode reaches the consumer ("consumer connect, send game mode cmd if
\* needed"), whoever died, disconnected or connected in between and whatever was
\* sent meanwhile: once it has received every command, its session is in game
\* mode if the tunnel is.  If the tunnel is not, the session is not either,
\* unless the mode ended without a command behind it (the producer left, or the
\* command overtook a connection) or the session brought the mode along from
\* an earlier connection.
GameModeReaches ==
  \A c \in Consumers : Settled(c) =>
    /\ mode = "game" => session_mode[c] = "game"
    /\ session_mode[c] = "game" =>
         mode = "game" \/ "game" \in unheard \/ <<c, "game">> \in behind

\* So does a status, until another command follows it: only the last command
\* is remembered for the consumers to come.
StatusReaches ==
  \A c \in Consumers : Settled(c) =>
    /\ last_cmd = "hide" => told[c]
    /\ last_cmd = "show" /\ told[c] => "status" \in unheard \/ <<c, "status">> \in behind

\* A consumer does not sleep in poll on a buffer that is there, or it has
\* been woken: no wakeup is lost between its check and its sleep.
BufferPollerWoken ==
  \A c \in Consumers :
    pc[c] = "asleep" /\ consumer = c /\ outgoing => woken[c]

\* The same for the commands poll is said to support.
CommandPollerWoken ==
  \A c \in Consumers :
    pc[c] = "asleep" /\ consumer = c /\ fifo_cmd # <<>> /\ DevUnlocked => woken[c]

\* A command that is sent while its consumer waits in VT_CTRL_POLL_CMD ends
\* the wait, whatever older commands are in the fifo.
PollCmdWoken ==
  \A c \in Consumers :
    pc[c] = "wait" /\ consumer = c /\ late[c] /\ DevUnlocked => cmd_status[c]
=============================================================================
