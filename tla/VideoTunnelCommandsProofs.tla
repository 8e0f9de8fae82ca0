---------------------- MODULE VideoTunnelCommandsProofs ----------------------
(***************************************************************************)
(* Proofs about VideoTunnelCommands, for any consumers, any sessions       *)
(* that may die, any size of the fifo and every use of the tunnel: types,  *)
(* that neither poll nor VT_CTRL_POLL_CMD loses a wakeup, and, in a fifo   *)
(* that does not overflow, that the game mode and a status reach the       *)
(* consumer.                                                               *)
(***************************************************************************)
EXTENDS VideoTunnelCommands, SequenceTheorems, TLAPS

-----------------------------------------------------------------------------
(***************************************************************************)
(* Types                                                                   *)
(***************************************************************************)
\* What is sent again was sent before.
SentBefore ==
  /\ mode = "game" => "game_on" \in use.kinds
  /\ \A c \in Consumers :
       /\ pc[c] = "resend" => "game_on" \in use.kinds
       /\ pc[c] = "status" => "hide" \in use.kinds

Types == TypeOK /\ SentBefore

LEMMA PutType ==
  ASSUME TypeOK, NEW cmd \in use.kinds, Put(cmd)
  PROVE  fifo_cmd' \in Seq(use.kinds) /\ Len(fifo_cmd') <= VT_CMD_FIFO_SIZE
<1>1. CASE Len(fifo_cmd) < VT_CMD_FIFO_SIZE
  <2>1. fifo_cmd \in Seq(use.kinds) /\ fifo_cmd' = Append(fifo_cmd, cmd)
    BY <1>1 DEF TypeOK, Put
  <2>2. fifo_cmd' \in Seq(use.kinds) /\ Len(fifo_cmd') = Len(fifo_cmd) + 1
    BY <2>1, AppendProperties
  <2> QED
    BY <1>1, <2>1, <2>2, LenProperties, CommandsAssumption
<1>2. CASE ~(Len(fifo_cmd) < VT_CMD_FIFO_SIZE)
  BY <1>2 DEF TypeOK, Put
<1> QED
  BY <1>1, <1>2

LEMMA ConsumersApart ==
  /\ Consumers \subseteq Sessions /\ Producer \in Sessions
  /\ \A c \in Consumers : c # Producer /\ c # None
  /\ Producer # None
BY SessionsAssumption DEF Sessions

LEMMA TypesInit == Init => Types
<1> SUFFICES ASSUME Init PROVE Types
  OBVIOUS
<1>1. fifo_cmd \in Seq(use.kinds) /\ Len(fifo_cmd) = 0
  BY EmptySeq DEF Init
<1>2. pc \in [Sessions -> {"out"}] /\ \A c \in Consumers : pc[c] = "out"
  BY DEF Init, Sessions
<1>3. Len(fifo_cmd) <= VT_CMD_FIFO_SIZE
  BY <1>1, CommandsAssumption
<1>4. /\ session_mode \in [Consumers -> {"block", "none", "game"}]
      /\ cmd_status \in [Consumers -> BOOLEAN] /\ woken \in [Sessions -> BOOLEAN]
      /\ told \in [Consumers -> BOOLEAN] /\ late \in [Consumers -> BOOLEAN]
  BY DEF Init
<1>5. TypeOK
  BY <1>1, <1>2, <1>3, <1>4 DEF Init, TypeOK
<1>6. SentBefore
  BY <1>2 DEF Init, SentBefore
<1> QED
  BY <1>5, <1>6 DEF Types

LEMMA TypesNext == Types /\ [Next]_vars => Types'
<1> SUFFICES ASSUME Types, [Next]_vars
             PROVE  Types'
  OBVIOUS
<1> USE ConsumersApart
<1>0. TypeOK /\ SentBefore
  BY DEF Types
<1>1. ASSUME NEW cmd \in use.kinds, SendCmd(cmd) PROVE Types'
  <2>1. cmd \in AllKinds /\ use' = use
    BY <1>1, <1>0, CommandsAssumption DEF SendCmd, TypeOK
  <2>2. fifo_cmd' \in Seq(use.kinds) /\ Len(fifo_cmd') <= VT_CMD_FIFO_SIZE
    BY <1>0, <1>1, PutType DEF SendCmd
  <2>3. mode' \in {"none", "game"} /\ (mode' = "game" => "game_on" \in use.kinds)
    BY <1>0, <1>1 DEF SendCmd, ModeAfter, TypeOK, SentBefore
  <2>4. late' \in [Consumers -> BOOLEAN] /\ unheard' \subseteq Matters
    BY <1>0, <1>1 DEF SendCmd, Overtaken, TypeOK
  <2> QED
    BY <2>1, <2>2, <2>3, <2>4, <1>0, <1>1
    DEF SendCmd, Types, TypeOK, SentBefore, Goto, Sending, bufferVars, sessionVars
<1>2. ASSUME WakeConsumer PROVE Types'
  <2>1. cmd_status' \in [Consumers -> BOOLEAN]
    BY <1>0, <1>2 DEF WakeConsumer, Counted, TypeOK
  <2> QED
    BY <2>1, <1>0, <1>2
    DEF WakeConsumer, Types, TypeOK, SentBefore, Goto, instanceVars, bufferVars, historyVars
<1>3. ASSUME NEW c \in Consumers, RecvCmd(c) PROVE Types'
  <2>1. fifo_cmd' \in Seq(use.kinds) /\ Len(fifo_cmd') <= VT_CMD_FIFO_SIZE
    BY <1>0, <1>3, CommandsAssumption DEF RecvCmd, TypeOK
  <2>2. /\ session_mode' \in [Consumers -> {"block", "none", "game"}]
        /\ told' \in [Consumers -> BOOLEAN] /\ behind' \subseteq Consumers \X Matters
    BY <1>0, <1>3 DEF RecvCmd, TypeOK
  <2> QED
    BY <2>1, <2>2, <1>0, <1>3 DEF RecvCmd, Types, TypeOK, SentBefore, bufferVars
<1>4. ASSUME NEW c \in Consumers, ResendGameMode(c) PROVE Types'
  <2>1. fifo_cmd' \in Seq(use.kinds) /\ Len(fifo_cmd') <= VT_CMD_FIFO_SIZE
    BY <1>0, <1>4, PutType DEF ResendGameMode, Resent, SentBefore
  <2> QED
    BY <2>1, <1>0, <1>4
    DEF ResendGameMode, Resent, Types, TypeOK, SentBefore, Goto, Connecting, bufferVars, historyVars
<1>5. ASSUME NEW c \in Consumers, ResendStatus(c) PROVE Types'
  <2>1. fifo_cmd' \in Seq(use.kinds) /\ Len(fifo_cmd') <= VT_CMD_FIFO_SIZE
    BY <1>0, <1>5, PutType DEF ResendStatus, Resent, SentBefore
  <2> QED
    BY <2>1, <1>0, <1>5
    DEF ResendStatus, Resent, Types, TypeOK, SentBefore, Goto, Connecting, bufferVars, historyVars
<1>6. ASSUME NEW c \in Consumers, Connect(c) PROVE Types'
  BY <1>0, <1>6 DEF Connect, Types, TypeOK, SentBefore, Goto, Connecting, instanceVars,
    bufferVars, sessionVars, historyVars
<1>7. ASSUME NEW c \in Consumers, CheckLastCmd(c) PROVE Types'
  BY <1>0, <1>7 DEF CheckLastCmd, Types, TypeOK, SentBefore, Goto, Connecting, instanceVars,
    bufferVars, sessionVars, historyVars
<1>8. ASSUME NEW c \in Consumers, Join(c) PROVE Types'
  BY <1>0, <1>8 DEF Join, Types, TypeOK, SentBefore, Goto, bufferVars, sessionVars, historyVars
<1>9. ASSUME NEW c \in Consumers, Disconnect(c) PROVE Types'
  <2>1. behind' \subseteq Consumers \X Matters
    BY <1>0, <1>9 DEF Disconnect, Known, Matters, TypeOK
  <2> QED
    BY <2>1, <1>0, <1>9 DEF Disconnect, Types, TypeOK, SentBefore, sessionVars
<1>10. ASSUME NEW s \in Sessions, Reopen(s) PROVE Types'
  <2>1. /\ session_mode' \in [Consumers -> {"block", "none", "game"}]
        /\ cmd_status' \in [Consumers -> BOOLEAN]
        /\ told' \in [Consumers -> BOOLEAN] /\ late' \in [Consumers -> BOOLEAN]
    BY <1>0, <1>10 DEF Reopen, TypeOK
  <2>2. unheard' \subseteq Matters /\ behind' \subseteq Consumers \X Matters
    BY <1>0, <1>10 DEF Reopen, Unheard, Matters, TypeOK
  <2>3. /\ producer' \in {Producer, None} /\ consumer' \in Consumers \cup {None}
        /\ mode' \in {"none", "game"} /\ (mode' = "game" => "game_on" \in use.kinds)
        /\ outgoing' \in BOOLEAN /\ returning' \in BOOLEAN
    BY <1>0, <1>10 DEF Reopen, ModeWithout, TypeOK, SentBefore
  <2>4. UNCHANGED <<use, last_cmd, fifo_cmd>>
    BY <1>10 DEF Reopen
  <2>5. /\ pc' = [pc EXCEPT ![s] = "out"] /\ woken' = [woken EXCEPT ![s] = FALSE]
    BY <1>10 DEF Reopen, Goto
  <2> QED
    BY <2>1, <2>2, <2>3, <2>4, <2>5, <1>0 DEF Types, TypeOK, SentBefore
<1>11. ASSUME NEW c \in Consumers, PollCmdCall(c) PROVE Types'
  <2>1. /\ UNCHANGED <<use, instanceVars, bufferVars, session_mode, woken, told, unheard, behind>>
        /\ \E to \in {"out", "check", "reset", "wait", "recheck"} : Goto(c, to)
        /\ \/ UNCHANGED <<cmd_status, late>>
           \/ /\ cmd_status' = [cmd_status EXCEPT ![c] = FALSE]
              /\ late' = [late EXCEPT ![c] = FALSE]
    BY <1>11 DEF PollCmdCall, PollCmdStep
  <2>2. cmd_status' \in [Consumers -> BOOLEAN] /\ late' \in [Consumers -> BOOLEAN]
    BY <2>1, <1>0 DEF TypeOK
  <2>3. /\ pc' \in [Sessions -> {"out"} \cup Sending \cup Connecting \cup PollCmd \cup Poll]
        /\ \A d \in Consumers : pc'[d] \in {"resend", "status"} => pc[d] = pc'[d]
    BY <2>1, <1>0 DEF TypeOK, Goto, PollCmd
  <2> QED
    BY <2>1, <2>2, <2>3, <1>0 DEF Types, TypeOK, SentBefore, Goto, PollCmd, instanceVars, bufferVars
<1>12. ASSUME NEW s \in Sessions,
              PollRegister(s) \/ PollCmds(s) \/ PollBuffers(s) \/ PollWake(s)
       PROVE  Types'
  <2>1. /\ UNCHANGED <<use, instanceVars, bufferVars, sessionVars, historyVars>>
        /\ \E to \in {"out", "poll", "poll2", "asleep"} : Goto(s, to)
        /\ woken' = woken \/ woken' = [woken EXCEPT ![s] = FALSE]
    BY <1>12 DEF PollRegister, PollCmds, PollBuffers, PollWake
  <2> QED
    BY <2>1, <1>0
    DEF Types, TypeOK, SentBefore, Goto, Poll, instanceVars, bufferVars, sessionVars, historyVars
<1>13. ASSUME Queue PROVE Types'
  <2>1. woken' \in [Sessions -> BOOLEAN]
    BY <1>0, <1>13 DEF Queue, ConsumerWoken, TypeOK
  <2> QED
    BY <2>1, <1>0, <1>13
    DEF Queue, Types, TypeOK, SentBefore, instanceVars, sessionVars, historyVars
<1>14. ASSUME ConnectProducer \/ DisconnectProducer \/ Dequeue
       PROVE Types'
  <2>1. unheard' \subseteq Matters
    BY <1>0, <1>14 DEF ConnectProducer, DisconnectProducer, Dequeue, Unheard, Matters, TypeOK,
      historyVars
  <2> QED
    BY <2>1, <1>0, <1>14 DEF ConnectProducer, DisconnectProducer, Dequeue, Types, TypeOK,
      SentBefore, instanceVars, bufferVars, sessionVars, historyVars
<1>15. ASSUME NEW c \in Consumers, Acquire(c) \/ Release(c) PROVE Types'
  BY <1>0, <1>15 DEF Acquire, Release, Types, TypeOK, SentBefore,
    instanceVars, bufferVars, sessionVars, historyVars
<1>16. ASSUME UNCHANGED vars PROVE Types'
  BY <1>0, <1>16 DEF vars, Types, TypeOK, SentBefore, instanceVars, bufferVars, sessionVars, historyVars
<1> QED
  BY <1>1, <1>2, <1>3, <1>4, <1>5, <1>6, <1>7, <1>8, <1>9, <1>10, <1>11, <1>12, <1>13, <1>14,
     <1>15, <1>16
  DEF Next

\* The types are kept, and no command is put beyond the end of the fifo, in
\* every use of the tunnel.
THEOREM CommandsTypes == Spec => []TypeOK
<1>1. Spec => []Types
  BY TypesInit, TypesNext, PTL DEF Spec
<1>2. Types => TypeOK
  BY DEF Types
<1> QED
  BY <1>1, <1>2, PTL
-----------------------------------------------------------------------------
(***************************************************************************)
(* The calls that wait                                                     *)
(***************************************************************************)
LEMMA WakingStep ==
  ASSUME TypeOK, BufferPollerWoken, [Next]_vars
  PROVE  BufferPollerWoken'
<1> USE ConsumersApart
<1>1. ASSUME Queue PROVE BufferPollerWoken'
  BY <1>1 DEF Queue, ConsumerWoken, TypeOK, BufferPollerWoken, instanceVars
<1>2. ASSUME NEW s \in Sessions, PollBuffers(s) PROVE BufferPollerWoken'
  BY <1>2 DEF PollBuffers, ReadyBuffer, Goto, TypeOK, BufferPollerWoken, instanceVars, bufferVars
<1>3. ASSUME NEW s \in Sessions, PollRegister(s) \/ PollCmds(s) \/ PollWake(s)
      PROVE  BufferPollerWoken'
  <2>1. /\ UNCHANGED <<instanceVars, bufferVars>>
        /\ \E to \in {"out", "poll", "poll2"} : Goto(s, to)
        /\ woken' = woken \/ woken' = [woken EXCEPT ![s] = FALSE]
    BY <1>3 DEF PollRegister, PollCmds, PollWake
  <2> QED
    BY <2>1 DEF Goto, TypeOK, BufferPollerWoken, instanceVars, bufferVars
<1>4. ASSUME NEW c \in Consumers, Join(c) PROVE BufferPollerWoken'
  BY <1>4 DEF Join, Goto, TypeOK, BufferPollerWoken, bufferVars
<1>5. ASSUME NEW c \in Consumers, Disconnect(c) PROVE BufferPollerWoken'
  BY <1>5 DEF Disconnect, TypeOK, BufferPollerWoken
<1>6. ASSUME NEW s \in Sessions, Reopen(s) PROVE BufferPollerWoken'
  BY <1>6 DEF Reopen, Goto, TypeOK, BufferPollerWoken
<1>7. ASSUME NEW c \in Consumers, PollCmdCall(c) PROVE BufferPollerWoken'
  <2>1. /\ UNCHANGED <<instanceVars, bufferVars, woken>>
        /\ \E to \in {"out", "check", "reset", "wait", "recheck"} : Goto(c, to)
    BY <1>7 DEF PollCmdCall, PollCmdStep
  <2> QED
    BY <2>1 DEF Goto, TypeOK, BufferPollerWoken, instanceVars, bufferVars
<1>8. ASSUME NEW c \in Consumers,
             \/ Connect(c) \/ ResendGameMode(c) \/ CheckLastCmd(c) \/ ResendStatus(c)
             \/ Acquire(c) \/ Release(c) \/ RecvCmd(c)
      PROVE  BufferPollerWoken'
  <2>1. /\ consumer' = consumer /\ (outgoing' = outgoing \/ outgoing) /\ woken' = woken
        /\ \/ pc' = pc
           \/ \E to \in {"resend", "again", "status", "join"} : Goto(c, to)
    BY <1>8 DEF Connect, ResendGameMode, CheckLastCmd, ResendStatus, Acquire, Release, RecvCmd,
      instanceVars, bufferVars
  <2> QED
    BY <2>1 DEF Goto, TypeOK, BufferPollerWoken
<1>9. ASSUME WakeConsumer \/ ConnectProducer \/ DisconnectProducer \/ Dequeue
             \/ (\E cmd \in use.kinds : SendCmd(cmd)) \/ UNCHANGED vars
      PROVE  BufferPollerWoken'
  <2>1. /\ consumer' = consumer /\ outgoing' = outgoing /\ woken' = woken
        /\ pc' = pc \/ (\E to \in {"out", "wake"} : Goto(Producer, to))
    BY <1>9 DEF WakeConsumer, ConnectProducer, DisconnectProducer, Dequeue, SendCmd, vars,
      instanceVars, bufferVars
  <2> QED
    BY <2>1 DEF Goto, TypeOK, BufferPollerWoken
<1> QED
  BY <1>1, <1>2, <1>3, <1>4, <1>5, <1>6, <1>7, <1>8, <1>9 DEF Next

\* In poll nothing is lost between a consumer's look for buffers and its
\* sleep, and no buffer comes without a wakeup: vt_queue_buffer wakes
\* whoever is the consumer.
THEOREM CommandsBufferPollerWoken == Spec => []BufferPollerWoken
<1>1. Init => BufferPollerWoken
  BY ConsumersApart DEF Init, BufferPollerWoken
<1>2. TypeOK /\ BufferPollerWoken /\ [Next]_vars => BufferPollerWoken'
  BY WakingStep
<1> QED
  BY <1>1, <1>2, CommandsTypes, PTL DEF Spec

LEMMA CountingStep ==
  ASSUME TypeOK, PollCmdWoken, [Next]_vars
  PROVE  PollCmdWoken'
<1> USE ConsumersApart
<1>1. ASSUME NEW cmd \in use.kinds, SendCmd(cmd) PROVE PollCmdWoken'
  <2>1. pc'[Producer] = "wake"
    BY <1>1 DEF SendCmd, Goto, TypeOK
  <2> QED
    BY <2>1 DEF PollCmdWoken, DevUnlocked, Sending
<1>2. ASSUME WakeConsumer PROVE PollCmdWoken'
  BY <1>2 DEF WakeConsumer, Counted, PollCmdWoken, TypeOK, instanceVars
<1>3. ASSUME NEW c \in Consumers, PollCmdCall(c) PROVE PollCmdWoken'
  <2>1. consumer' = consumer /\ pc[c] \in {"out", "check", "reset", "wait", "recheck"}
    BY <1>3 DEF PollCmdCall, PollCmdStep, instanceVars
  <2>2. CASE \E to \in {"out", "check", "reset", "recheck"} : Goto(c, to)
             /\ UNCHANGED <<cmd_status, late>>
    BY <2>1, <2>2 DEF Goto, PollCmdWoken, TypeOK, DevUnlocked, Sending
  <2>3. CASE Goto(c, "wait") /\ late' = [late EXCEPT ![c] = FALSE]
             /\ cmd_status' = [cmd_status EXCEPT ![c] = FALSE]
    BY <2>1, <2>3 DEF Goto, PollCmdWoken, TypeOK, DevUnlocked, Sending
  <2> QED
    BY <1>3, <2>2, <2>3 DEF PollCmdCall, PollCmdStep
<1>4. ASSUME NEW c \in Consumers, Join(c) PROVE PollCmdWoken'
  BY <1>4 DEF Join, Goto, PollCmdWoken, TypeOK
<1>5. ASSUME NEW c \in Consumers, Disconnect(c) PROVE PollCmdWoken'
  BY <1>5 DEF Disconnect, PollCmdWoken, TypeOK
<1>6. ASSUME NEW s \in Sessions, Reopen(s) PROVE PollCmdWoken'
  BY <1>6 DEF Reopen, Goto, PollCmdWoken, TypeOK, DevUnlocked, Sending
<1>7. ASSUME NEW c \in Consumers, ResendGameMode(c) \/ ResendStatus(c) PROVE PollCmdWoken'
  BY <1>7 DEF ResendGameMode, ResendStatus, Resent, Goto, PollCmdWoken, TypeOK, DevUnlocked,
    Sending, historyVars
<1>8. ASSUME NEW c \in Consumers,
             Connect(c) \/ CheckLastCmd(c) \/ Acquire(c) \/ Release(c) \/ RecvCmd(c)
      PROVE  PollCmdWoken'
  <2>1. /\ consumer' = consumer /\ late' = late /\ cmd_status' = cmd_status
        /\ \/ pc' = pc
           \/ /\ pc[c] \in {"out", "again"}
              /\ \E to \in {"resend", "again", "status", "join"} : Goto(c, to)
    BY <1>8 DEF Connect, CheckLastCmd, Acquire, Release, RecvCmd, instanceVars, sessionVars,
      historyVars
  <2> QED
    BY <2>1 DEF Goto, PollCmdWoken, TypeOK, DevUnlocked, Sending
<1>9. ASSUME NEW s \in Sessions,
             PollRegister(s) \/ PollCmds(s) \/ PollBuffers(s) \/ PollWake(s)
      PROVE  PollCmdWoken'
  <2>1. /\ consumer' = consumer /\ late' = late /\ cmd_status' = cmd_status
        /\ pc[s] \in {"out", "poll", "poll2", "asleep"}
        /\ \E to \in {"out", "poll", "poll2", "asleep"} : Goto(s, to)
    BY <1>9 DEF PollRegister, PollCmds, PollBuffers, PollWake, instanceVars, sessionVars, historyVars
  <2> QED
    BY <2>1 DEF Goto, PollCmdWoken, TypeOK, DevUnlocked, Sending
<1>10. ASSUME ConnectProducer \/ DisconnectProducer \/ Queue \/ Dequeue \/ UNCHANGED vars
       PROVE  PollCmdWoken'
  BY <1>10 DEF ConnectProducer, DisconnectProducer, Queue, Dequeue, PollCmdWoken, DevUnlocked,
    vars, instanceVars, bufferVars, sessionVars, historyVars
<1> QED
  BY <1>1, <1>2, <1>3, <1>4, <1>5, <1>6, <1>7, <1>8, <1>9, <1>10 DEF Next

\* A consumer in VT_CTRL_POLL_CMD is not left waiting for a command that was
\* sent since it began to wait, in every use of the tunnel.
THEOREM CommandsPollCmdWoken == Spec => []PollCmdWoken
<1>1. Init => PollCmdWoken
  BY ConsumersApart DEF Init, PollCmdWoken
<1>2. TypeOK /\ PollCmdWoken /\ [Next]_vars => PollCmdWoken'
  BY CountingStep
<1> QED
  BY <1>1, <1>2, CommandsTypes, PTL DEF Spec
-----------------------------------------------------------------------------
(***************************************************************************)
(* What reaches the consumer                                               *)
(***************************************************************************)
\* Among the commands of kind K in s, the last is k; s has none of them.
LastIs(s, K, k) ==
  \E i \in 1..Len(s) : s[i] = k /\ \A j \in (i + 1)..Len(s) : s[j] \notin K
NoneOf(s, K) == \A i \in 1..Len(s) : s[i] \notin K

LEMMA NoneOfAppend ==
  ASSUME NEW S, NEW s \in Seq(S), NEW cmd \in S, NEW K
  PROVE  /\ cmd \in K => ~NoneOf(Append(s, cmd), K)
         /\ NoneOf(Append(s, cmd), K) => NoneOf(s, K)
BY AppendProperties, LenProperties DEF NoneOf

LEMMA LastOfAppend ==
  ASSUME NEW S, NEW s \in Seq(S), NEW cmd \in S, NEW K, NEW k \in K
  PROVE  /\ cmd \in K /\ LastIs(Append(s, cmd), K, k) => k = cmd
         /\ cmd \notin K /\ LastIs(Append(s, cmd), K, k) => LastIs(s, K, k)
<1> DEFINE t == Append(s, cmd)
<1>1. /\ Len(s) \in Nat /\ Len(t) = Len(s) + 1 /\ t[Len(s) + 1] = cmd
      /\ \A i \in 1..Len(s) : t[i] = s[i]
  BY AppendProperties, LenProperties
<1> HIDE DEF t
<1>2. cmd \in K /\ LastIs(t, K, k) => k = cmd
  BY <1>1 DEF LastIs
<1>3. ASSUME cmd \notin K, LastIs(t, K, k) PROVE LastIs(s, K, k)
  <2>1. PICK i \in 1..Len(t) : t[i] = k /\ \A j \in (i + 1)..Len(t) : t[j] \notin K
    BY <1>3 DEF LastIs
  <2>2. i \in 1..Len(s)
    BY <1>1, <1>3, <2>1
  <2>3. s[i] = k /\ \A j \in (i + 1)..Len(s) : s[j] \notin K
    BY <1>1, <2>1, <2>2
  <2> QED
    BY <2>2, <2>3 DEF LastIs
<1> QED
  BY <1>2, <1>3 DEF t

LEMMA LastOfTail ==
  ASSUME NEW S, NEW s \in Seq(S), s # <<>>, NEW K, NEW k \in K
  PROVE  /\ LastIs(Tail(s), K, k) => LastIs(s, K, k)
         /\ NoneOf(Tail(s), K) /\ Head(s) \in K => LastIs(s, K, Head(s))
         /\ NoneOf(Tail(s), K) /\ Head(s) \notin K => NoneOf(s, K)
<1> DEFINE t == Tail(s)
<1>1. /\ Len(s) \in Nat \ {0} /\ Len(t) = Len(s) - 1 /\ Head(s) = s[1]
      /\ \A i \in 1..Len(t) : t[i] = s[i + 1]
  BY HeadTailProperties, LenProperties, EmptySeq
<1> HIDE DEF t
<1>2. ASSUME LastIs(t, K, k) PROVE LastIs(s, K, k)
  <2>1. PICK i \in 1..Len(t) : t[i] = k /\ \A j \in (i + 1)..Len(t) : t[j] \notin K
    BY <1>2 DEF LastIs
  <2>2. i + 1 \in 1..Len(s) /\ s[i + 1] = k
    BY <1>1, <2>1
  <2>3. ASSUME NEW j \in (i + 2)..Len(s) PROVE s[j] \notin K
    <3>1. j - 1 \in (i + 1)..Len(t) /\ j - 1 \in 1..Len(t) /\ (j - 1) + 1 = j
      BY <1>1, <2>1
    <3> QED
      BY <3>1, <1>1, <2>1
  <2> QED
    BY <2>2, <2>3 DEF LastIs
<1>3. ASSUME NoneOf(t, K) PROVE \A j \in 2..Len(s) : s[j] \notin K
  <2> TAKE j \in 2..Len(s)
  <2>1. j - 1 \in 1..Len(t) /\ (j - 1) + 1 = j
    BY <1>1
  <2> QED
    BY <2>1, <1>1, <1>3 DEF NoneOf
<1>4. NoneOf(t, K) /\ Head(s) \in K => LastIs(s, K, Head(s))
  BY <1>1, <1>3 DEF LastIs
<1>5. NoneOf(t, K) /\ Head(s) \notin K => NoneOf(s, K)
  BY <1>1, <1>3 DEF NoneOf
<1> QED
  BY <1>2, <1>4, <1>5 DEF t

LEMMA NothingIsLast ==
  ASSUME NEW K, NEW k
  PROVE  NoneOf(<<>>, K) /\ ~LastIs(<<>>, K, k)
BY EmptySeq DEF NoneOf, LastIs

\* One consumer connects at a time, to a tunnel that has no other.
ConnectAlone ==
  \A c \in Consumers : pc[c] \in Connecting =>
    consumer \in {None, c} /\ \A d \in Consumers : pc[d] \in Connecting => d = c

\* A connection has room for what it sends again.
Room ==
  \A c \in Consumers :
    /\ pc[c] = "resend" => Len(fifo_cmd) <= Pending
    /\ pc[c] \in {"again", "status"} => Len(fifo_cmd) <= Pending + 1

\* The mode is the producer's.
Producers == producer = None => mode = "none"

\* The last game mode command in the fifo is the mode of the tunnel, and so is
\* the mode of a consumer that has received all of them, unless the mode ended
\* unheard or the consumer brought its mode along.
ModeOnItsWay ==
  /\ LastIs(fifo_cmd, GameKinds, "game_on") => mode = "game" \/ "game" \in unheard
  /\ LastIs(fifo_cmd, GameKinds, "game_off") => mode # "game"
  /\ \A c \in Consumers :
       /\ session_mode[c] = "game" => consumer = c \/ <<c, "game">> \in behind
       /\ consumer = c /\ NoneOf(fifo_cmd, GameKinds) =>
            /\ mode = "game" => session_mode[c] = "game"
            /\ session_mode[c] = "game" =>
                 mode = "game" \/ "game" \in unheard \/ <<c, "game">> \in behind
       /\ pc[c] = "resend" => mode = "game" \/ "game" \in unheard
       /\ pc[c] \in Connecting \ {"resend"} /\ mode = "game" => ~NoneOf(fifo_cmd, GameKinds)

\* The same for the status, as long as it is the last command.
StatusOnItsWay ==
  /\ LastIs(fifo_cmd, StatusKinds, "hide") => last_cmd # "show" \/ "status" \in unheard
  /\ LastIs(fifo_cmd, StatusKinds, "show") => last_cmd # "hide"
  /\ \A c \in Consumers :
       /\ told[c] => consumer = c \/ <<c, "status">> \in behind
       /\ consumer = c /\ NoneOf(fifo_cmd, StatusKinds) =>
            /\ last_cmd = "hide" => told[c]
            /\ last_cmd = "show" /\ told[c] => "status" \in unheard \/ <<c, "status">> \in behind
       /\ pc[c] = "status" => last_cmd # "show" \/ "status" \in unheard
       /\ pc[c] = "join" /\ last_cmd = "hide" => ~NoneOf(fifo_cmd, StatusKinds)

Reaching == Room /\ Producers /\ ModeOnItsWay /\ StatusOnItsWay

LEMMA AloneNext == TypeOK /\ ConnectAlone /\ [Next]_vars => ConnectAlone'
<1> SUFFICES ASSUME TypeOK, ConnectAlone, [Next]_vars
             PROVE  ConnectAlone'
  OBVIOUS
<1> USE ConsumersApart
<1>1. ASSUME NEW c \in Consumers, Connect(c) PROVE ConnectAlone'
  <2>1. consumer' \in {None, c} /\ \A d \in Consumers : pc'[d] \in Connecting => d = c
    BY <1>1 DEF Connect, Goto, InstanceUnlocked, TypeOK, instanceVars
  <2> QED
    BY <2>1 DEF ConnectAlone
<1>2. ASSUME NEW c \in Consumers, ResendGameMode(c) \/ CheckLastCmd(c) \/ ResendStatus(c)
      PROVE  ConnectAlone'
  BY <1>2 DEF ResendGameMode, CheckLastCmd, ResendStatus, Goto, Connecting, ConnectAlone, TypeOK,
    instanceVars
<1>3. ASSUME NEW c \in Consumers, Join(c) PROVE ConnectAlone'
  BY <1>3 DEF Join, Goto, Connecting, ConnectAlone, TypeOK
<1>4. ASSUME /\ consumer' \in {consumer, None}
             /\ \A d \in Consumers : pc'[d] \in Connecting => pc[d] \in Connecting
      PROVE  ConnectAlone'
  BY <1>4 DEF ConnectAlone
<1>5. ASSUME NEW c \in Consumers, Disconnect(c) \/ Acquire(c) \/ Release(c) \/ RecvCmd(c)
      PROVE  ConnectAlone'
  BY <1>4, <1>5 DEF Disconnect, Acquire, Release, RecvCmd, instanceVars
<1>6. ASSUME NEW s \in Sessions, Reopen(s) PROVE ConnectAlone'
  <2>1. Goto(s, "out") /\ consumer' \in {consumer, None}
    BY <1>6 DEF Reopen
  <2> QED
    BY <1>4, <2>1 DEF Goto, TypeOK, Connecting
<1>7. ASSUME NEW c \in Consumers, PollCmdCall(c) PROVE ConnectAlone'
  <2>1. consumer' = consumer /\ \E to \in {"out", "check", "reset", "wait", "recheck"} : Goto(c, to)
    BY <1>7 DEF PollCmdCall, PollCmdStep, instanceVars
  <2> QED
    BY <1>4, <2>1 DEF Goto, TypeOK, Connecting
<1>8. ASSUME NEW s \in Sessions,
             PollRegister(s) \/ PollCmds(s) \/ PollBuffers(s) \/ PollWake(s)
      PROVE  ConnectAlone'
  <2>1. consumer' = consumer /\ \E to \in {"out", "poll", "poll2", "asleep"} : Goto(s, to)
    BY <1>8 DEF PollRegister, PollCmds, PollBuffers, PollWake, instanceVars
  <2> QED
    BY <1>4, <2>1 DEF Goto, TypeOK, Connecting
<1>9. ASSUME \/ WakeConsumer \/ ConnectProducer \/ DisconnectProducer \/ Queue \/ Dequeue
             \/ (\E cmd \in use.kinds : SendCmd(cmd)) \/ UNCHANGED vars
      PROVE  ConnectAlone'
  <2>1. consumer' = consumer /\ (pc' = pc \/ \E to \in {"out", "wake"} : Goto(Producer, to))
    BY <1>9 DEF WakeConsumer, ConnectProducer, DisconnectProducer, Queue, Dequeue, SendCmd, vars,
      instanceVars
  <2> QED
    BY <1>4, <2>1 DEF Goto, TypeOK
<1> QED
  BY <1>1, <1>2, <1>3, <1>5, <1>6, <1>7, <1>8, <1>9 DEF Next

\* A step that changes nothing of what the commands are about, nor where a
\* consumer is in its connection.
LEMMA ReachingUndisturbed ==
  ASSUME Reaching, instanceVars' = instanceVars, session_mode' = session_mode,
         told' = told, unheard' = unheard, behind' = behind,
         \A c \in Consumers : pc'[c] \in Connecting => pc[c] = pc'[c]
  PROVE  Reaching'
<1> USE DEF instanceVars, Connecting
<1>1. Room'
  BY DEF Reaching, Room
<1>2. Producers'
  BY DEF Reaching, Producers
<1>3. ModeOnItsWay'
  BY DEF Reaching, ModeOnItsWay
<1>4. StatusOnItsWay'
  BY DEF Reaching, StatusOnItsWay
<1> QED
  BY <1>1, <1>2, <1>3, <1>4 DEF Reaching

LEMMA ReachingSend ==
  ASSUME TypeOK, ConnectAlone, Reaching, Pending + 1 < VT_CMD_FIFO_SIZE,
         NEW cmd \in use.kinds, SendCmd(cmd)
  PROVE  Reaching'
<1> USE ConsumersApart
<1>0. Room /\ Producers /\ ModeOnItsWay /\ StatusOnItsWay
  BY DEF Reaching
<1>1. fifo_cmd \in Seq(use.kinds) /\ Len(fifo_cmd) \in Nat /\ Pending \in Nat
      /\ Len(fifo_cmd) < Pending /\ cmd \in AllKinds
  BY CommandsAssumption, LenProperties DEF TypeOK, SendCmd
<1>2. fifo_cmd' = Append(fifo_cmd, cmd) /\ Len(fifo_cmd') = Len(fifo_cmd) + 1
  <2>1. fifo_cmd' = Append(fifo_cmd, cmd)
    BY <1>1, CommandsAssumption DEF SendCmd, Put
  <2> QED
    BY <2>1, <1>1, AppendProperties
<1>3. producer' # None
  BY DEF SendCmd
<1>4. \A c \in Consumers : pc'[c] = pc[c]
  BY DEF SendCmd, Goto, TypeOK
<1>5. /\ consumer' = consumer /\ session_mode' = session_mode /\ told' = told /\ behind' = behind
      /\ mode' = ModeAfter(cmd) /\ last_cmd' = cmd
      /\ unheard' = (unheard \ About(cmd)) \cup Overtaken(cmd)
  BY DEF SendCmd, sessionVars
<1>6. Room' /\ Producers'
  BY <1>1, <1>2, <1>3, <1>4 DEF Room, Producers
<1>7. ModeOnItsWay'
  <2>1. /\ LastIs(fifo_cmd', GameKinds, "game_on") => mode' = "game" \/ "game" \in unheard'
        /\ LastIs(fifo_cmd', GameKinds, "game_off") => mode' # "game"
    <3>1. CASE cmd \in GameKinds
      <4>1. /\ LastIs(fifo_cmd', GameKinds, "game_on") => cmd = "game_on"
            /\ LastIs(fifo_cmd', GameKinds, "game_off") => cmd = "game_off"
        BY <1>1, <1>2, <3>1, LastOfAppend DEF GameKinds
      <4> QED
        BY <4>1, <1>5 DEF ModeAfter
    <3>2. CASE cmd \notin GameKinds
      <4>1. /\ LastIs(fifo_cmd', GameKinds, "game_on") => LastIs(fifo_cmd, GameKinds, "game_on")
            /\ LastIs(fifo_cmd', GameKinds, "game_off") => LastIs(fifo_cmd, GameKinds, "game_off")
        BY <1>1, <1>2, <3>2, LastOfAppend DEF GameKinds
      <4>2. mode' = mode /\ ("game" \in unheard => "game" \in unheard')
        BY <1>5, <3>2 DEF ModeAfter, GameKinds, About
      <4> QED
        BY <4>1, <4>2, <1>0 DEF ModeOnItsWay
    <3> QED
      BY <3>1, <3>2
  <2>2. NoneOf(fifo_cmd', GameKinds) => NoneOf(fifo_cmd, GameKinds) /\ cmd \notin GameKinds
    BY <1>1, <1>2, NoneOfAppend
  <2>3. cmd \notin GameKinds => mode' = mode /\ ("game" \in unheard => "game" \in unheard')
    BY <1>5 DEF ModeAfter, GameKinds, About
  <2>4. ASSUME NEW c \in Consumers, pc'[c] = "resend" PROVE mode' = "game" \/ "game" \in unheard'
    <3>1. CASE cmd = "game_off"
      BY <2>4, <3>1, <1>4, <1>5 DEF Overtaken, Matters
    <3>2. CASE cmd = "game_on"
      BY <3>2, <1>5 DEF ModeAfter
    <3>3. CASE cmd \notin GameKinds
      BY <2>3, <2>4, <3>3, <1>0, <1>4 DEF ModeOnItsWay
    <3> QED
      BY <3>1, <3>2, <3>3 DEF GameKinds
  <2>5. ASSUME NEW c \in Consumers
        PROVE  /\ session_mode'[c] = "game" => consumer' = c \/ <<c, "game">> \in behind'
               /\ consumer' = c /\ NoneOf(fifo_cmd', GameKinds) =>
                    /\ mode' = "game" => session_mode'[c] = "game"
                    /\ session_mode'[c] = "game" =>
                         mode' = "game" \/ "game" \in unheard' \/ <<c, "game">> \in behind'
               /\ pc'[c] \in Connecting \ {"resend"} /\ mode' = "game" =>
                    ~NoneOf(fifo_cmd', GameKinds)
    BY <2>2, <2>3, <1>0, <1>4, <1>5 DEF ModeOnItsWay
  <2> QED
    BY <2>1, <2>4, <2>5 DEF ModeOnItsWay
<1>8. StatusOnItsWay'
  <2>1. /\ LastIs(fifo_cmd', StatusKinds, "hide") => last_cmd' # "show" \/ "status" \in unheard'
        /\ LastIs(fifo_cmd', StatusKinds, "show") => last_cmd' # "hide"
    <3>1. CASE cmd \in StatusKinds
      BY <1>1, <1>2, <1>5, <3>1, LastOfAppend DEF StatusKinds
    <3>2. CASE cmd \notin StatusKinds
      BY <1>5, <3>2 DEF StatusKinds
    <3> QED
      BY <3>1, <3>2
  <2>2. NoneOf(fifo_cmd', StatusKinds) => last_cmd' \notin StatusKinds
    BY <1>1, <1>2, <1>5, NoneOfAppend
  <2>3. ASSUME NEW c \in Consumers, pc'[c] = "status"
        PROVE  last_cmd' # "show" \/ "status" \in unheard'
    BY <2>3, <1>4, <1>5 DEF Overtaken, Matters
  <2>4. \A c \in Consumers : told'[c] => consumer' = c \/ <<c, "status">> \in behind'
    BY <1>0, <1>5 DEF StatusOnItsWay
  <2> QED
    BY <2>1, <2>2, <2>3, <2>4 DEF StatusOnItsWay, StatusKinds
<1> QED
  BY <1>6, <1>7, <1>8 DEF Reaching

LEMMA ReachingRecv ==
  ASSUME TypeOK, ConnectAlone, Reaching, NEW c \in Consumers, RecvCmd(c)
  PROVE  Reaching'
<1> USE ConsumersApart
<1>0. Room /\ Producers /\ ModeOnItsWay /\ StatusOnItsWay
  BY DEF Reaching
<1>1. /\ fifo_cmd \in Seq(use.kinds) /\ fifo_cmd # <<>> /\ fifo_cmd' = Tail(fifo_cmd)
      /\ Head(fifo_cmd) \in AllKinds
  BY HeadTailProperties, CommandsAssumption DEF RecvCmd, TypeOK
<1>2. /\ UNCHANGED <<producer, consumer, mode, last_cmd, unheard>>
      /\ consumer = c /\ behind' = behind \ ({c} \X About(Head(fifo_cmd)))
      /\ \A d \in Consumers : d # c => session_mode'[d] = session_mode[d] /\ told'[d] = told[d]
  BY DEF RecvCmd, TypeOK
<1>3. \A d \in Consumers : pc'[d] = pc[d] /\ pc[d] \notin Connecting
  BY DEF RecvCmd, ConnectAlone, Connecting
<1>4. \A d \in Consumers, m \in {"game", "status"} :
        d # c \/ m \notin About(Head(fifo_cmd)) => (<<d, m>> \in behind' <=> <<d, m>> \in behind)
  BY <1>2
<1>5. Room' /\ Producers'
  BY <1>0, <1>2, <1>3 DEF Room, Producers, Connecting
<1>6. ModeOnItsWay'
  <2>1. /\ LastIs(fifo_cmd', GameKinds, "game_on") => mode' = "game" \/ "game" \in unheard'
        /\ LastIs(fifo_cmd', GameKinds, "game_off") => mode' # "game"
    BY <1>0, <1>1, <1>2, LastOfTail DEF ModeOnItsWay, GameKinds
  <2>2. NoneOf(fifo_cmd', GameKinds) =>
          /\ mode = "game" => session_mode'[c] = "game"
          /\ session_mode'[c] = "game" =>
               mode = "game" \/ "game" \in unheard \/ <<c, "game">> \in behind'
    <3>1. CASE Head(fifo_cmd) \in GameKinds
      <4>1. NoneOf(fifo_cmd', GameKinds) => LastIs(fifo_cmd, GameKinds, Head(fifo_cmd))
        BY <1>1, <3>1, LastOfTail DEF GameKinds
      <4>2. session_mode'[c] = IF Head(fifo_cmd) = "game_on" THEN "game" ELSE "none"
        BY <3>1 DEF RecvCmd, TypeOK, GameKinds
      <4> QED
        BY <4>1, <4>2, <3>1, <1>0 DEF ModeOnItsWay, GameKinds
    <3>2. CASE Head(fifo_cmd) \notin GameKinds
      <4>1. NoneOf(fifo_cmd', GameKinds) => NoneOf(fifo_cmd, GameKinds)
        BY <1>1, <3>2, LastOfTail DEF GameKinds
      <4>2. session_mode'[c] = session_mode[c]
        BY <3>2 DEF RecvCmd, TypeOK, GameKinds
      <4>3. <<c, "game">> \in behind' <=> <<c, "game">> \in behind
        BY <3>2, <1>4 DEF About
      <4> QED
        BY <4>1, <4>2, <4>3, <1>0, <1>2 DEF ModeOnItsWay
    <3> QED
      BY <3>1, <3>2
  <2>3. \A d \in Consumers : d # c =>
          (session_mode'[d] = "game" => consumer' = d \/ <<d, "game">> \in behind')
    BY <1>0, <1>2, <1>4 DEF ModeOnItsWay
  <2> QED
    BY <2>1, <2>2, <2>3, <1>2, <1>3 DEF ModeOnItsWay, Connecting
<1>7. StatusOnItsWay'
  <2>1. /\ LastIs(fifo_cmd', StatusKinds, "hide") => last_cmd # "show" \/ "status" \in unheard
        /\ LastIs(fifo_cmd', StatusKinds, "show") => last_cmd # "hide"
    BY <1>0, <1>1, LastOfTail DEF StatusOnItsWay, StatusKinds
  <2>2. NoneOf(fifo_cmd', StatusKinds) =>
          /\ last_cmd = "hide" => told'[c]
          /\ last_cmd = "show" /\ told'[c] => "status" \in unheard \/ <<c, "status">> \in behind'
    <3>1. CASE Head(fifo_cmd) \in StatusKinds
      <4>1. NoneOf(fifo_cmd', StatusKinds) => LastIs(fifo_cmd, StatusKinds, Head(fifo_cmd))
        BY <1>1, <3>1, LastOfTail DEF StatusKinds
      <4>2. told'[c] = (Head(fifo_cmd) = "hide")
        BY <3>1 DEF RecvCmd, TypeOK, StatusKinds
      <4> QED
        BY <4>1, <4>2, <3>1, <1>0 DEF StatusOnItsWay, StatusKinds
    <3>2. CASE Head(fifo_cmd) \notin StatusKinds
      <4>1. NoneOf(fifo_cmd', StatusKinds) => NoneOf(fifo_cmd, StatusKinds)
        BY <1>1, <3>2, LastOfTail DEF StatusKinds
      <4>2. told'[c] = told[c]
        BY <3>2 DEF RecvCmd, TypeOK, StatusKinds
      <4>3. <<c, "status">> \in behind' <=> <<c, "status">> \in behind
        BY <3>2, <1>4 DEF About
      <4> QED
        BY <4>1, <4>2, <4>3, <1>0, <1>2 DEF StatusOnItsWay
    <3> QED
      BY <3>1, <3>2
  <2>3. \A d \in Consumers : d # c => (told'[d] => consumer' = d \/ <<d, "status">> \in behind')
    BY <1>0, <1>2, <1>4 DEF StatusOnItsWay
  <2> QED
    BY <2>1, <2>2, <2>3, <1>2, <1>3 DEF StatusOnItsWay, Connecting
<1> QED
  BY <1>5, <1>6, <1>7 DEF Reaching

LEMMA ReachingConnect ==
  ASSUME TypeOK, Reaching, NEW c \in Consumers, Connect(c) \/ CheckLastCmd(c)
  PROVE  Reaching'
<1> USE ConsumersApart
<1>0. Room /\ Producers /\ ModeOnItsWay /\ StatusOnItsWay
  BY DEF Reaching
<1>1. UNCHANGED <<producer, consumer, mode, last_cmd, fifo_cmd, session_mode, told, unheard, behind>>
  BY DEF Connect, CheckLastCmd, instanceVars, sessionVars, historyVars
<1>2. \A d \in Consumers : d # c => pc'[d] = pc[d]
  BY DEF Connect, CheckLastCmd, Goto, TypeOK
<1>3. \/ pc[c] = "out" /\ Len(fifo_cmd) < Pending
         /\ pc'[c] = IF mode = "game" THEN "resend" ELSE "again"
      \/ pc[c] = "again" /\ pc'[c] = IF last_cmd = "hide" THEN "status" ELSE "join"
  BY DEF Connect, CheckLastCmd, Goto, TypeOK
<1>4. Len(fifo_cmd) \in Nat /\ Pending \in Nat
  BY LenProperties, CommandsAssumption DEF TypeOK
<1>5. Room'
  BY <1>0, <1>1, <1>2, <1>3, <1>4 DEF Room
<1>6. Producers'
  BY <1>0, <1>1 DEF Producers
<1>7. ModeOnItsWay'
  BY <1>0, <1>1, <1>2, <1>3 DEF ModeOnItsWay, Connecting
<1>8. StatusOnItsWay'
  BY <1>0, <1>1, <1>2, <1>3 DEF StatusOnItsWay
<1> QED
  BY <1>5, <1>6, <1>7, <1>8 DEF Reaching

LEMMA ReachingResend ==
  ASSUME TypeOK, SentBefore, ConnectAlone, Reaching, Pending + 1 < VT_CMD_FIFO_SIZE,
         NEW c \in Consumers, ResendGameMode(c) \/ ResendStatus(c)
  PROVE  Reaching'
<1> USE ConsumersApart
<1>0. Room /\ Producers /\ ModeOnItsWay /\ StatusOnItsWay
  BY DEF Reaching
<1>1. UNCHANGED <<producer, consumer, mode, last_cmd, session_mode, told, unheard, behind>>
  BY DEF ResendGameMode, ResendStatus, historyVars
<1>2. \A d \in Consumers : d # c => pc'[d] = pc[d] /\ pc[d] \notin Connecting
  BY DEF ResendGameMode, ResendStatus, Goto, TypeOK, ConnectAlone, Connecting
<1>3. PICK cmd \in use.kinds :
        /\ \/ pc[c] = "resend" /\ cmd = "game_on" /\ pc'[c] = "again"
           \/ pc[c] = "status" /\ cmd = "hide" /\ pc'[c] = "join"
        /\ Put(cmd)
  BY DEF ResendGameMode, ResendStatus, Resent, Goto, TypeOK, SentBefore
<1>4. fifo_cmd \in Seq(use.kinds) /\ Len(fifo_cmd) \in Nat /\ Pending \in Nat
  BY LenProperties, CommandsAssumption DEF TypeOK
<1>5. fifo_cmd' = Append(fifo_cmd, cmd) /\ Len(fifo_cmd') = Len(fifo_cmd) + 1
  <2>1. Len(fifo_cmd) < VT_CMD_FIFO_SIZE
    BY <1>0, <1>3, <1>4, CommandsAssumption DEF Room
  <2> QED
    BY <2>1, <1>3, <1>4, AppendProperties DEF Put
<1>6. Room' /\ Producers'
  BY <1>0, <1>1, <1>2, <1>3, <1>4, <1>5 DEF Room, Producers, Connecting
<1>7. ModeOnItsWay'
  <2>1. /\ LastIs(fifo_cmd', GameKinds, "game_on") => mode' = "game" \/ "game" \in unheard'
        /\ LastIs(fifo_cmd', GameKinds, "game_off") => mode' # "game"
    <3>1. cmd \in GameKinds =>
            /\ LastIs(fifo_cmd', GameKinds, "game_on") => cmd = "game_on"
            /\ LastIs(fifo_cmd', GameKinds, "game_off") => cmd = "game_off"
      BY <1>4, <1>5, LastOfAppend DEF GameKinds
    <3>2. cmd \notin GameKinds =>
            /\ LastIs(fifo_cmd', GameKinds, "game_on") => LastIs(fifo_cmd, GameKinds, "game_on")
            /\ LastIs(fifo_cmd', GameKinds, "game_off") => LastIs(fifo_cmd, GameKinds, "game_off")
      BY <1>4, <1>5, LastOfAppend DEF GameKinds
    <3>3. cmd # "game_off" /\ (cmd = "game_on" => pc[c] = "resend")
      BY <1>3
    <3> QED
      BY <3>1, <3>2, <3>3, <1>0, <1>1 DEF ModeOnItsWay
  <2>2. NoneOf(fifo_cmd', GameKinds) => NoneOf(fifo_cmd, GameKinds) /\ cmd # "game_on"
    BY <1>4, <1>5, NoneOfAppend DEF GameKinds
  <2> QED
    BY <2>1, <2>2, <1>0, <1>1, <1>2, <1>3 DEF ModeOnItsWay, Connecting
<1>8. StatusOnItsWay'
  <2>1. /\ LastIs(fifo_cmd', StatusKinds, "hide") => last_cmd' # "show" \/ "status" \in unheard'
        /\ LastIs(fifo_cmd', StatusKinds, "show") => last_cmd' # "hide"
    <3>1. cmd \in StatusKinds =>
            /\ LastIs(fifo_cmd', StatusKinds, "hide") => cmd = "hide"
            /\ LastIs(fifo_cmd', StatusKinds, "show") => cmd = "show"
      BY <1>4, <1>5, LastOfAppend DEF StatusKinds
    <3>2. cmd \notin StatusKinds =>
            /\ LastIs(fifo_cmd', StatusKinds, "hide") => LastIs(fifo_cmd, StatusKinds, "hide")
            /\ LastIs(fifo_cmd', StatusKinds, "show") => LastIs(fifo_cmd, StatusKinds, "show")
      BY <1>4, <1>5, LastOfAppend DEF StatusKinds
    <3>3. cmd # "show" /\ (cmd = "hide" => pc[c] = "status")
      BY <1>3
    <3> QED
      BY <3>1, <3>2, <3>3, <1>0, <1>1 DEF StatusOnItsWay
  <2>2. NoneOf(fifo_cmd', StatusKinds) => NoneOf(fifo_cmd, StatusKinds) /\ cmd # "hide"
    BY <1>4, <1>5, NoneOfAppend DEF StatusKinds
  <2> QED
    BY <2>1, <2>2, <1>0, <1>1, <1>2, <1>3 DEF StatusOnItsWay, Connecting
<1> QED
  BY <1>6, <1>7, <1>8 DEF Reaching

LEMMA ReachingJoin ==
  ASSUME TypeOK, ConnectAlone, Reaching, NEW c \in Consumers, Join(c)
  PROVE  Reaching'
<1> USE ConsumersApart
<1>0. Room /\ Producers /\ ModeOnItsWay /\ StatusOnItsWay
  BY DEF Reaching
<1>1. /\ UNCHANGED <<producer, mode, last_cmd, fifo_cmd, session_mode, told, unheard, behind>>
      /\ consumer' = c /\ pc[c] = "join" /\ consumer \in {None, c}
  BY DEF Join, sessionVars, historyVars, ConnectAlone, Connecting
<1>2. \A d \in Consumers : pc'[d] \notin Connecting
  BY DEF Join, Goto, TypeOK, ConnectAlone, Connecting
<1>3. Room' /\ Producers'
  BY <1>0, <1>1, <1>2 DEF Room, Producers, Connecting
<1>4. ModeOnItsWay'
  BY <1>0, <1>1, <1>2 DEF ModeOnItsWay, Connecting
<1>5. StatusOnItsWay'
  BY <1>0, <1>1, <1>2 DEF StatusOnItsWay, Connecting
<1> QED
  BY <1>3, <1>4, <1>5 DEF Reaching

\* Who leaves the tunnel takes what it knows along, or ends the mode unheard.
LEMMA ReachingLeave ==
  ASSUME Reaching, DisconnectProducer \/ \E c \in Consumers : Disconnect(c)
  PROVE  Reaching'
<1> USE ConsumersApart
<1>0. Room /\ Producers /\ ModeOnItsWay /\ StatusOnItsWay
  BY DEF Reaching
<1>1. ASSUME DisconnectProducer PROVE Reaching'
  <2>1. /\ UNCHANGED <<consumer, fifo_cmd, session_mode, told, pc, behind>>
        /\ mode' = "none" /\ last_cmd' = "invalid" /\ unheard \subseteq unheard'
        /\ mode = "game" => "game" \in unheard'
    BY <1>1 DEF DisconnectProducer, Unheard, sessionVars
  <2>2. ModeOnItsWay'
    BY <2>1, <1>0 DEF ModeOnItsWay
  <2>3. StatusOnItsWay'
    BY <2>1, <1>0 DEF StatusOnItsWay
  <2> QED
    BY <2>1, <2>2, <2>3, <1>0 DEF Reaching, Room, Producers
<1>2. ASSUME NEW c \in Consumers, Disconnect(c) PROVE Reaching'
  <2>1. /\ UNCHANGED <<producer, mode, last_cmd, fifo_cmd, session_mode, told, pc, unheard>>
        /\ consumer = c /\ consumer' = None /\ behind \subseteq behind'
        /\ session_mode[c] = "game" => <<c, "game">> \in behind'
        /\ told[c] => <<c, "status">> \in behind'
    BY <1>2 DEF Disconnect, Known, sessionVars
  <2>2. ModeOnItsWay'
    BY <2>1, <1>0 DEF ModeOnItsWay
  <2>3. StatusOnItsWay'
    BY <2>1, <1>0 DEF StatusOnItsWay
  <2> QED
    BY <2>1, <2>2, <2>3, <1>0 DEF Reaching, Room, Producers
<1> QED
  BY <1>1, <1>2

LEMMA ReachingReopen ==
  ASSUME TypeOK, Reaching, NEW s \in Sessions, Reopen(s)
  PROVE  Reaching'
<1> USE ConsumersApart
<1>0. Room /\ Producers /\ ModeOnItsWay /\ StatusOnItsWay
  BY DEF Reaching
<1>1. /\ UNCHANGED <<last_cmd, fifo_cmd>>
      /\ producer' = IF producer = s THEN None ELSE producer
      /\ consumer' = IF consumer = s THEN None ELSE consumer
      /\ mode' = ModeWithout(s) /\ unheard \subseteq unheard'
      /\ behind' = behind \ ({s} \X Matters)
  BY DEF Reopen, Unheard
<1>2. mode' \in {mode, "none"} /\ (mode = "game" => mode' = "game" \/ "game" \in unheard')
  BY <1>0 DEF Reopen, ModeWithout, Unheard, Producers
<1>3. \A d \in Consumers :
        /\ pc'[d] = IF d = s THEN "out" ELSE pc[d]
        /\ session_mode'[d] = IF d = s THEN "block" ELSE session_mode[d]
        /\ told'[d] = (told[d] /\ d # s)
  BY DEF Reopen, Goto, TypeOK
<1>4. \A d \in Consumers : d # s => \A m : <<d, m>> \in behind' <=> <<d, m>> \in behind
  BY <1>1
<1>5. Room'
  BY <1>0, <1>1, <1>3 DEF Room
<1>6. Producers'
  BY <1>0, <1>1 DEF Producers, ModeWithout
<1>7. ModeOnItsWay'
  BY <1>0, <1>1, <1>2, <1>3, <1>4 DEF ModeOnItsWay, Connecting
<1>8. StatusOnItsWay'
  BY <1>0, <1>1, <1>3, <1>4 DEF StatusOnItsWay
<1> QED
  BY <1>5, <1>6, <1>7, <1>8 DEF Reaching

LEMMA ReachingNext ==
  ASSUME Types, ConnectAlone, Reaching, [Next]_vars, Pending + 1 < VT_CMD_FIFO_SIZE
  PROVE  Reaching'
<1> USE ConsumersApart
<1>0. TypeOK /\ SentBefore
  BY DEF Types
<1>1. ASSUME NEW cmd \in use.kinds, SendCmd(cmd) PROVE Reaching'
  BY <1>0, <1>1, ReachingSend
<1>2. ASSUME NEW c \in Consumers,
             \/ RecvCmd(c) \/ Connect(c) \/ CheckLastCmd(c) \/ ResendGameMode(c)
             \/ ResendStatus(c) \/ Join(c)
      PROVE  Reaching'
  BY <1>0, <1>2, ReachingRecv, ReachingConnect, ReachingResend, ReachingJoin
<1>3. ASSUME DisconnectProducer \/ \E c \in Consumers : Disconnect(c) PROVE Reaching'
  BY <1>3, ReachingLeave
<1>4. ASSUME ConnectProducer PROVE Reaching'
  <2>1. /\ UNCHANGED <<consumer, mode, fifo_cmd, session_mode, told, pc, unheard, behind>>
        /\ producer' # None /\ last_cmd' = "invalid"
    BY <1>4 DEF ConnectProducer, sessionVars, historyVars
  <2>2. ModeOnItsWay'
    BY <2>1 DEF Reaching, ModeOnItsWay
  <2>3. StatusOnItsWay'
    BY <2>1 DEF Reaching, StatusOnItsWay
  <2> QED
    BY <2>1, <2>2, <2>3 DEF Reaching, Room, Producers
<1>5. ASSUME NEW c \in Consumers, Acquire(c) \/ Release(c) \/ PollCmdCall(c) PROVE Reaching'
  <2>1. UNCHANGED <<instanceVars, session_mode, told, unheard, behind>>
    BY <1>5 DEF Acquire, Release, PollCmdCall, PollCmdStep, sessionVars, historyVars
  <2>2. pc' = pc \/ \E to \in {"out", "check", "reset", "wait", "recheck"} : Goto(c, to)
    BY <1>5 DEF Acquire, Release, PollCmdCall, PollCmdStep
  <2>3. \A d \in Consumers : pc'[d] \in Connecting => pc[d] = pc'[d]
    BY <2>2, <1>0 DEF Goto, TypeOK, Connecting
  <2> QED
    BY <2>1, <2>3, ReachingUndisturbed
<1>6. ASSUME NEW s \in Sessions,
             PollRegister(s) \/ PollCmds(s) \/ PollBuffers(s) \/ PollWake(s)
      PROVE  Reaching'
  <2>1. UNCHANGED <<instanceVars, session_mode, told, unheard, behind>>
    BY <1>6 DEF PollRegister, PollCmds, PollBuffers, PollWake, sessionVars, historyVars
  <2>2. \E to \in {"out", "poll", "poll2", "asleep"} : Goto(s, to)
    BY <1>6 DEF PollRegister, PollCmds, PollBuffers, PollWake
  <2>3. \A d \in Consumers : pc'[d] \in Connecting => pc[d] = pc'[d]
    BY <2>2, <1>0 DEF Goto, TypeOK, Connecting
  <2> QED
    BY <2>1, <2>3, ReachingUndisturbed
<1>7. ASSUME WakeConsumer \/ Queue \/ Dequeue \/ UNCHANGED vars PROVE Reaching'
  <2>1. UNCHANGED <<instanceVars, session_mode, told, unheard, behind>>
    BY <1>7 DEF WakeConsumer, Queue, Dequeue, vars, sessionVars, historyVars
  <2>2. pc' = pc \/ Goto(Producer, "out")
    BY <1>7 DEF WakeConsumer, Queue, Dequeue, vars
  <2>3. \A d \in Consumers : pc'[d] \in Connecting => pc[d] = pc'[d]
    BY <2>2, <1>0 DEF Goto, TypeOK
  <2> QED
    BY <2>1, <2>3, ReachingUndisturbed
<1>8. ASSUME NEW s \in Sessions, Reopen(s) PROVE Reaching'
  BY <1>0, <1>8, ReachingReopen
<1> QED
  BY <1>1, <1>2, <1>3, <1>4, <1>5, <1>6, <1>7, <1>8 DEF Next

ReachingInv == Types /\ ConnectAlone /\ Reaching

LEMMA ReachingInvariant == ASSUME Pending + 1 < VT_CMD_FIFO_SIZE PROVE Spec => []ReachingInv
<1>1. ASSUME Init PROVE ReachingInv
  <2>1. \A c \in Consumers : pc[c] = "out" /\ session_mode[c] = "block" /\ ~told[c]
    BY <1>1, ConsumersApart DEF Init
  <2>2. ConnectAlone /\ Room
    BY <2>1 DEF ConnectAlone, Room, Connecting
  <2>3. Producers /\ ModeOnItsWay /\ StatusOnItsWay
    BY <1>1, <2>1, NothingIsLast, ConsumersApart
    DEF Init, Producers, ModeOnItsWay, StatusOnItsWay, Connecting
  <2> QED
    BY <1>1, <2>2, <2>3, TypesInit DEF ReachingInv, Reaching
<1>2. ReachingInv /\ [Next]_vars => ReachingInv'
  BY TypesNext, AloneNext, ReachingNext DEF ReachingInv, Types
<1> QED
  BY <1>1, <1>2, PTL DEF Spec

\* In a fifo that does not overflow, a consumer that has received everything
\* is in game mode if the tunnel is, whoever died, disconnected and connected
\* in between and whatever was sent while it connected; and it is in game mode
\* without the tunnel only if the mode ended unheard or it brought it along.
THEOREM CommandsGameModeReaches ==
  ASSUME Pending + 1 < VT_CMD_FIFO_SIZE PROVE Spec => []GameModeReaches
<1>1. ReachingInv => GameModeReaches
  BY NothingIsLast DEF ReachingInv, Reaching, ModeOnItsWay, GameModeReaches, Settled
<1> QED
  BY <1>1, ReachingInvariant, PTL

\* The same for the status, while it is the last command.
THEOREM CommandsStatusReaches ==
  ASSUME Pending + 1 < VT_CMD_FIFO_SIZE PROVE Spec => []StatusReaches
<1>1. ReachingInv => StatusReaches
  BY NothingIsLast DEF ReachingInv, Reaching, StatusOnItsWay, StatusReaches, Settled
<1> QED
  BY <1>1, ReachingInvariant, PTL
=============================================================================
