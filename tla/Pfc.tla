--------------------------------- MODULE Pfc ---------------------------------
(***************************************************************************)
(* Priority flow control between the hosts of a switch and its memory      *)
(* management: QbbNetDevice at the hosts, SwitchNode and SwitchMmu at the  *)
(* switch, for one priority class and one output port.                     *)
(*                                                                         *)
(* Buffers are counted in packets of one MTU, which is also the minimum of *)
(* a class and of a port; the egress counters, where a minimum of one byte *)
(* more than the MTU splits a packet, in half packets.  Time is counted in *)
(* ticks, the time a packet takes to be sent.  Pause and resume both have  *)
(* a timer of their own at either end, and the frames between them may     *)
(* wait for frames in front.                                               *)
(***************************************************************************)
EXTENDS Integers, FiniteSets, SequencesExt

CONSTANTS
  Hosts,         \* each behind an input port of its own
  PauseTime,     \* m_pausetime
  Delay,         \* of a link
  MaxWait,       \* bound: how long a PFC frame waits for its port
  SpLimit,       \* m_buffer_cell_limit_sp
  Hdrm,          \* m_pg_hdrm_limit
  AlphaInverse,  \* 1 / m_pg_shared_alpha_cell
  AlphaEgress    \* m_pg_shared_alpha_cell_egress

ASSUME PfcAssumption ==
  /\ {PauseTime, Delay, Hdrm, AlphaInverse, AlphaEgress} \subseteq Nat \ {0}
  /\ {MaxWait, SpLimit} \subseteq Nat
  /\ IsFiniteSet(Hosts) /\ Hosts # {}

VARIABLES
  nicTimer,      \* host: ticks until m_resumeEvt; Off where m_paused is unset
  up,            \* host: the packets on the link, by the ticks they still need
  frames,        \* host: the PFC frames on their way to it
  swTimer,       \* port: ticks until resumeEvt; Off where paused is unset
  pauseRemote,   \* port: m_pause_remote
  queue,         \* the output queue: the hosts its packets came from
  hdrm,          \* port: m_usedIngressPGHeadroomBytes
  qMin,          \* m_usedEgressQMinBytes, in half packets
  qShared        \* m_usedEgressQSharedBytes, in half packets

switchVars == <<swTimer, pauseRemote, queue, hdrm, qMin, qShared>>
vars == <<nicTimer, up, frames, switchVars>>

Off == -1
Ticks(n) == 0 .. n \union {Off}

Frame == [pause : BOOLEAN, left : 0 .. Delay + MaxWait]

Init ==
  /\ nicTimer = [h \in Hosts |-> Off]
  /\ up = [h \in Hosts |-> {}]
  /\ frames = [h \in Hosts |-> <<>>]
  /\ swTimer = [h \in Hosts |-> Off]
  /\ pauseRemote = [h \in Hosts |-> FALSE]
  /\ queue = <<>>
  /\ hdrm = [h \in Hosts |-> 0]
  /\ qMin = 0 /\ qShared = 0

-----------------------------------------------------------------------------
(* The thresholds of SwitchMmu.                                            *)

\* m_usedIngressPGBytes (and PortBytes, there being one class) of a port, and
\* m_usedIngressSPBytes (and m_usedTotalBytes).
PG(q, h) == Cardinality({i \in DOMAIN q : q[i] = h})
SP(q) == Len(q)

\* InitSwitch: 8 classes have a minimum at each port.
Reserved == 8 * Cardinality(Hosts)
MaxBuffer == SpLimit + Cardinality(Hosts) * Hdrm + Reserved
EgressLimit == 2 * (MaxBuffer - Reserved)
QMinLimit == 3

\* The egress pool is charged with what a queue has beyond its minimum.
CheckEgressAdmission ==
  /\ qShared + 2 <= EgressLimit
  /\ qShared + 2 <= AlphaEgress * (EgressLimit - qShared)

BufferFull == SP(queue) + 1 > MaxBuffer

HeadroomFull(h) ==
  PG(queue, h) + 1 > 1 /\ SP(queue) > SpLimit /\ hdrm[h] + 1 > Hdrm

CheckIngressAdmission(h) == ~ BufferFull /\ ~ HeadroomFull(h)

Admitted(h) == CheckEgressAdmission /\ CheckIngressAdmission(h)

\* What a port has beyond both minima against the share of what is left.
Excess(q, h) == AlphaInverse * (PG(q, h) - 2)

\* GetPauseClasses.
PauseClass(q, used, h) ==
  PG(q, h) > 2 /\ (Excess(q, h) > SpLimit - SP(q) \/ used # 0)

\* GetResumeClasses; the 16 bytes of m_pg_shared_alpha_cell_off_diff make no
\* difference among whole packets.
ResumeClass(q, used, h) ==
  swTimer[h] # Off /\ Excess(q, h) < SpLimit - SP(q) /\ used = 0

UpdateIngressAdmission(h) ==
  /\ queue' = Append(queue, h)
  /\ hdrm' = IF SP(queue') > SpLimit THEN [hdrm EXCEPT ![h] = @ + 1] ELSE hdrm

\* Faulty variant: what is left of the minimum is not used.
UpdateEgressAdmissionWhole ==
  IF qMin + 2 < QMinLimit
  THEN qMin' = qMin + 2 /\ UNCHANGED qShared
  ELSE UNCHANGED qMin /\ qShared' = qShared + 2

UpdateEgressAdmission ==
  IF qMin + 2 < QMinLimit
  THEN qMin' = qMin + 2 /\ UNCHANGED qShared
  ELSE qMin' = QMinLimit /\ qShared' = qShared + 2 + qMin - QMinLimit

\* Faulty variant: headroom is given back only above the shared limit.
RemoveFromIngressAdmissionAbove(h) ==
  /\ queue' = Tail(queue)
  /\ hdrm' = IF SP(queue) > SpLimit /\ hdrm[h] > 0
             THEN [hdrm EXCEPT ![h] = @ - 1] ELSE hdrm

\* Every packet that leaves gives headroom back, as far as there is any.
RemoveFromIngressAdmission(h) ==
  /\ queue' = Tail(queue)
  /\ hdrm' = [hdrm EXCEPT ![h] = IF @ > 1 THEN @ - 1 ELSE 0]

\* Faulty variant: the packet that straddles minimum and pool is forgotten.
RemoveFromEgressAdmissionWhole ==
  IF qMin < QMinLimit THEN qMin' = qMin - 2 /\ UNCHANGED qShared
  ELSE UNCHANGED qMin /\ qShared' = qShared - 2

RemoveFromEgressAdmission ==
  IF qMin < QMinLimit THEN qMin' = qMin - 2 /\ UNCHANGED qShared
  ELSE IF qShared < 2 THEN qMin' = qMin + qShared - 2 /\ qShared' = 0
  ELSE UNCHANGED qMin /\ qShared' = qShared - 2

-----------------------------------------------------------------------------
\* Of the events of one instant the simulator executes first what was
\* scheduled first, and that are the timers.
TimerDue == \E h \in Hosts : nicTimer[h] = 0 \/ swTimer[h] = 0

-----------------------------------------------------------------------------
(* The switch.                                                             *)

\* SendPfc.  Frames to a host stay in order.
SendPfc(h, pause) ==
  \E wait \in 0 .. MaxWait :
    /\ frames[h] # <<>> => Delay + wait >= Last(frames[h]).left
    /\ frames' = [frames EXCEPT ![h] =
                    Append(@, [pause |-> pause, left |-> Delay + wait])]

\* SendPfc with SetPause.
Pause(h) == SendPfc(h, TRUE) /\ swTimer' = [swTimer EXCEPT ![h] = PauseTime]

\* Faulty variant: SetResume is missing.
ResumeForgotten(h) == SendPfc(h, FALSE) /\ UNCHANGED swTimer

\* SendPfc with SetResume.
Resume(h) == SendPfc(h, FALSE) /\ swTimer' = [swTimer EXCEPT ![h] = Off]

CheckAndSendPfc(h) ==
  IF PauseClass(queue', hdrm'[h], h)
  THEN Pause(h) /\ pauseRemote' = [pauseRemote EXCEPT ![h] = TRUE]
  ELSE IF pauseRemote[h] /\ ResumeClass(queue', hdrm'[h], h)
  THEN Resume(h) /\ pauseRemote' = [pauseRemote EXCEPT ![h] = FALSE]
  ELSE UNCHANGED <<frames, swTimer, pauseRemote>>

\* Unlike CheckAndSendPfc it leaves m_pause_remote set.
CheckAndSendResume(h) ==
  /\ IF ResumeClass(queue', hdrm'[h], h) THEN Resume(h)
     ELSE UNCHANGED <<frames, swTimer>>
  /\ UNCHANGED pauseRemote

\* DoSwitchSend, at the arrival of a packet.
Arrive(h) ==
  /\ ~ TimerDue
  /\ 0 \in up[h]
  /\ up' = [up EXCEPT ![h] = @ \ {0}]
  /\ IF Admitted(h)
     THEN /\ UpdateIngressAdmission(h)
          /\ UpdateEgressAdmission
          /\ CheckAndSendPfc(h)
     ELSE UNCHANGED <<switchVars, frames>>
  /\ UNCHANGED nicTimer

\* DequeueAndTransmit with SwitchNotifyDequeue.  The output port may be faster
\* than a host, or held back by the next hop.
Dequeue ==
  /\ ~ TimerDue
  /\ queue # <<>>
  /\ RemoveFromIngressAdmission(Head(queue))
  /\ RemoveFromEgressAdmission
  /\ CheckAndSendResume(Head(queue))
  /\ UNCHANGED <<nicTimer, up>>

\* resumeEvt.
SetResume(h) ==
  /\ swTimer[h] = 0
  /\ swTimer' = [swTimer EXCEPT ![h] = Off]
  /\ UNCHANGED <<nicTimer, up, frames, pauseRemote, queue, hdrm, qMin, qShared>>

-----------------------------------------------------------------------------
(* The hosts.                                                              *)

\* Faulty variant: m_paused is not asked.
SendPaused(h) ==
  /\ ~ TimerDue
  /\ Delay \notin up[h]
  /\ up' = [up EXCEPT ![h] = @ \union {Delay}]
  /\ UNCHANGED <<nicTimer, frames, switchVars>>

\* DequeueAndTransmit: a packet in a tick, if the class is not paused.
Send(h) ==
  /\ ~ TimerDue
  /\ nicTimer[h] = Off
  /\ Delay \notin up[h]
  /\ up' = [up EXCEPT ![h] = @ \union {Delay}]
  /\ UNCHANGED <<nicTimer, frames, switchVars>>

\* QbbNetDevice::Receive of a PFC frame.
ReceivePfc(h) ==
  /\ ~ TimerDue
  /\ frames[h] # <<>> /\ Head(frames[h]).left = 0
  /\ frames' = [frames EXCEPT ![h] = Tail(@)]
  /\ nicTimer' = [nicTimer EXCEPT ![h] =
                    IF Head(frames[h]).pause THEN PauseTime ELSE Off]
  /\ UNCHANGED <<up, switchVars>>

\* m_resumeEvt.
NicResume(h) ==
  /\ nicTimer[h] = 0
  /\ nicTimer' = [nicTimer EXCEPT ![h] = Off]
  /\ UNCHANGED <<up, frames, switchVars>>

-----------------------------------------------------------------------------
\* Whatever is due happens before time passes.
Due ==
  \/ TimerDue
  \/ \E h \in Hosts :
       0 \in up[h] \/ (frames[h] # <<>> /\ Head(frames[h]).left = 0)

Down(n) == IF n = Off THEN Off ELSE n - 1

Tick ==
  /\ ~ Due
  /\ nicTimer' = [h \in Hosts |-> Down(nicTimer[h])]
  /\ swTimer' = [h \in Hosts |-> Down(swTimer[h])]
  /\ up' = [h \in Hosts |-> {n - 1 : n \in up[h]}]
  /\ frames' = [h \in Hosts |->
       [i \in DOMAIN frames[h] |-> [frames[h][i] EXCEPT !.left = @ - 1]]]
  /\ UNCHANGED <<pauseRemote, queue, hdrm, qMin, qShared>>

Next ==
  \/ Tick
  \/ Dequeue
  \/ \E h \in Hosts :
       \/ Send(h) \/ ReceivePfc(h) \/ NicResume(h)
       \/ Arrive(h) \/ SetResume(h)

Spec == Init /\ [][Next]_vars

\* Events are executed, and time goes on.
Fairness ==
  /\ WF_vars(Tick)
  /\ \A h \in Hosts :
       /\ WF_vars(Arrive(h)) /\ WF_vars(ReceivePfc(h))
       /\ WF_vars(SetResume(h)) /\ WF_vars(NicResume(h))

FairSpec == Spec /\ Fairness

-----------------------------------------------------------------------------
(* Properties.                                                             *)

TypeOK ==
  /\ nicTimer \in [Hosts -> Ticks(PauseTime)]
  /\ up \in [Hosts -> SUBSET (0 .. Delay)]
  /\ frames \in [Hosts -> Seq(Frame)]
  /\ swTimer \in [Hosts -> Ticks(PauseTime)]
  /\ pauseRemote \in [Hosts -> BOOLEAN]
  /\ queue \in Seq(Hosts)
  /\ hdrm \in [Hosts -> 0 .. MaxBuffer]
  /\ qMin \in 0 .. QMinLimit
  /\ qShared \in 0 .. EgressLimit

\* Headroom is charged for packets that are there, and for at least those that
\* exceed the shared buffer, although a packet that leaves gives headroom back
\* whether or not it took any.  The buffer as a whole is then never full:
\* "buffer full, usually should not reach here" (switch-mmu.cc:137).
HeadroomCharged ==
  /\ \A h \in Hosts : hdrm[h] <= PG(queue, h)
  /\ SP(queue) <= SpLimit + SumFunction(hdrm)
  /\ ~ BufferFull

\* The two egress counters together are the packets in the queue, and the
\* minimum is used up before the shared pool is: no subtraction underflows
\* ("STOP overflow", switch-mmu.cc:285, 307, 315).
EgressSplit ==
  /\ qMin + qShared = 2 * Len(queue)
  /\ qMin = (IF 2 * Len(queue) < QMinLimit THEN 2 * Len(queue) ELSE QMinLimit)

\* As long as the switch takes a host for paused, the host is paused, for
\* longer than the switch believes, or is about to be.
PauseCovers ==
  \A h \in Hosts : swTimer[h] # Off =>
    IF frames[h] # <<>> THEN Last(frames[h]).pause ELSE nicTimer[h] > swTimer[h]

\* No pause lasts for ever, whatever the output port does and although a pause
\* is renewed by every packet that arrives.
PauseEnds == \A h \in Hosts : []<>(nicTimer[h] = Off)

\* A resume frame finds the class paused ("Must be PAUSEd",
\* qbb-net-device.cc:501).
ResumeFindsPaused ==
  \A h \in Hosts :
    frames[h] # <<>> /\ Head(frames[h]).left = 0 /\ ~ Head(frames[h]).pause
      => nicTimer[h] # Off

=============================================================================
