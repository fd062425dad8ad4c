-------------------------------- MODULE Dma --------------------------------
(***************************************************************************)
(* The DMA controller of src/dma.c.  Every transfer moves its data at once *)
(* and completes at once, except the SPU's: its completion is deferred,    *)
(* and comes either from a scheduler event or from a read of CHCR that     *)
(* finds the deadline passed.  A completion sets the channel's flag in     *)
(* DICR, the master flag, and interrupt 3.                                 *)
(*                                                                         *)
(* Two clocks are involved: global_cycles, which stands still while a      *)
(* chain of blocks runs, and DMA_EFFECTIVE_CYCLES, which is ahead of it by *)
(* the cycles the chain has used.  The event is scheduled on the first,    *)
(* the deadline of the poll on the second; both are kept as cycles left.   *)
(* MADR, BCR and the data are left out (BCR gives the SPU's delay).        *)
(***************************************************************************)
EXTENDS Integers

CONSTANTS Channels,          \* 0 .. 6
          Gpu, Spu, Otc,     \* channels 2, 4 and 6
          ChannelSets,       \* sets of channels the guest writes to DPCR and DICR
          SpuDelays,         \* cycles an SPU transfer may take
          MaxAhead           \* bound: cycles of one chain

NoChannel == -1
Off == -1

ASSUME DmaAssumption ==
  /\ {Gpu, Spu, Otc} \subseteq Channels
  /\ Gpu # Spu /\ Spu # Otc /\ Gpu # Otc
  /\ Channels \subseteq Nat
  /\ ChannelSets \subseteq SUBSET Channels
  /\ SpuDelays \subseteq Nat \ {0}
  /\ MaxAhead \in Nat

VARIABLES started,             \* channels with CHCR bit 24 set
          dpcr,                \* channels DPCR enables
          force, master, en, flg, bit31,   \* DICR
          i_stat3,             \* bit 3 of I_STAT
          dma_pending_channel,
          deadline_left,       \* dma_pending_deadline - DMA_EFFECTIVE_CYCLES, or 0
          event_left,          \* SCHED_EVENT_DMA's deadline - global_cycles, or Off
          ahead                \* DMA_EFFECTIVE_CYCLES - global_cycles

dicrVars == <<force, master, en, flg, bit31>>
pendingVars == <<dma_pending_channel, deadline_left, event_left>>
vars == <<started, dpcr, dicrVars, i_stat3, pendingVars, ahead>>

(* dma_dpcr starts as 0x07654321: no channel enabled.                      *)
Init ==
  /\ started = {} /\ dpcr = {}
  /\ force = FALSE /\ master = FALSE /\ en = {} /\ flg = {} /\ bit31 = FALSE
  /\ i_stat3 = FALSE
  /\ dma_pending_channel = NoChannel /\ deadline_left = 0 /\ event_left = Off
  /\ ahead = 0

DMA_IsPending == dma_pending_channel # NoChannel
MasterFlag(f, m, e, fl) == f \/ (m /\ e \cap fl # {})

(* Cycles left of a after b have passed; none are left once it is reached. *)
Less(a, b) == IF a > b THEN a - b ELSE 0

-----------------------------------------------------------------------------
\* Mutant of dma_complete_channel: the flag is set without the enable bit.
dma_complete_always(ch) ==
  /\ started' = started \ {ch}
  /\ flg' = flg \cup {ch}
  /\ bit31' = (master \/ bit31)
  /\ i_stat3' = (master \/ i_stat3)
  /\ UNCHANGED <<force, master, en>>

(* dma_complete_channel, and the same for the other channels.              *)
dma_complete_channel(ch) ==
  /\ started' = started \ {ch}
  /\ flg' = IF ch \in en THEN flg \cup {ch} ELSE flg
  /\ bit31' = ((ch \in en /\ master) \/ bit31)
  /\ i_stat3' = ((ch \in en /\ master) \/ i_stat3)
  /\ UNCHANGED <<force, master, en>>

(* CHCR written without bit 24.                                            *)
ChcrStop(ch) ==
  /\ started' = started \ {ch}
  /\ UNCHANGED <<dpcr, dicrVars, i_stat3, pendingVars, ahead>>

(* Bit 24 on a channel that DPCR disables: it stays set.                   *)
ChcrDisabled(ch) ==
  /\ ch \notin dpcr
  /\ started' = started \cup {ch}
  /\ UNCHANGED <<dpcr, dicrVars, i_stat3, pendingVars, ahead>>

(* OTC without its trigger bit 28: bit 24 is cleared again.                *)
OtcNotTriggered ==
  /\ Otc \in dpcr
  /\ started' = started \ {Otc}
  /\ UNCHANGED <<dpcr, dicrVars, i_stat3, pendingVars, ahead>>

(* A transfer that is done when the write to CHCR returns.                 *)
TransferAtOnce(ch) ==
  /\ ch \in dpcr /\ ch # Spu
  /\ dma_complete_channel(ch)
  /\ UNCHANGED <<dpcr, pendingVars, ahead>>

(* GPU_DMA2 found a loop in the linked list: bit 24 stays set.             *)
GpuStalled ==
  /\ Gpu \in dpcr
  /\ started' = started \cup {Gpu}
  /\ UNCHANGED <<dpcr, dicrVars, i_stat3, pendingVars, ahead>>

\* Mutant of SpuTransfer: the event counts from the poll's deadline.
SpuTransferEventLate(delay) ==
  /\ Spu \in dpcr
  /\ started' = started \cup {Spu}
  /\ dma_pending_channel' = Spu
  /\ deadline_left' = delay
  /\ event_left' = ahead + delay + delay
  /\ UNCHANGED <<dpcr, dicrVars, i_stat3, ahead>>

\* Mutant of SpuTransfer: completion is left to the poll.
SpuTransferNoEvent(delay) ==
  /\ Spu \in dpcr
  /\ started' = started \cup {Spu}
  /\ dma_pending_channel' = Spu
  /\ deadline_left' = delay
  /\ UNCHANGED <<dpcr, dicrVars, i_stat3, event_left, ahead>>

SpuTransfer(delay) ==
  /\ Spu \in dpcr
  /\ started' = started \cup {Spu}
  /\ dma_pending_channel' = Spu
  /\ deadline_left' = delay
  /\ event_left' = delay
  /\ UNCHANGED <<dpcr, dicrVars, i_stat3, ahead>>

\* Mutant of dma_check_pending: the event is left on the table.
dma_check_pending_keeps_event ==
  /\ DMA_IsPending
  /\ deadline_left = 0
  /\ dma_complete_channel(dma_pending_channel)
  /\ dma_pending_channel' = NoChannel
  /\ UNCHANGED <<dpcr, deadline_left, event_left, ahead>>

(* CHCR of the pending channel read after its deadline.  Other reads of    *)
(* the controller change nothing.                                          *)
dma_check_pending ==
  /\ DMA_IsPending
  /\ deadline_left = 0
  /\ dma_complete_channel(dma_pending_channel)
  /\ dma_pending_channel' = NoChannel
  /\ event_left' = Off
  /\ UNCHANGED <<dpcr, deadline_left, ahead>>

DMA_FireCompletion ==
  /\ ahead = 0 /\ event_left = 0
  /\ IF DMA_IsPending
       THEN dma_complete_channel(dma_pending_channel)
       ELSE UNCHANGED <<started, dicrVars, i_stat3>>
  /\ dma_pending_channel' = NoChannel
  /\ event_left' = Off
  /\ UNCHANGED <<dpcr, deadline_left, ahead>>

WriteDpcr(enabled) ==
  /\ dpcr' = enabled
  /\ UNCHANGED <<started, dicrVars, i_stat3, pendingVars, ahead>>

\* Mutant of WriteDicr: enabling a flag that is already set is not an edge.
WriteDicrNoEdge(f, m, e, ack) ==
  /\ force' = f /\ master' = m /\ en' = e
  /\ flg' = flg \ ack
  /\ bit31' = MasterFlag(f, m, e, flg')
  /\ UNCHANGED <<started, dpcr, i_stat3, pendingVars, ahead>>

(* DICR: flags are acknowledged, the master flag is computed afresh, and   *)
(* its rise is an interrupt.                                               *)
WriteDicr(f, m, e, ack) ==
  /\ force' = f /\ master' = m /\ en' = e
  /\ flg' = flg \ ack
  /\ bit31' = MasterFlag(f, m, e, flg')
  /\ i_stat3' = (i_stat3 \/ (~bit31 /\ bit31'))
  /\ UNCHANGED <<started, dpcr, pendingVars, ahead>>

(* hardware.c: the guest acknowledges interrupt 3.                         *)
AckIStat ==
  /\ i_stat3' = FALSE
  /\ UNCHANGED <<started, dpcr, dicrVars, pendingVars, ahead>>

-----------------------------------------------------------------------------
(* A chain runs: the effective clock moves.  It ends: global_cycles        *)
(* catches up, and a due event is dispatched before the next chain.        *)
ChainRuns ==
  /\ ahead < MaxAhead
  /\ ~(ahead = 0 /\ event_left = 0)
  /\ ahead' = ahead + 1
  /\ deadline_left' = Less(deadline_left, 1)
  /\ UNCHANGED <<started, dpcr, dicrVars, i_stat3, dma_pending_channel, event_left>>

ChainEnds ==
  /\ ahead > 0
  /\ event_left' = IF event_left = Off THEN Off ELSE Less(event_left, ahead)
  /\ ahead' = 0
  /\ UNCHANGED <<started, dpcr, dicrVars, i_stat3, dma_pending_channel, deadline_left>>

(* Guest code runs only inside a chain.                                    *)
Guest ==
  /\ ahead > 0
  /\ \/ \E ch \in Channels : ChcrStop(ch) \/ ChcrDisabled(ch) \/ TransferAtOnce(ch)
     \/ OtcNotTriggered
     \/ GpuStalled
     \/ \E delay \in SpuDelays : SpuTransfer(delay)
     \/ dma_check_pending
     \/ \E enabled \in ChannelSets : WriteDpcr(enabled)
     \/ \E f, m \in BOOLEAN, e, ack \in ChannelSets : WriteDicr(f, m, e, ack)
     \/ AckIStat

Next == Guest \/ DMA_FireCompletion \/ ChainRuns \/ ChainEnds

Spec == Init /\ [][Next]_vars

(* Chains run and end for ever, and due events are dispatched: Run_CPU     *)
(* never waits for anything.                                               *)
FairSpec ==
  /\ Spec
  /\ WF_vars(ChainRuns) /\ WF_vars(ChainEnds) /\ WF_vars(DMA_FireCompletion)

-----------------------------------------------------------------------------
TypeOK ==
  /\ started \subseteq Channels
  /\ dpcr \subseteq Channels
  /\ force \in BOOLEAN /\ master \in BOOLEAN
  /\ en \subseteq Channels
  /\ flg \subseteq Channels
  /\ bit31 \in BOOLEAN
  /\ i_stat3 \in BOOLEAN
  /\ dma_pending_channel \in Channels \cup {NoChannel}
  /\ deadline_left \in Nat
  /\ event_left \in Nat \cup {Off}
  /\ ahead \in 0 .. MaxAhead

(* The pending transfer and the scheduler agree: one waits exactly while   *)
(* the other is armed, whichever of poll, event and restart came between.  *)
(* It is what lets the CPU loop ask DMA_IsPending before it leaps.         *)
PendingIffScheduled == DMA_IsPending <=> event_left # Off

(* The stored master flag, changed piecewise by completions and DICR       *)
(* writes, is always the one a read of DICR computes.                      *)
MasterFlagExact == bit31 = MasterFlag(force, master, en, flg)

(* The fallback event is never later than the deadline a polling guest     *)
(* would see, though they count on different clocks.                       *)
FallbackNotLate == DMA_IsPending => event_left <= deadline_left + ahead

(* The master flag never rises without interrupt 3.                        *)
RiseIsSignalled == [][~bit31 /\ bit31' => i_stat3']_vars

(* A deferred completion comes, unless the guest restarts the transfer     *)
(* for ever.                                                               *)
Restarts == \E delay \in SpuDelays : ahead > 0 /\ SpuTransfer(delay)
PendingCompletes == <>[][~Restarts]_vars => (DMA_IsPending ~> ~DMA_IsPending)

IInv ==
  /\ TypeOK
  /\ PendingIffScheduled
  /\ MasterFlagExact
  /\ FallbackNotLate
=============================================================================
