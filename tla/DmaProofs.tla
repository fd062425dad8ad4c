----------------------------- MODULE DmaProofs -----------------------------
(***************************************************************************)
(* Proofs of the invariants of Dma for every set of channels, every delay  *)
(* of an SPU transfer and every length of a chain.                         *)
(***************************************************************************)
EXTENDS Dma, TLAPS

(* What is left of a deadline is a number of cycles.                       *)
LEMMA LessType ==
  ASSUME NEW a \in Nat, NEW b \in Nat
  PROVE  Less(a, b) \in Nat /\ (a <= b => Less(a, b) = 0) /\ (a > b => Less(a, b) = a - b)
BY DEF Less

(* The invariant holds at reset.                                           *)
LEMMA InitInv == Init => IInv
<1> SUFFICES ASSUME Init PROVE IInv
  OBVIOUS
<1>1. /\ force \in BOOLEAN /\ master \in BOOLEAN /\ bit31 \in BOOLEAN /\ i_stat3 \in BOOLEAN
  BY DEF Init
<1>2. TypeOK
  BY <1>1, DmaAssumption DEF Init, TypeOK, NoChannel, Off
<1>3. PendingIffScheduled /\ FallbackNotLate
  BY DEF Init, PendingIffScheduled, FallbackNotLate, DMA_IsPending
<1>4. MasterFlagExact
  BY DEF Init, MasterFlagExact, MasterFlag
<1>5. QED
  BY <1>2, <1>3, <1>4 DEF IInv

(* A completion keeps DICR typed and its master flag exact.                *)
LEMMA CompleteKeepsDicr ==
  ASSUME TypeOK, MasterFlagExact, NEW ch \in Channels, dma_complete_channel(ch)
  PROVE  /\ started' \subseteq Channels /\ en' \subseteq Channels /\ flg' \subseteq Channels
         /\ force' \in BOOLEAN /\ master' \in BOOLEAN /\ bit31' \in BOOLEAN /\ i_stat3' \in BOOLEAN
         /\ MasterFlagExact'
<1>1. started' \subseteq Channels /\ en' \subseteq Channels /\ flg' \subseteq Channels
  BY DEF dma_complete_channel, TypeOK
<1>2. force' \in BOOLEAN /\ master' \in BOOLEAN /\ bit31' \in BOOLEAN /\ i_stat3' \in BOOLEAN
  BY DEF dma_complete_channel, TypeOK
<1>3. MasterFlagExact'
  <2>1. CASE ch \in en
    <3>1. en' \cap flg' # {} /\ force' = force /\ master' = master /\ bit31' = (master \/ bit31)
      BY <2>1 DEF dma_complete_channel
    <3>2. bit31 = (force \/ (master /\ en \cap flg # {}))
      BY DEF MasterFlagExact, MasterFlag
    <3>3. QED
      BY <3>1, <3>2 DEF MasterFlagExact, MasterFlag, TypeOK
  <2>2. CASE ch \notin en
    <3>1. UNCHANGED <<force, master, en, flg>> /\ bit31' = bit31
      BY <2>2 DEF dma_complete_channel, TypeOK
    <3>2. QED
      BY <3>1 DEF MasterFlagExact, MasterFlag
  <2>3. QED
    BY <2>1, <2>2
<1>4. QED
  BY <1>1, <1>2, <1>3

(* Writes to CHCR that leave no completion pending.                        *)
LEMMA ChcrInv ==
  ASSUME IInv, NEW ch \in Channels,
         ChcrStop(ch) \/ ChcrDisabled(ch) \/ OtcNotTriggered \/ GpuStalled
  PROVE  IInv'
<1>1. /\ started' \subseteq Channels
      /\ UNCHANGED <<dpcr, force, master, en, flg, bit31, i_stat3>>
      /\ UNCHANGED <<dma_pending_channel, deadline_left, event_left, ahead>>
  BY DmaAssumption
  DEF IInv, TypeOK, ChcrStop, ChcrDisabled, OtcNotTriggered, GpuStalled, dicrVars, pendingVars
<1>2. QED
  BY <1>1 DEF IInv, TypeOK, PendingIffScheduled, MasterFlagExact, MasterFlag, FallbackNotLate, DMA_IsPending

(* Transfers, immediate and deferred.                                      *)
LEMMA TransferInv ==
  ASSUME IInv, (\E ch \in Channels : TransferAtOnce(ch)) \/ (\E delay \in SpuDelays : SpuTransfer(delay))
  PROVE  IInv'
<1>1. ASSUME NEW ch \in Channels, TransferAtOnce(ch) PROVE IInv'
  <2>1. dma_complete_channel(ch) /\ UNCHANGED <<dpcr, dma_pending_channel, deadline_left, event_left, ahead>>
    BY <1>1 DEF TransferAtOnce, pendingVars
  <2>2. QED
    BY <2>1, CompleteKeepsDicr DEF IInv, TypeOK, PendingIffScheduled, FallbackNotLate, DMA_IsPending
<1>2. ASSUME NEW delay \in SpuDelays, SpuTransfer(delay) PROVE IInv'
  <2>1. /\ started' \subseteq Channels /\ dma_pending_channel' = Spu /\ deadline_left' = delay
        /\ event_left' = delay /\ UNCHANGED <<dpcr, force, master, en, flg, bit31, i_stat3, ahead>>
    BY <1>2, DmaAssumption DEF SpuTransfer, IInv, TypeOK, dicrVars
  <2>2. delay \in Nat /\ Spu \in Channels /\ Spu # NoChannel
    BY DmaAssumption DEF NoChannel
  <2>3. TypeOK' /\ MasterFlagExact'
    BY <2>1, <2>2 DEF IInv, TypeOK, MasterFlagExact, MasterFlag
  <2>4. PendingIffScheduled' /\ FallbackNotLate'
    BY <2>1, <2>2 DEF IInv, TypeOK, PendingIffScheduled, FallbackNotLate, DMA_IsPending, Off
  <2>5. QED
    BY <2>3, <2>4 DEF IInv
<1>3. QED
  BY <1>1, <1>2

(* The two ways a deferred completion comes.                               *)
LEMMA CompletionInv ==
  ASSUME IInv, dma_check_pending \/ DMA_FireCompletion
  PROVE  IInv'
<1>1. /\ dma_pending_channel' = NoChannel /\ event_left' = Off
      /\ UNCHANGED <<dpcr, deadline_left, ahead>>
  BY DEF dma_check_pending, DMA_FireCompletion
<1>2. CASE DMA_IsPending
  <2>1. dma_pending_channel \in Channels /\ dma_complete_channel(dma_pending_channel)
    BY <1>2 DEF IInv, TypeOK, DMA_IsPending, dma_check_pending, DMA_FireCompletion
  <2>2. QED
    BY <1>1, <2>1, CompleteKeepsDicr
    DEF IInv, TypeOK, PendingIffScheduled, FallbackNotLate, DMA_IsPending
<1>3. CASE ~DMA_IsPending
  <2>1. UNCHANGED <<started, force, master, en, flg, bit31, i_stat3>>
    BY <1>3 DEF dma_check_pending, DMA_FireCompletion, dicrVars
  <2>2. QED
    BY <1>1, <2>1
    DEF IInv, TypeOK, PendingIffScheduled, MasterFlagExact, MasterFlag, FallbackNotLate, DMA_IsPending
<1>4. QED
  BY <1>2, <1>3

(* DPCR, DICR and I_STAT.                                                  *)
LEMMA ControlInv ==
  ASSUME IInv,
         \/ \E enabled \in ChannelSets : WriteDpcr(enabled)
         \/ \E f, m \in BOOLEAN, e, ack \in ChannelSets : WriteDicr(f, m, e, ack)
         \/ AckIStat
  PROVE  IInv'
<1>1. UNCHANGED <<started, dma_pending_channel, deadline_left, event_left, ahead>>
  BY DEF WriteDpcr, WriteDicr, AckIStat, pendingVars
<1>2. PendingIffScheduled' /\ FallbackNotLate'
  BY <1>1 DEF IInv, PendingIffScheduled, FallbackNotLate, DMA_IsPending
<1>3. dpcr' \subseteq Channels /\ en' \subseteq Channels /\ flg' \subseteq Channels
  BY DmaAssumption, ZenonT(60) DEF IInv, TypeOK, WriteDpcr, WriteDicr, AckIStat, dicrVars
<1>4. force' \in BOOLEAN /\ master' \in BOOLEAN
  BY DEF IInv, TypeOK, WriteDpcr, WriteDicr, AckIStat, dicrVars
<1>5. bit31' = MasterFlag(force', master', en', flg')
  <2>1. CASE UNCHANGED dicrVars
    BY <2>1 DEF dicrVars, IInv, MasterFlagExact, MasterFlag
  <2>2. CASE \E f, m \in BOOLEAN, e, ack \in ChannelSets : WriteDicr(f, m, e, ack)
    BY <2>2 DEF WriteDicr
  <2>3. QED
    BY <2>1, <2>2 DEF WriteDpcr, AckIStat
<1>6. bit31' \in BOOLEAN
  BY <1>4, <1>5 DEF MasterFlag
<1>7. i_stat3' \in BOOLEAN
  BY DEF IInv, TypeOK, WriteDpcr, WriteDicr, AckIStat
<1>8. QED
  BY <1>1, <1>2, <1>3, <1>4, <1>5, <1>6, <1>7 DEF IInv, TypeOK, MasterFlagExact

(* Time passes inside and between chains.                                  *)
LEMMA TimeInv ==
  ASSUME IInv, ChainRuns \/ ChainEnds
  PROVE  IInv'
<1>1. UNCHANGED <<started, dpcr, force, master, en, flg, bit31, i_stat3, dma_pending_channel>>
  BY DEF ChainRuns, ChainEnds, dicrVars
<1>2. MasterFlagExact'
  BY <1>1 DEF IInv, MasterFlagExact, MasterFlag
<1>3. CASE ChainRuns
  <2>1. /\ ahead' = ahead + 1 /\ ahead < MaxAhead
        /\ deadline_left' = Less(deadline_left, 1) /\ event_left' = event_left
    BY <1>3 DEF ChainRuns
  <2>2. deadline_left' \in Nat /\ deadline_left <= deadline_left' + 1
    BY <2>1, LessType DEF IInv, TypeOK
  <2>3. TypeOK'
    BY <1>1, <2>1, <2>2, DmaAssumption DEF IInv, TypeOK
  <2>4. PendingIffScheduled' /\ FallbackNotLate'
    BY <1>1, <2>1, <2>2 DEF IInv, TypeOK, PendingIffScheduled, FallbackNotLate, DMA_IsPending, Off
  <2>5. QED
    BY <1>2, <2>3, <2>4 DEF IInv
<1>4. CASE ChainEnds
  <2>1. /\ ahead' = 0 /\ deadline_left' = deadline_left
        /\ event_left' = IF event_left = Off THEN Off ELSE Less(event_left, ahead)
    BY <1>4 DEF ChainEnds
  <2>2. ahead \in Nat
    BY DmaAssumption DEF IInv, TypeOK
  <2>3. CASE event_left = Off
    BY <1>1, <1>2, <2>1, <2>3, DmaAssumption
    DEF IInv, TypeOK, PendingIffScheduled, FallbackNotLate, DMA_IsPending, Off
  <2>4. CASE event_left # Off
    <3>1. event_left \in Nat /\ event_left' = Less(event_left, ahead)
      BY <2>1, <2>4 DEF IInv, TypeOK
    <3>2. /\ event_left' \in Nat
          /\ event_left <= deadline_left + ahead => event_left' <= deadline_left
      <4>1. deadline_left \in Nat
        BY DEF IInv, TypeOK
      <4>2. QED
        BY <2>2, <3>1, <4>1 DEF Less
    <3>3. TypeOK'
      BY <1>1, <2>1, <3>2, DmaAssumption DEF IInv, TypeOK
    <3>4. PendingIffScheduled' /\ FallbackNotLate'
      BY <1>1, <2>1, <2>4, <3>2 DEF IInv, TypeOK, PendingIffScheduled, FallbackNotLate, DMA_IsPending, Off
    <3>5. QED
      BY <1>2, <3>3, <3>4 DEF IInv
  <2>5. QED
    BY <2>3, <2>4
<1>5. QED
  BY <1>3, <1>4

(* Every step preserves the invariant.                                     *)
LEMMA NextInv == IInv /\ [Next]_vars => IInv'
<1> SUFFICES ASSUME IInv, [Next]_vars PROVE IInv'
  OBVIOUS
<1>1. CASE Guest
  <2>1. OtcNotTriggered \/ GpuStalled => IInv'
    BY ChcrInv, DmaAssumption
  <2>2. ASSUME NEW ch \in Channels, ChcrStop(ch) \/ ChcrDisabled(ch) PROVE IInv'
    BY <2>2, ChcrInv
  <2>3. QED
    BY <1>1, <2>1, <2>2, TransferInv, CompletionInv, ControlInv DEF Guest
<1>2. CASE DMA_FireCompletion
  BY <1>2, CompletionInv
<1>3. CASE ChainRuns \/ ChainEnds
  BY <1>3, TimeInv
<1>4. CASE UNCHANGED vars
  BY <1>4 DEF vars, dicrVars, pendingVars, IInv, TypeOK, PendingIffScheduled, MasterFlagExact,
              MasterFlag, FallbackNotLate, DMA_IsPending
<1>5. QED
  BY <1>1, <1>2, <1>3, <1>4 DEF Next

(* The inductive invariant holds in every reachable state.                 *)
THEOREM Invariance == Spec => []IInv
BY InitInv, NextInv, PTL DEF Spec

(* Every register of dma.c keeps its type.                                 *)
THEOREM TypeCorrect == Spec => []TypeOK
<1>1. IInv => TypeOK
  BY DEF IInv
<1>2. QED
  BY <1>1, Invariance, PTL

(* dma_pending_channel and SCHED_EVENT_DMA never disagree, so the leaps of *)
(* the CPU loop are right to ask DMA_IsPending.                            *)
THEOREM PendingAgrees == Spec => []PendingIffScheduled
<1>1. IInv => PendingIffScheduled
  BY DEF IInv
<1>2. QED
  BY <1>1, Invariance, PTL

(* The stored master flag is the computed one in every reachable state.    *)
THEOREM MasterFlagAlwaysExact == Spec => []MasterFlagExact
<1>1. IInv => MasterFlagExact
  BY DEF IInv
<1>2. QED
  BY <1>1, Invariance, PTL

(* The event comes no later than the deadline of a poll, on two clocks.    *)
THEOREM FallbackInTime == Spec => []FallbackNotLate
<1>1. IInv => FallbackNotLate
  BY DEF IInv
<1>2. QED
  BY <1>1, Invariance, PTL

(* A completion whose master flag rises raises interrupt 3.                *)
LEMMA CompleteSignals ==
  ASSUME NEW ch, dma_complete_channel(ch), ~bit31, bit31'
  PROVE  i_stat3'
BY DEF dma_complete_channel

(* No step raises the master flag without interrupt 3.                     *)
THEOREM RisesAreSignalled == Spec => RiseIsSignalled
<1>1. [Next]_vars => [~bit31 /\ bit31' => i_stat3']_vars
  <2> SUFFICES ASSUME Next, ~bit31, bit31' PROVE i_stat3'
    OBVIOUS
  <2>1. ASSUME NEW f \in BOOLEAN, NEW m \in BOOLEAN, NEW e \in ChannelSets, NEW ack \in ChannelSets,
               WriteDicr(f, m, e, ack)
        PROVE  i_stat3'
    BY <2>1 DEF WriteDicr
  <2>2. ASSUME NEW ch \in Channels, TransferAtOnce(ch) PROVE i_stat3'
    BY <2>2, CompleteSignals DEF TransferAtOnce
  <2>3. CASE dma_check_pending
    BY <2>3, CompleteSignals DEF dma_check_pending
  <2>4. CASE DMA_FireCompletion
    <3>1. DMA_IsPending
      BY <2>4 DEF DMA_FireCompletion, dicrVars
    <3>2. QED
      BY <2>4, <3>1, CompleteSignals DEF DMA_FireCompletion
  <2>5. bit31' # bit31
    OBVIOUS
  <2>6. QED
    BY <2>1, <2>2, <2>3, <2>4, <2>5
    DEF Next, Guest, ChcrStop, ChcrDisabled, OtcNotTriggered, GpuStalled, SpuTransfer, WriteDpcr,
        AckIStat, ChainRuns, ChainEnds, dicrVars
<1>2. QED
  BY <1>1, PTL DEF Spec, RiseIsSignalled
=============================================================================
