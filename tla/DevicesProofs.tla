--------------------------- MODULE DevicesProofs ----------------------------
(***************************************************************************)
(* The controller port, for any number of ports, any set of loaded cards   *)
(* and any lengths of pad answers.  The interrupt logic, for any lines and *)
(* any budget: an interrupt that becomes pending is never hidden from      *)
(* compiled code and never costs or gains a cycle.  The root counters, for *)
(* any width, clock ratios, frame and targets: their interrupts are        *)
(* scheduled in time, and a counter that is advanced only when something   *)
(* looks at it implements RootCounter, the one that ticks by itself.       *)
(***************************************************************************)
EXTENDS Sio, Interrupts, Timers, FiniteSetTheorems, TLAPS

(* The port starts deselected and quiet.                                   *)
LEMMA SioInitOK == Init => IInv
<1> SUFFICES ASSUME Init PROVE IInv
  OBVIOUS
<1>1. TypeOK
  <2>1. /\ sio_selected \in BOOLEAN /\ sio_tx_pending \in BOOLEAN /\ sio_ack_latch \in BOOLEAN
        /\ sio_irq_pending \in BOOLEAN /\ irq_armed \in BOOLEAN /\ sio_stat9 \in BOOLEAN
        /\ i_stat7 \in BOOLEAN /\ owed \in BOOLEAN
    BY DEF Init
  <2>2. /\ sio_port \in Ports /\ sio_device \in {"none", "pad", "card"} /\ sio_state \in Nat
        /\ sio_response_len \in PadLens \cup {0} /\ sio_data \in {"FF", "dev"}
        /\ card_busy \subseteq Ports /\ stale \subseteq card_busy
    BY SioAssumption DEF Init
  <2>3. QED
    BY <2>1, <2>2 DEF TypeOK
<1>2. QuietWhenDeselected /\ OneIrqPerAck
  BY DEF Init, QuietWhenDeselected, OneIrqPerAck
<1>3. CardIsFresh /\ PadAnswerInRange
  BY DEF Init, CardIsFresh, PadAnswerInRange
<1>4. QED
  BY <1>1, <1>2, <1>3 DEF IInv

(* Bytes written to SIO_DATA preserve the invariant.                       *)
LEMMA SioDataOK ==
  ASSUME IInv,
         \/ WriteDataDeselected \/ (\E len \in PadLens : WriteDataPad(len))
         \/ WriteDataCard \/ WriteDataUnknown \/ WriteDataCardNext
         \/ WriteDataPadNext \/ WriteDataPadDone
  PROVE  IInv'
<1> USE DEF IInv, TypeOK, QuietWhenDeselected, CardIsFresh, OneIrqPerAck, PadAnswerInRange,
      exchangeVars, rxVars, irqVars, cardVars
<1>1. CASE WriteDataDeselected
  BY <1>1 DEF WriteDataDeselected, Receive
<1>2. CASE \E len \in PadLens : WriteDataPad(len)
  <2>1. PICK len \in PadLens : WriteDataPad(len)
    BY <1>2
  <2>2. len \in Nat /\ len > 1
    BY SioAssumption
  <2>3. QED
    BY <2>1, <2>2 DEF WriteDataPad, Receive, sio_assert_ack
<1>3. CASE WriteDataCard
  <2>1. CASE sio_port \in Loaded
    BY <1>3, <2>1 DEF WriteDataCard, StartCard, Receive, sio_assert_ack
  <2>2. CASE sio_port \notin Loaded
    BY <1>3, <2>2 DEF WriteDataCard, StartCard, Receive, sio_assert_ack
  <2>3. QED
    BY <2>1, <2>2
<1>4. CASE WriteDataUnknown
  BY <1>4 DEF WriteDataUnknown, Receive
<1>5. CASE WriteDataCardNext
  <2>1. card_busy' \subseteq Ports /\ stale' = stale \cap card_busy'
    BY <1>5, SioAssumption DEF WriteDataCardNext
  <2>2. UNCHANGED exchangeVars /\ sio_selected /\ sio_device = "card"
    BY <1>5 DEF WriteDataCardNext
  <2>3. sio_data' \in {"FF", "dev"} /\ sio_tx_pending' \in BOOLEAN
    BY <1>5 DEF WriteDataCardNext
  <2>4. CASE sio_port \in card_busy'
    BY <1>5, <2>1, <2>2, <2>3, <2>4 DEF WriteDataCardNext, sio_assert_ack
  <2>5. CASE sio_port \notin card_busy'
    <3>1. UNCHANGED irqVars
      BY <1>5, <2>5 DEF WriteDataCardNext
    <3>2. QED
      BY <2>1, <2>2, <2>3, <3>1
  <2>6. QED
    BY <2>4, <2>5
<1>6. CASE WriteDataPadNext
  <2>1. CASE sio_state < sio_response_len - 1
    BY <1>6, <2>1, SioAssumption DEF WriteDataPadNext, Receive, sio_assert_ack
  <2>2. CASE ~(sio_state < sio_response_len - 1)
    BY <1>6, <2>2, SioAssumption DEF WriteDataPadNext, Receive
  <2>3. QED
    BY <2>1, <2>2
<1>7. CASE WriteDataPadDone
  BY <1>7 DEF WriteDataPadDone, Receive
<1> QED
  BY <1>1, <1>2, <1>3, <1>4, <1>5, <1>6, <1>7

(* Writes to SIO_CTRL preserve the invariant.                              *)
LEMMA SioCtrlOK ==
  ASSUME IInv,
         \/ CtrlReset
         \/ \E ack \in BOOLEAN, port \in Ports : CtrlSelect(ack, port) \/ CtrlDeselect(ack, port)
  PROVE  IInv'
<1> USE DEF IInv, TypeOK, QuietWhenDeselected, CardIsFresh, OneIrqPerAck, PadAnswerInRange,
      rxVars, cardVars
<1>1. CASE CtrlReset
  <2>1. /\ sio_selected' \in BOOLEAN /\ sio_tx_pending' \in BOOLEAN /\ sio_ack_latch' \in BOOLEAN
        /\ sio_irq_pending' \in BOOLEAN /\ irq_armed' \in BOOLEAN /\ sio_stat9' \in BOOLEAN
        /\ i_stat7' \in BOOLEAN /\ owed' \in BOOLEAN
    BY <1>1 DEF CtrlReset
  <2>2. /\ sio_port' \in Ports /\ sio_device' \in {"none", "pad", "card"} /\ sio_state' \in Nat
        /\ sio_response_len' \in PadLens \cup {0} /\ sio_data' \in {"FF", "dev"}
        /\ card_busy' \subseteq Ports /\ stale' \subseteq card_busy'
    BY <1>1, SioAssumption DEF CtrlReset, Abandon
  <2>3. QuietWhenDeselected' /\ OneIrqPerAck' /\ CardIsFresh' /\ PadAnswerInRange'
    BY <1>1 DEF CtrlReset
  <2>4. QED
    BY <2>1, <2>2, <2>3
<1>2. ASSUME NEW ack \in BOOLEAN, NEW port \in Ports, CtrlSelect(ack, port)
      PROVE  IInv'
  <2>1. irq_armed' \in BOOLEAN /\ (irq_armed' => irq_armed) /\ sio_stat9' \in BOOLEAN
    BY <1>2 DEF CtrlSelect, ArmedAfterAck
  <2>2. CASE ~sio_selected \/ port # sio_port
    <3>1. /\ sio_state' = 0 /\ sio_device' = "none" /\ sio_ack_latch' = FALSE
          /\ card_busy' \subseteq card_busy /\ stale' \subseteq card_busy'
      BY <1>2, <2>2 DEF CtrlSelect, Abandon
    <3>2. /\ sio_selected' \in BOOLEAN /\ sio_tx_pending' \in BOOLEAN /\ sio_ack_latch' \in BOOLEAN
          /\ sio_irq_pending' \in BOOLEAN /\ irq_armed' \in BOOLEAN /\ sio_stat9' \in BOOLEAN
          /\ i_stat7' \in BOOLEAN /\ owed' \in BOOLEAN
      BY <1>2, <2>1, <3>1 DEF CtrlSelect
    <3>3. /\ sio_port' \in Ports /\ sio_device' \in {"none", "pad", "card"} /\ sio_state' \in Nat
          /\ sio_response_len' \in PadLens \cup {0} /\ sio_data' \in {"FF", "dev"}
          /\ card_busy' \subseteq Ports /\ stale' \subseteq card_busy'
      BY <1>2, <3>1 DEF CtrlSelect
    <3>4. QuietWhenDeselected' /\ OneIrqPerAck' /\ CardIsFresh' /\ PadAnswerInRange'
      BY <1>2, <2>1, <3>1 DEF CtrlSelect
    <3>5. QED
      BY <3>2, <3>3, <3>4
  <2>3. CASE sio_selected /\ port = sio_port
    BY <1>2, <2>1, <2>3 DEF CtrlSelect
  <2>4. QED
    BY <2>2, <2>3
<1>3. ASSUME NEW ack \in BOOLEAN, NEW port \in Ports, CtrlDeselect(ack, port)
      PROVE  IInv'
  <2>1. card_busy' \subseteq card_busy /\ stale' \subseteq card_busy' /\ sio_stat9' \in BOOLEAN
    BY <1>3 DEF CtrlDeselect, Abandon
  <2>2. /\ sio_selected' \in BOOLEAN /\ sio_tx_pending' \in BOOLEAN /\ sio_ack_latch' \in BOOLEAN
        /\ sio_irq_pending' \in BOOLEAN /\ irq_armed' \in BOOLEAN /\ sio_stat9' \in BOOLEAN
        /\ i_stat7' \in BOOLEAN /\ owed' \in BOOLEAN
    BY <1>3, <2>1 DEF CtrlDeselect
  <2>3. /\ sio_port' \in Ports /\ sio_device' \in {"none", "pad", "card"} /\ sio_state' \in Nat
        /\ sio_response_len' \in PadLens \cup {0} /\ sio_data' \in {"FF", "dev"}
        /\ card_busy' \subseteq Ports /\ stale' \subseteq card_busy'
    BY <1>3, <2>1 DEF CtrlDeselect
  <2>4. QuietWhenDeselected' /\ OneIrqPerAck' /\ CardIsFresh' /\ PadAnswerInRange'
    BY <1>3 DEF CtrlDeselect
  <2>5. QED
    BY <2>2, <2>3, <2>4
<1> QED
  BY <1>1, <1>2, <1>3

(* Reads, the interrupt and its acknowledgement preserve the invariant.    *)
LEMMA SioIrqOK ==
  ASSUME IInv,
         ReadData \/ ReadStat \/ Sched_SIO_IRQ_Callback \/ (\E keep \in BOOLEAN : WriteIStat(keep))
  PROVE  IInv'
<1> USE DEF IInv, TypeOK, QuietWhenDeselected, CardIsFresh, OneIrqPerAck, PadAnswerInRange,
      exchangeVars, rxVars, irqVars, cardVars
<1>1. CASE ReadData
  BY <1>1 DEF ReadData
<1>2. CASE ReadStat
  BY <1>2 DEF ReadStat
<1>3. CASE Sched_SIO_IRQ_Callback
  BY <1>3 DEF Sched_SIO_IRQ_Callback
<1>4. ASSUME NEW keep \in BOOLEAN, WriteIStat(keep)
      PROVE  IInv'
  <2>1. CASE sio_irq_pending /\ ~keep
    BY <1>4, <2>1 DEF WriteIStat
  <2>2. CASE ~(sio_irq_pending /\ ~keep)
    BY <1>4, <2>2 DEF WriteIStat
  <2>3. QED
    BY <2>1, <2>2
<1> QED
  BY <1>1, <1>2, <1>3, <1>4

(* Every step preserves the invariant.                                     *)
LEMMA SioNextOK == IInv /\ [Next]_vars => IInv'
<1> SUFFICES ASSUME IInv, [Next]_vars PROVE IInv'
  OBVIOUS
<1>1. CASE Next
  BY <1>1, SioDataOK, SioCtrlOK, SioIrqOK DEF Next
<1>2. CASE UNCHANGED vars
  BY <1>2 DEF vars, IInv, TypeOK, QuietWhenDeselected, CardIsFresh, OneIrqPerAck, PadAnswerInRange,
              exchangeVars, rxVars, irqVars, cardVars
<1>3. QED
  BY <1>1, <1>2

(* The inductive invariant holds in every reachable state.                 *)
THEOREM Invariance == Spec => []IInv
BY SioInitOK, SioNextOK, PTL DEF Spec

(* No latch, interrupt or answer of an exchange outlives its deselect.     *)
THEOREM QuietAfterDeselect == Spec => []QuietWhenDeselected
<1>1. IInv => QuietWhenDeselected
  BY DEF IInv
<1>2. QED
  BY <1>1, Invariance, PTL

(* A card in use was reset at the start of this exchange.                  *)
THEOREM CardAlwaysFresh == Spec => []CardIsFresh
<1>1. IInv => CardIsFresh
  BY DEF IInv
<1>2. QED
  BY <1>1, Invariance, PTL

(* No acknowledged byte raises its interrupt twice.                        *)
THEOREM NoDoubleIrq == Spec => []OneIrqPerAck
<1>1. IInv => OneIrqPerAck
  BY DEF IInv
<1>2. QED
  BY <1>1, Invariance, PTL

(* sio_state never passes the end of the pad's answer.                     *)
THEOREM PadNeverOverread == Spec => []PadAnswerInRange
<1>1. IInv => PadAnswerInRange
  BY DEF IInv
<1>2. QED
  BY <1>1, Invariance, PTL

-----------------------------------------------------------------------------
LEMMA IntInitOK == IntInit => IntIInv
<1> SUFFICES ASSUME IntInit PROVE IntIInv
  OBVIOUS
<1>1. LineTypeOK
  BY DEF IntInit, LineTypeOK
<1>2. BudgetTypeOK
  BY IntAssumption DEF IntInit, BudgetTypeOK
<1>3. CopiesAgree /\ BudgetTracks /\ TimeAccounted
  BY DEF IntInit, CopiesAgree, BudgetTracks, TimeAccounted
<1> QED BY <1>1, <1>2, <1>3 DEF IntIInv, IntTypeOK

(* A change of I_STAT or I_MASK: both copies are computed afresh, and what *)
(* the chain loses its correction gains.                                   *)
LEMMA IntRefreshOK ==
  ASSUME IntIInv, i_stat' \subseteq Irqs, i_mask' \subseteq Irqs, cdrom_irq_active' \in BOOLEAN, RefreshCopies
  PROVE  IntIInv'
<1>1. CopiesAgree'
  BY DEF RefreshCopies, CopiesAgree, IntIInv, IntTypeOK, LineTypeOK, BudgetTypeOK
<1>2. /\ correction' \in 0 .. MaxBudget /\ cycles_left' \in -2 .. MaxBudget
      /\ BudgetTracks'
  <2>1. CASE irq_pending' /\ in_chain /\ cycles_left > 0
    BY <2>1, IntAssumption
    DEF RefreshCopies, cap_cycles_for_irq, IntIInv, IntTypeOK, LineTypeOK, BudgetTypeOK, BudgetTracks
  <2>2. CASE ~(irq_pending' /\ in_chain /\ cycles_left > 0)
    BY <2>2 DEF RefreshCopies, cap_cycles_for_irq, IntIInv, IntTypeOK, LineTypeOK, BudgetTypeOK, BudgetTracks
  <2> QED BY <2>1, <2>2
<1>3. IntTypeOK'
  BY <1>2 DEF RefreshCopies, IntIInv, IntTypeOK, LineTypeOK, BudgetTypeOK
<1>4. TimeAccounted'
  BY DEF RefreshCopies, IntIInv, TimeAccounted
<1> QED BY <1>1, <1>2, <1>3, <1>4 DEF IntIInv

LEMMA IntDeviceOK == ASSUME IntIInv, IntDevice PROVE IntIInv'
<1>1. ASSUME NEW irq \in Irqs \ {CdIrq}, SignalInterrupt(irq) PROVE IntIInv'
  <2>1. /\ i_stat' \subseteq Irqs /\ i_mask' \subseteq Irqs
        /\ cdrom_irq_active' \in BOOLEAN /\ RefreshCopies
    BY <1>1 DEF SignalInterrupt, IntIInv, IntTypeOK, LineTypeOK, BudgetTypeOK
  <2> QED BY <2>1, IntRefreshOK
<1>2. ASSUME NEW active \in BOOLEAN, CdLine(active) PROVE IntIInv'
  <2>1. CASE active
    <3>1. /\ i_stat' \subseteq Irqs /\ i_mask' \subseteq Irqs
          /\ cdrom_irq_active' \in BOOLEAN /\ RefreshCopies
      BY <1>2, <2>1, IntAssumption DEF CdLine, IntIInv, IntTypeOK, LineTypeOK, BudgetTypeOK
    <3> QED BY <3>1, IntRefreshOK
  <2>2. CASE ~active
    BY <1>2, <2>2
    DEF CdLine, lineVars, chainVars, IntIInv, IntTypeOK, LineTypeOK, BudgetTypeOK, CopiesAgree, BudgetTracks, TimeAccounted
  <2> QED BY <2>1, <2>2
<1> QED BY <1>1, <1>2 DEF IntDevice

(* A change of the enables: the fast copy follows them.                    *)
LEMMA IntStatusOK ==
  ASSUME IntIInv, NEW s \in [c : BOOLEAN, p : BOOLEAN, o : BOOLEAN, im2 : BOOLEAN], SetStatus(s)
  PROVE  IntIInv'
<1>1. IntTypeOK' /\ CopiesAgree'
  BY DEF SetStatus, chainVars, IntIInv, IntTypeOK, LineTypeOK, BudgetTypeOK, CopiesAgree
<1>2. BudgetTracks' /\ TimeAccounted'
  BY DEF SetStatus, chainVars, IntIInv, BudgetTracks, TimeAccounted
<1> QED BY <1>1, <1>2 DEF IntIInv

LEMMA IntGuestOK == ASSUME IntIInv, IntGuest PROVE IntIInv'
<1>1. ASSUME NEW keep \in SUBSET Irqs, Write_I_STAT(keep) PROVE IntIInv'
  <2>1. /\ i_stat' \subseteq Irqs /\ i_mask' \subseteq Irqs
        /\ cdrom_irq_active' \in BOOLEAN /\ RefreshCopies
    BY <1>1, IntAssumption DEF Write_I_STAT, IntIInv, IntTypeOK, LineTypeOK, BudgetTypeOK
  <2> QED BY <2>1, IntRefreshOK
<1>2. ASSUME NEW mask \in SUBSET Irqs, Write_I_MASK(mask) PROVE IntIInv'
  <2>1. /\ i_stat' \subseteq Irqs /\ i_mask' \subseteq Irqs
        /\ cdrom_irq_active' \in BOOLEAN /\ RefreshCopies
    BY <1>2 DEF Write_I_MASK, IntIInv, IntTypeOK, LineTypeOK, BudgetTypeOK
  <2> QED BY <2>1, IntRefreshOK
<1>3. ASSUME NEW keep \in SUBSET Irqs, InlineIStat(keep) \/ InlineIMask(keep) PROVE IntIInv'
  BY <1>3
  DEF InlineIStat, InlineIMask, chainVars, IntIInv, IntTypeOK, LineTypeOK, BudgetTypeOK, CopiesAgree, BudgetTracks, TimeAccounted
<1>4. ASSUME NEW c \in BOOLEAN, NEW im2 \in BOOLEAN, MTC0([sr EXCEPT !.c = c, !.im2 = im2]) PROVE IntIInv'
  <2>1. [sr EXCEPT !.c = c, !.im2 = im2] \in [c : BOOLEAN, p : BOOLEAN, o : BOOLEAN, im2 : BOOLEAN]
    BY DEF IntIInv, IntTypeOK, LineTypeOK, BudgetTypeOK
  <2> QED BY <1>4, <2>1, IntStatusOK DEF MTC0
<1>5. CASE RFE
  <2>1. [sr EXCEPT !.c = sr.p, !.p = sr.o] \in [c : BOOLEAN, p : BOOLEAN, o : BOOLEAN, im2 : BOOLEAN]
    BY DEF IntIInv, IntTypeOK, LineTypeOK, BudgetTypeOK
  <2> QED BY <1>5, <2>1, IntStatusOK DEF RFE
<1>6. CASE GuestException
  BY <1>6
  DEF GuestException, Pushed, lineVars, IntIInv, IntTypeOK, LineTypeOK, BudgetTypeOK, CopiesAgree, BudgetTracks, TimeAccounted
<1> QED BY <1>1, <1>2, <1>3, <1>4, <1>5, <1>6 DEF IntGuest

LEMMA IntBlockOK == ASSUME IntIInv, NEW n \in 1 .. 2, RunBlock(n) PROVE IntIInv'
<1>1. IntTypeOK' /\ BudgetTracks'
  BY IntAssumption DEF RunBlock, in_chain, lineVars, IntIInv, IntTypeOK, LineTypeOK, BudgetTypeOK, BudgetTracks
<1>2. CopiesAgree' /\ TimeAccounted'
  BY DEF RunBlock, lineVars, IntIInv, CopiesAgree, TimeAccounted
<1> QED BY <1>1, <1>2 DEF IntIInv

(* The correction is always less than the cycles taken, and these are some *)
(* once a block has run: neither floor of the count is ever used.          *)
LEMMA IntEndOK == ASSUME IntIInv, EndChain PROVE IntIInv'
<1>1. CyclesTaken = spent
  BY DEF EndChain, CyclesTaken, IntIInv, IntTypeOK, LineTypeOK, BudgetTypeOK, BudgetTracks
<1>2. TimeAccounted'
  BY <1>1 DEF EndChain, TimeAccounted, IntIInv, IntTypeOK, LineTypeOK, BudgetTypeOK
<1>3. IntTypeOK' /\ CopiesAgree' /\ BudgetTracks'
  BY DEF EndChain, lineVars, IntIInv, IntTypeOK, LineTypeOK, BudgetTypeOK, CopiesAgree, BudgetTracks
<1> QED BY <1>2, <1>3 DEF IntIInv

LEMMA IntSyncOK == ASSUME IntIInv, sync_hardware_and_interrupts PROVE IntIInv'
<1>1. BudgetTracks' /\ TimeAccounted'
  BY DEF sync_hardware_and_interrupts, IntIInv, BudgetTracks, TimeAccounted
<1>2. IntTypeOK' /\ CopiesAgree'
  <2>1. CASE TakeIrq
    BY <2>1 DEF sync_hardware_and_interrupts, TakeIrq, Pushed, IntIInv, IntTypeOK, LineTypeOK, BudgetTypeOK, CopiesAgree
  <2>2. CASE IrqMasked
    BY <2>2 DEF sync_hardware_and_interrupts, IrqMasked, lineVars, IntIInv, IntTypeOK, LineTypeOK, BudgetTypeOK, CopiesAgree
  <2>3. CASE NothingPending
    BY <2>3 DEF sync_hardware_and_interrupts, NothingPending, IntIInv, IntTypeOK, LineTypeOK, BudgetTypeOK, CopiesAgree
  <2> QED BY <2>1, <2>2, <2>3 DEF sync_hardware_and_interrupts
<1> QED BY <1>1, <1>2 DEF IntIInv

LEMMA IntLoopOK == ASSUME IntIInv, IntLoop PROVE IntIInv'
<1>1. ASSUME NEW n \in 1 .. MaxBudget, StartChain(n) PROVE IntIInv'
  <2>1. LineTypeOK' /\ CopiesAgree'
    BY <1>1 DEF StartChain, lineVars, IntIInv, IntTypeOK, LineTypeOK, CopiesAgree
  <2>2. BudgetTypeOK'
    BY <1>1, IntAssumption DEF StartChain, BudgetTypeOK
  <2>3. BudgetTracks' /\ TimeAccounted'
    BY <1>1 DEF StartChain, BudgetTracks, TimeAccounted
  <2> QED BY <2>1, <2>2, <2>3 DEF IntIInv, IntTypeOK
<1> QED BY <1>1, IntBlockOK, IntEndOK, IntSyncOK DEF IntLoop

LEMMA IntStepOK == IntIInv /\ [IntNext]_intVars => IntIInv'
<1>1. ASSUME IntIInv, UNCHANGED intVars PROVE IntIInv'
  BY <1>1
  DEF intVars, lineVars, chainVars, IntIInv, IntTypeOK, LineTypeOK, BudgetTypeOK, CopiesAgree, BudgetTracks, TimeAccounted
<1> QED BY <1>1, IntDeviceOK, IntGuestOK, IntLoopOK DEF IntNext

(* However interrupts, acknowledgements, masks, enables and exceptions     *)
(* meet the blocks of a chain, the copy that compiled code tests is right  *)
(* and cap_cycles_for_irq's correction makes the cycle count exact.        *)
THEOREM ChainsStayExact == IntSpec => []ChainsAreExact
<1>1. IntIInv => ChainsAreExact
  BY DEF IntIInv, ChainsAreExact
<1> QED BY IntInitOK, IntStepOK, <1>1, PTL DEF IntSpec

-----------------------------------------------------------------------------
(* The root counters.                                                      *)

LEMMA TimerConstants ==
  /\ Counters \subseteq 0 .. 2 /\ \A t \in 0 .. 2 : Modes[t] \subseteq ModeRegs
  /\ Top \in Nat /\ Top > 1 /\ W \in Nat \ {0} /\ Divider \in Nat \ {0} /\ Den \in Nat \ {0}
  /\ Cps \in Nat \ {0} /\ Vis \in Nat \ {0} /\ Lines \in Nat \ {0} /\ VblLine \in Nat \ {0}
  /\ Values \subseteq 0 .. Top - 1 /\ Targets \subseteq 0 .. Top - 1
  /\ Vis <= Cps /\ MaxElapsed \in Nat /\ MaxElapsed < W - 1 /\ MaxElapsed <= W \div 2 /\ MaxLate \in 0 .. 999
BY TimerAssumption

LEMMA FrameOK == Cpf \in Nat \ {0} /\ Vbl \in Nat \ {0}
BY TimerConstants DEF Cpf, Vbl

LEMMA DivMod ==
  ASSUME NEW u \in Nat, NEW n \in Nat \ {0}
  PROVE  /\ u \div n \in Nat /\ u % n \in 0 .. n - 1 /\ u % n <= u
         /\ u = (u \div n) * n + (u % n) /\ (u < n => u \div n = 0 /\ u % n = u)
<1>1. u \div n \in Nat /\ u % n \in 0 .. n - 1
  OBVIOUS
<1>2. u = (u \div n) * n + (u % n)
  OBVIOUS
<1>3. (u \div n) * n \in Nat
  BY <1>1
<1>4. u % n <= u
  BY <1>1, <1>2, <1>3
<1>5. u < n => u \div n = 0
  OBVIOUS
<1>6. u < n => u % n = u
  BY <1>2, <1>5
<1> QED BY <1>1, <1>2, <1>4, <1>5, <1>6

(* The dividend is known from a quotient and a remainder in range.         *)
LEMMA DivUnique ==
  ASSUME NEW q \in Nat, NEW n \in Nat \ {0}, NEW x \in 0 .. n - 1
  PROVE  (q * n + x) \div n = q /\ (q * n + x) % n = x
OBVIOUS

LEMMA OneOver == ASSUME NEW n \in Nat \ {0}, NEW x \in 0 .. n - 1 PROVE (n + x) % n = x
<1>1. (1 * n + x) % n = x
  BY DivUnique
<1> QED BY <1>1

LEMMA SmallMod == ASSUME NEW u \in Nat, NEW n \in Nat \ {0} PROVE u % n <= u /\ (u < n => u % n = u)
BY DivMod

LEMMA ModRange == ASSUME NEW u \in Int, NEW n \in Nat \ {0} PROVE u % n \in 0 .. n - 1
OBVIOUS

-----------------------------------------------------------------------------
(* The counter's clock ticks at most once in a cycle.                      *)
Here == timer \in Counters /\ dot \in Dotclocks
LEMMA ClockOK ==
  ASSUME Here, NEW r
  PROVE  /\ Num(r) \in Nat \ {0} /\ Denom(r) \in Nat \ {0} /\ Denom(r) <= Num(r)
         /\ Dotclock(r) => Num(r) = dot /\ Denom(r) = Den /\ dot <= W
         /\ ~Dotclock(r) => Num(r) = divider(r) /\ Denom(r) = 1
BY TimerAssumption DEF Here, Num, Denom, divider

Keeps(q, r) ==
  /\ q \in TimerRegs /\ q.mode = r.mode /\ q.target = r.target /\ q.fired = r.fired
  /\ q.value = r.value \/ q.value = 0

LEMMA RegsOK ==
  ASSUME NEW r \in TimerRegs
  PROVE  /\ r.value \in 0 .. Top /\ r.target \in 0 .. Top - 1 /\ r.el \in 0 .. W - 1 /\ r.residue \in 0 .. Den - 1
         /\ r.phase \in Nat /\ r.age \in Nat /\ r.mode \in ModeRegs /\ r.fired \in BOOLEAN /\ r.freed \in BOOLEAN
         /\ r.mode.sm \in 0 .. 3 /\ r.mode.sync \in BOOLEAN /\ r.mode.reset \in BOOLEAN /\ r.mode.repeat \in BOOLEAN
         /\ r.mode.irqT \in BOOLEAN /\ r.mode.irqO \in BOOLEAN
BY FrameOK, TimerConstants DEF TimerRegs, ModeRegs

(* What the blanking may do to a counter keeps its registers in range.     *)
LEMMA KeepsOK ==
  ASSUME NEW r \in TimerRegs
  PROVE  /\ Keeps(r, r)
         /\ Keeps(Cleared(r), r)
         /\ Keeps([r EXCEPT !.value = 0], r)
         /\ Keeps([r EXCEPT !.el = 0], r)
         /\ Keeps(Cleared(Freed(r)), r)
         /\ Keeps(Cleared([Freed(r) EXCEPT !.el = 0]), r)
<1> DEFINE z == [r EXCEPT !.value = 0, !.residue = 0]
           f == [r EXCEPT !.freed = TRUE]
           g == [f EXCEPT !.el = 0]
<1>1. /\ 0 \in 0 .. Top /\ 0 \in 0 .. Den - 1 /\ 0 \in 0 .. W - 1
  BY TimerConstants
<1>2. Keeps(r, r) /\ Keeps(z, r)
  BY <1>1 DEF Keeps, TimerRegs
<1>3. Keeps([r EXCEPT !.value = 0], r) /\ Keeps(f, r) /\ Keeps([r EXCEPT !.el = 0], r)
  BY <1>1 DEF Keeps, TimerRegs
<1> HIDE DEF z, f
<1>4. Keeps(g, r)
  BY <1>1, <1>3 DEF Keeps, TimerRegs
<1> HIDE DEF g
<1>5. Keeps([f EXCEPT !.value = 0, !.residue = 0], r)
  BY <1>1, <1>3 DEF Keeps, TimerRegs
<1>6. Keeps([g EXCEPT !.value = 0, !.residue = 0], r)
  BY <1>1, <1>4 DEF Keeps, TimerRegs
<1> QED BY <1>2, <1>3, <1>5, <1>6 DEF z, f, g, Cleared, Freed

Sensible(c, r) == c.stop \in BOOLEAN /\ c.e \in Nat /\ Keeps(c.r, r)

LEMMA CountsOK ==
  ASSUME NEW q, NEW r, Keeps(q, r), NEW e \in Nat
  PROVE  Sensible(Counts(q, e), r)
BY DEF Sensible, Counts
LEMMA StandsOK ==
  ASSUME NEW q, NEW r, Keeps(q, r)
  PROVE  Sensible(StandsStill(q), r)
BY DEF Sensible, StandsStill

LEMMA RestartsOK ==
  ASSUME NEW r \in TimerRegs, NEW e \in Nat
  PROVE  /\ Sensible(RestartsAt(r, e), r) /\ Sensible(RestartsAt(Freed(r), e), r)
         /\ Sensible(RestartsAt([Freed(r) EXCEPT !.el = 0], e), r)
BY KeepsOK, CountsOK, StandsOK DEF RestartsAt

LEMMA Timer0OK ==
  ASSUME NEW r \in TimerRegs
  PROVE  Sensible(Timer0Sync(r), r)
<1>0. /\ r.el \in 0 .. W - 1 /\ r.phase \in Nat /\ r.mode.sm \in 0 .. 3 /\ r.freed \in BOOLEAN
  BY RegsOK
<1>1. /\ phase_to(r) \in Nat /\ phase_to(r) < Cps /\ scan_to(r) \in Nat
      /\ phase_from(r) \in Nat /\ scan_from(r) \in Nat
  <2>0. r.phase - r.el \in Int
    BY <1>0, TimerConstants
  <2>1. offs_from(r) \in Nat
    BY <2>0, ModRange, TimerConstants DEF offs_from
  <2>2. Cps \in Nat \ {0}
    BY TimerConstants
  <2>3. phase_to(r) \in 0 .. Cps - 1 /\ scan_to(r) \in Nat
    BY <1>0, <2>2, DivMod DEF phase_to, scan_to
  <2>4. phase_from(r) \in 0 .. Cps - 1 /\ scan_from(r) \in Nat
    BY <2>1, <2>2, DivMod DEF phase_from, scan_from
  <2> QED BY <2>2, <2>3, <2>4
<1>2. count_active_cycles_hblank(r) \in Nat
  <2>0. r.el - 1 \in Int /\ 0 \in Int
    BY <1>0, TimerConstants
  <2> DEFINE n == r.el - 1
  <2> HIDE DEF n
  <2>1. IsFiniteSet(0 .. n)
    BY <2>0, FS_Interval DEF n
  <2>2. IsFiniteSet({i \in 0 .. n : (phase_from(r) + i) % Cps < Vis})
    BY <2>1, FS_Subset
  <2> QED BY <2>2, FS_CardinalityType DEF count_active_cycles_hblank, n
<1>3. SinceHBlank(r) \in Nat
  BY <1>0, <1>1, TimerConstants DEF SinceHBlank
<1>4. SinceFirstHBlank(r) \in Nat
  <2> DEFINE u == r.phase - (IF phase_from(r) < Vis THEN scan_from(r) ELSE scan_from(r) + 1) * Cps - Vis
  <2>1. u \in Int
    BY <1>0, <1>1, TimerConstants
  <2> HIDE DEF u
  <2>2. u % W \in Nat
    BY <2>1, ModRange, TimerConstants
  <2> QED BY <2>2 DEF SinceFirstHBlank, u
<1>5. phase_to(r) >= Vis => phase_to(r) - Vis \in Nat
  BY <1>1, TimerConstants
<1>6. /\ Sensible(Counts(r, r.el), r) /\ Sensible(Counts(r, count_active_cycles_hblank(r)), r)
      /\ Sensible(StandsStill(r), r) /\ Sensible(StandsStill(Cleared(r)), r)
  <2>1. r.el \in Nat
    BY <1>0, TimerConstants
  <2>2. Keeps(r, r) /\ Keeps(Cleared(r), r)
    BY KeepsOK
  <2> QED BY <1>2, <2>1, <2>2, CountsOK, StandsOK
<1>7. /\ Sensible(RestartsAt(r, SinceHBlank(r)), r) /\ Sensible(RestartsAt(Freed(r), SinceFirstHBlank(r)), r)
      /\ phase_to(r) >= Vis => Sensible(RestartsAt(r, phase_to(r) - Vis), r)
  BY <1>3, <1>4, <1>5, RestartsOK
<1>8. \/ Timer0Sync(r) \in {Counts(r, r.el), Counts(r, count_active_cycles_hblank(r)), StandsStill(r),
                             StandsStill(Cleared(r)), RestartsAt(r, SinceHBlank(r)),
                             RestartsAt(Freed(r), SinceFirstHBlank(r))}
      \/ phase_to(r) >= Vis /\ Timer0Sync(r) = RestartsAt(r, phase_to(r) - Vis)
  <2>1. CASE r.mode.sm = 0
    BY <2>1 DEF Timer0Sync
  <2>2. CASE r.mode.sm = 1
    BY <2>2 DEF Timer0Sync
  <2>3. CASE r.mode.sm = 2
    BY <2>3 DEF Timer0Sync
  <2>4. CASE r.mode.sm = 3
    BY <1>0, <2>4 DEF Timer0Sync
  <2> QED BY <1>0, <2>1, <2>2, <2>3, <2>4
<1> QED BY <1>6, <1>7, <1>8

LEMMA Timer1OK ==
  ASSUME NEW r \in TimerRegs
  PROVE  Sensible(Timer1Sync(r), r)
<1>0. /\ r.el \in 0 .. W - 1 /\ r.el \in Nat /\ r.phase \in Nat /\ r.mode.sm \in 0 .. 3 /\ r.freed \in BOOLEAN
  BY RegsOK
<1>1. (r.phase - Vbl) % Cpf \in Nat
  BY <1>0, FrameOK, ModRange
<1>2. Keeps(r, r) /\ Keeps([r EXCEPT !.value = 0], r)
  BY KeepsOK
<1>3. CASE r.mode.sm = 0
  BY <1>0, <1>2, <1>3, CountsOK, StandsOK DEF Timer1Sync
<1>4. CASE r.mode.sm = 1
  BY <1>0, <1>1, <1>2, <1>4, CountsOK, StandsOK, RestartsOK DEF Timer1Sync
<1>5. CASE r.mode.sm = 2
  BY <1>0, <1>2, <1>5, CountsOK, StandsOK DEF Timer1Sync
<1>6. CASE r.mode.sm = 3
  BY <1>0, <1>2, <1>6, CountsOK, StandsOK, RestartsOK DEF Timer1Sync
<1> QED BY <1>0, <1>3, <1>4, <1>5, <1>6

LEMMA ElapsedOK ==
  ASSUME Here, NEW r \in TimerRegs
  PROVE  /\ Sensible(Elapsed(r), r)
         /\ stopped(r) => Elapsed(r) = StandsStill(r)
         /\ FreeRun(r) => Elapsed(r) = Counts(r, r.el)
<1>0. r.el \in Nat /\ r.mode.sync \in BOOLEAN /\ timer \in 0 .. 2
  BY RegsOK, TimerConstants DEF Here
<1>1. Keeps(r, r)
  BY KeepsOK
<1>2. CASE stopped(r)
  <2>1. Elapsed(r) = StandsStill(r)
    BY <1>2 DEF Elapsed, stopped
  <2>2. Sensible(StandsStill(r), r)
    BY <1>0, <1>1, CountsOK, StandsOK
  <2> QED BY <1>2, <2>1, <2>2 DEF FreeRun
<1>3. CASE ~stopped(r) /\ r.mode.sync /\ timer = 0
  BY <1>3, Timer0OK DEF Elapsed, FreeRun, Follows
<1>4. CASE ~stopped(r) /\ r.mode.sync /\ timer = 1
  BY <1>4, Timer1OK DEF Elapsed, FreeRun, Follows
<1>5. CASE ~stopped(r) /\ ~(r.mode.sync /\ timer \in {0, 1})
  BY <1>0, <1>1, <1>5, CountsOK, StandsOK DEF Elapsed
<1> QED BY <1>0, <1>2, <1>3, <1>4, <1>5

-----------------------------------------------------------------------------
LEMMA UnitsOK ==
  ASSUME Here, NEW r, NEW c, Sensible(c, r)
  PROVE  Units(c) \in Nat /\ Ticks(c) \in Nat /\ Units(c) % Num(c.r) \in 0 .. Num(c.r) - 1
<1>1. c.e \in Nat /\ c.r.residue \in Nat /\ Den \in Nat
  BY RegsOK, TimerConstants DEF Sensible, Keeps
<1>2. Units(c) \in Nat
  BY <1>1 DEF Units
<1>3. Num(c.r) \in Nat \ {0}
  BY ClockOK
<1> QED BY <1>2, <1>3, DivMod DEF Ticks

LEMMA UnitsOfOK ==
  ASSUME Here, NEW r \in TimerRegs
  PROVE  /\ UnitsOf(r) \in Nat
         /\ UnitsOf(r) = IF Dotclock(r) THEN r.el * Den + r.residue ELSE r.el
<1>1. r.el \in Nat /\ r.residue \in Nat /\ Den \in Nat
  BY RegsOK, TimerConstants
<1>2. UnitsOf(r) = IF Dotclock(r) THEN r.el * Den + r.residue ELSE r.el
  BY DEF UnitsOf, Units, Counts
<1>3. r.el * Den + r.residue \in Nat
  BY <1>1
<1> QED BY <1>1, <1>2, <1>3

LEMMA SmallerQuotient ==
  ASSUME NEW m \in Nat, NEW d \in Nat \ {0}, NEW k \in Nat, m < k * d
  PROVE  m \div d < k
<1> DEFINE q == m \div d
           x == m % d
<1>1. q \in Nat /\ x \in Nat /\ m = q * d + x
  BY DivMod
<1> HIDE DEF q, x
<1>2. SUFFICES ASSUME q >= k PROVE FALSE
  BY <1>1 DEF q
<1>3. PICK j \in Nat : q = k + j
  BY <1>1, <1>2
<1>4. q * d = k * d + j * d /\ j * d >= 0 /\ k * d \in Nat
  BY <1>3
<1> QED BY <1>1, <1>4

(* What is left of a tick stays in the registers.                          *)
LEMMA UntickedOK ==
  ASSUME Here, NEW r, NEW c, Sensible(c, r)
  PROVE  Keeps(Unticked(c), r) /\ Unticked(c).value = c.r.value
<1> DEFINE m == Units(c) % Num(c.r)
           q == Unticked(c)
<1>0. /\ c.r \in TimerRegs /\ c.r.mode = r.mode /\ c.r.target = r.target /\ c.r.fired = r.fired /\ c.r.el \in Int
      /\ c.r.value = r.value \/ c.r.value = 0
  BY RegsOK, TimerConstants DEF Sensible, Keeps
<1>1. m \in 0 .. Num(c.r) - 1 /\ Num(c.r) \in Nat \ {0} /\ Ticks(c) \in Nat
  BY UnitsOK, ClockOK
<1>2. W \in Nat \ {0} /\ Den \in Nat \ {0}
  BY TimerConstants
<1> HIDE DEF m
<1>3. CASE Dotclock(c.r)
  <2>0. m \in Nat /\ m < W
    BY <1>1, <1>2, <1>3, ClockOK
  <2>1. m < W * Den
    <3>1. PICK k \in Nat : Den = k + 1
      BY <1>2
    <3>2. W * Den = W * k + W /\ W * k \in Nat
      BY <1>2, <3>1
    <3> QED BY <1>2, <2>0, <3>2
  <2>2. m \div Den \in 0 .. W - 1 /\ m % Den \in 0 .. Den - 1
    <3>1. m \div Den < W
      BY <1>2, <2>0, <2>1, SmallerQuotient
    <3>2. m \div Den \in Nat /\ m % Den \in 0 .. Den - 1
      BY <1>2, <2>0, DivMod
    <3> QED BY <1>2, <3>1, <3>2
  <2>3. q = [c.r EXCEPT !.el = m \div Den, !.residue = m % Den]
    BY <1>3 DEF Unticked, m
  <2>4. /\ q \in TimerRegs /\ q.mode = c.r.mode /\ q.target = c.r.target /\ q.fired = c.r.fired
        /\ q.value = c.r.value
    BY <1>0, <2>2, <2>3 DEF TimerRegs
  <2> QED BY <1>0, <2>4 DEF Keeps
<1>4. CASE ~Dotclock(c.r)
  <2> DEFINE e == (c.r.el - Ticks(c) * divider(c.r)) % W
  <2>1. divider(c.r) \in Nat
    BY <1>1, <1>4, ClockOK
  <2>2. e \in 0 .. W - 1
    <3>1. c.r.el - Ticks(c) * divider(c.r) \in Int
      BY <1>0, <1>1, <2>1
    <3> QED BY <1>2, <3>1, ModRange
  <2>3. q = [c.r EXCEPT !.el = e]
    BY <1>4 DEF Unticked
  <2> HIDE DEF e
  <2>4. /\ q \in TimerRegs /\ q.mode = c.r.mode /\ q.target = c.r.target /\ q.fired = c.r.fired
        /\ q.value = c.r.value
    BY <1>0, <2>2, <2>3 DEF TimerRegs
  <2> QED BY <1>0, <2>4 DEF Keeps
<1> QED BY <1>3, <1>4

LEMMA PeriodOK ==
  ASSUME NEW r \in TimerRegs
  PROVE  Period(r) \in 2 .. Top + 1 /\ (r.target < Top - 1 => Period(r) <= Top)
<1>1. r.target \in 0 .. Top - 1 /\ Top \in Nat /\ Top > 1
  BY RegsOK, TimerConstants
<1> QED BY <1>1 DEF Period, ResetMode

(* The value after n ticks, in one form.                                   *)
LEMMA NewValueOK ==
  ASSUME NEW r \in TimerRegs, NEW n \in Nat
  PROVE  NewValue(r, n) = ((r.value % Top) + n) % Period(r) /\ NewValue(r, n) \in 0 .. Period(r) - 1
<1> DEFINE v == (r.value % Top) + n
<1>1. v \in Nat /\ Period(r) \in Nat \ {0}
  <2>1. r.value \in Nat /\ Top \in Nat \ {0}
    BY RegsOK, TimerConstants
  <2>2. r.value % Top \in Nat
    BY <2>1, ModRange
  <2>3. Period(r) \in 2 .. Top + 1
    BY PeriodOK
  <2> QED BY <2>1, <2>2, <2>3
<1>2. v < Period(r) => v % Period(r) = v
  BY <1>1, DivMod
<1>3. NewValue(r, n) = v % Period(r)
  BY <1>1, <1>2 DEF NewValue
<1> HIDE DEF v
<1>4. v % Period(r) \in 0 .. Period(r) - 1
  BY <1>1, ModRange
<1> QED BY <1>3, <1>4 DEF v

LEMMA AdvanceOK ==
  ASSUME NEW q \in TimerRegs, NEW n \in Nat
  PROVE  LET a == Advance(q, n)
         IN  /\ a \in TimerRegs /\ a.mode = q.mode /\ a.target = q.target /\ a.value = NewValue(q, n)
             /\ a.fired = (q.fired \/ Fires(q, n)) /\ a.el = q.el /\ a.residue = q.residue
<1>1. NewValue(q, n) \in 0 .. Top
  BY NewValueOK, PeriodOK, TimerConstants
<1>2. Fires(q, n) \in BOOLEAN
  BY DEF Fires
<1> QED BY <1>1, <1>2 DEF Advance, TimerRegs

-----------------------------------------------------------------------------
(* Bringing a counter up to date: its registers stay in range, and it      *)
(* signals at most what its mode lets it.                                  *)
LEMMA SyncOK ==
  ASSUME Here, NEW r \in TimerRegs
  PROVE  LET s == Timer_SyncValue(r)
         IN  /\ s.r \in TimerRegs /\ s.r.mode = r.mode /\ s.r.target = r.target
             /\ s.signal \in BOOLEAN /\ s.r.fired = (r.fired \/ s.signal) /\ (s.signal => can_fire(r))
             /\ stopped(r) => s.r.value = r.value /\ s.r.el = 0
             /\ s.r.value \in {0, r.value} \/ s.r.value < Period(r)
<1> DEFINE c == Elapsed(r)
           n == Ticks(c)
           q == Unticked(c)
           s == Timer_SyncValue(r)
<1>1. /\ Sensible(c, r) /\ n \in Nat /\ Keeps(q, r) /\ q.value = c.r.value
      /\ stopped(r) => c = StandsStill(r)
  BY ElapsedOK, UnitsOK, UntickedOK
<1>2. /\ c.r \in TimerRegs /\ c.r.mode = r.mode /\ c.r.target = r.target /\ c.r.fired = r.fired
      /\ c.stop \in BOOLEAN /\ q \in TimerRegs /\ q.mode = r.mode /\ q.target = r.target /\ q.fired = r.fired
      /\ r.fired \in BOOLEAN /\ c.r.value \in {0, r.value}
  BY <1>1, RegsOK DEF Sensible, Keeps
<1>3. stopped(r) => c.stop /\ c.r = r
  BY <1>1 DEF StandsStill
<1> HIDE DEF c
<1>4. CASE c.stop
  <2> DEFINE z == [c.r EXCEPT !.el = 0]
  <2>1. s.r = z /\ s.signal = FALSE
    BY <1>4 DEF Timer_SyncValue, c
  <2>2. z.value = c.r.value /\ z.el = 0
    BY <1>2 DEF TimerRegs
  <2>3. Keeps(z, c.r)
    BY <1>2, KeepsOK
  <2> HIDE DEF z, s
  <2>4. s.r \in TimerRegs /\ s.r.mode = r.mode /\ s.r.target = r.target /\ s.r.fired = r.fired
    BY <1>2, <2>1, <2>3 DEF Keeps
  <2>5. (stopped(r) => s.r.value = r.value /\ s.r.el = 0) /\ s.r.value \in {0, r.value}
    BY <1>2, <1>3, <2>1, <2>2
  <2> QED BY <1>2, <2>1, <2>4, <2>5 DEF s
<1>5. CASE ~c.stop /\ n = 0
  <2>1. s.r = q /\ s.signal = FALSE
    BY <1>5 DEF Timer_SyncValue, c
  <2> HIDE DEF s, q
  <2>2. s.r.value \in {0, r.value} /\ ~stopped(r)
    BY <1>1, <1>2, <1>3, <1>5, <2>1 DEF q
  <2> QED BY <1>2, <2>1, <2>2 DEF s
<1>6. CASE ~c.stop /\ n # 0
  <2>1. s.r = Advance(q, n) /\ s.signal = Fires(c.r, n)
    BY <1>6 DEF Timer_SyncValue, c
  <2> HIDE DEF n, q
  <2>2. Fires(q, n) = Fires(c.r, n) /\ (Fires(c.r, n) => can_fire(r)) /\ Fires(c.r, n) \in BOOLEAN
    BY <1>1, <1>2 DEF Fires, can_fire, wrapped_target, wrapped_overflow, ResetMode
  <2>3. /\ Advance(q, n) \in TimerRegs /\ Advance(q, n).mode = q.mode /\ Advance(q, n).target = q.target
        /\ Advance(q, n).fired = (q.fired \/ Fires(q, n)) /\ Advance(q, n).value = NewValue(q, n)
    BY <1>1, <1>2, AdvanceOK
  <2>4. NewValue(q, n) < Period(r)
    <3>1. Period(q) = Period(r)
      BY <1>2 DEF Period, ResetMode
    <3> QED BY <1>1, <1>2, <3>1, NewValueOK, PeriodOK
  <2> HIDE DEF s
  <2>5. s.r.value < Period(r) /\ ~stopped(r)
    BY <1>3, <1>6, <2>1, <2>3, <2>4
  <2> QED BY <1>2, <2>1, <2>2, <2>3, <2>5 DEF s
<1> QED BY <1>2, <1>4, <1>5, <1>6

(* A free-running counter: whole ticks go to the value, the rest is kept.  *)
LEMMA FreeSyncOK ==
  ASSUME Here, NEW r \in TimerRegs, FreeRun(r)
  PROVE  LET s == Timer_SyncValue(r)
             u == UnitsOf(r)
             k == u \div Num(r)
         IN  /\ u \in Nat /\ UnitsOf(s.r) = u % Num(r) /\ s.r.el <= r.el
             /\ s.r.value = IF k = 0 THEN r.value ELSE NewValue(r, k)
             /\ s.signal = (k # 0 /\ Fires(r, k))
<1> DEFINE c == Counts(r, r.el)
           u == UnitsOf(r)
           n == Ticks(c)
           m == u % Num(r)
           q == Unticked(c)
           s == Timer_SyncValue(r)
<1>0. Elapsed(r) = c /\ Units(c) = u /\ c.r = r /\ c.e = r.el /\ ~c.stop
  BY ElapsedOK DEF Counts, UnitsOf
<1>1. /\ Sensible(c, r) /\ n \in Nat /\ Keeps(q, r) /\ q.value = r.value /\ u \in Nat /\ n = u \div Num(r)
      /\ m \in 0 .. Num(r) - 1 /\ Num(r) \in Nat \ {0}
  BY <1>0, ElapsedOK, UnitsOK, UntickedOK, ClockOK DEF Ticks
<1>2. u = n * Num(r) + m /\ m <= u
  BY <1>1, DivMod
<1>3. /\ r.el \in 0 .. W - 1 /\ r.residue \in 0 .. Den - 1 /\ W \in Nat \ {0} /\ Den \in Nat \ {0}
  BY RegsOK, TimerConstants
<1>4. u = IF Dotclock(r) THEN r.el * Den + r.residue ELSE r.el
  BY UnitsOfOK
<1>5. Dotclock(q) = Dotclock(r)
  BY <1>1 DEF Dotclock, Keeps
<1>6. UnitsOf(q) = IF Dotclock(r) THEN q.el * Den + q.residue ELSE q.el
  BY <1>5 DEF UnitsOf, Units, Counts
<1>7. q = IF Dotclock(r) THEN [r EXCEPT !.el = m \div Den, !.residue = m % Den]
                         ELSE [r EXCEPT !.el = (r.el - n * divider(r)) % W]
  BY <1>0 DEF Unticked
<1> HIDE DEF u, m, n
<1>8. UnitsOf(q) = m /\ q.el <= r.el
  <2>1. CASE Dotclock(r)
    <3>1. q.el = m \div Den /\ q.residue = m % Den
      BY <1>7, <2>1 DEF TimerRegs
    <3> HIDE DEF q
    <3>2. m \in Nat /\ r.el \in Nat /\ r.el + 1 \in Nat /\ Den \in Nat \ {0}
      BY <1>1, <1>3
    <3>3. m = (m \div Den) * Den + (m % Den) /\ m \div Den \in Nat
      BY <3>2, DivMod
    <3>4. UnitsOf(q) = m
      BY <1>6, <2>1, <3>1, <3>3
    <3>5. m < (r.el + 1) * Den
      <4>1. (r.el + 1) * Den = r.el * Den + Den
        BY <3>2
      <4>2. u = r.el * Den + r.residue /\ r.residue < Den /\ r.residue \in Nat /\ r.el * Den \in Nat
        BY <1>3, <1>4, <2>1, <3>2
      <4> QED BY <1>2, <3>2, <4>1, <4>2
    <3>6. m \div Den < r.el + 1
      BY <3>2, <3>5, SmallerQuotient
    <3> QED BY <3>1, <3>2, <3>3, <3>4, <3>6
  <2>2. CASE ~Dotclock(r)
    <3>1. Num(r) = divider(r)
      BY <2>2, ClockOK
    <3>2. q.el = (r.el - n * divider(r)) % W
      BY <1>7, <2>2 DEF TimerRegs
    <3> HIDE DEF q
    <3>3. r.el = n * divider(r) + m /\ n * divider(r) \in Nat /\ m \in Nat /\ m <= r.el /\ r.el \in Nat
      <4>1. u = r.el /\ divider(r) \in Nat
        BY <1>1, <1>4, <2>2, <3>1
      <4>2. n * divider(r) \in Nat
        BY <1>1, <4>1
      <4>3. u = n * divider(r) + m /\ m <= u
        BY <1>2, <3>1
      <4>4. m \in Nat /\ u \in Nat
        BY <1>1
      <4> QED BY <4>1, <4>2, <4>3, <4>4
    <3>4. r.el - n * divider(r) = m /\ m < W
      BY <1>3, <3>3
    <3>5. m % W = m
      BY <1>3, <3>3, <3>4, DivMod
    <3>6. q.el = m
      BY <3>2, <3>4, <3>5
    <3> QED BY <1>6, <2>2, <3>3, <3>6
  <2> QED BY <2>1, <2>2
<1>9. CASE n = 0
  <2>1. s.r = q /\ s.signal = FALSE
    BY <1>0, <1>9 DEF Timer_SyncValue, n
  <2> HIDE DEF q, s
  <2>2. /\ UnitsOf(s.r) = m /\ s.r.el <= r.el /\ s.r.value = IF n = 0 THEN r.value ELSE NewValue(r, n)
        /\ s.signal = (n # 0 /\ Fires(r, n))
    BY <1>1, <1>8, <1>9, <2>1
  <2> QED BY <1>1, <2>2 DEF u, m, s
<1>10. CASE n # 0
  <2> DEFINE a == Advance(q, n)
  <2>1. s.r = a /\ s.signal = Fires(r, n)
    BY <1>0, <1>10 DEF Timer_SyncValue, n
  <2>2. q \in TimerRegs /\ q.mode = r.mode /\ q.target = r.target
    BY <1>1 DEF Keeps
  <2> HIDE DEF q
  <2>3. a.value = NewValue(q, n) /\ a.el = q.el /\ a.residue = q.residue /\ a.mode = q.mode
    BY <1>1, <2>2, AdvanceOK
  <2>4. NewValue(q, n) = NewValue(r, n)
    BY <1>1, <2>2 DEF NewValue, Period, ResetMode
  <2> HIDE DEF a
  <2>5. UnitsOf(a) = UnitsOf(q)
    BY <2>3 DEF UnitsOf, Units, Dotclock, Counts
  <2> HIDE DEF s
  <2>6. /\ UnitsOf(s.r) = m /\ s.r.el <= r.el /\ s.r.value = IF n = 0 THEN r.value ELSE NewValue(r, n)
        /\ s.signal = (n # 0 /\ Fires(r, n))
    <3>1. Fires(r, n) \in BOOLEAN
      BY DEF Fires
    <3> QED BY <1>8, <1>10, <2>1, <2>3, <2>4, <2>5, <3>1
  <2> QED BY <1>1, <2>6 DEF u, m, s
<1> QED BY <1>9, <1>10

-----------------------------------------------------------------------------
(* The value the code works with, and the ticks to the event.              *)
Val(r) == r.value % Top

LEMMA ValOK == ASSUME NEW r \in TimerRegs PROVE Val(r) \in 0 .. Top - 1 /\ (r.value < Top => Val(r) = r.value)
<1>1. r.value \in Nat /\ Top \in Nat \ {0}
  BY RegsOK, TimerConstants
<1>2. r.value % Top \in 0 .. Top - 1
  <2>1. r.value \in Int
    BY <1>1
  <2> QED BY <1>1, <2>1, ModRange
<1>3. r.value < Top => r.value % Top = r.value
  BY <1>1, SmallMod
<1> QED BY <1>2, <1>3 DEF Val

LEMMA EventTicks ==
  ASSUME NEW r \in TimerRegs
  PROVE  /\ ResetMode(r) /\ Val(r) <= r.target => TicksToEvent(r) = r.target + 1 - Val(r)
         /\ ResetMode(r) /\ Val(r) > r.target => TicksToEvent(r) = r.target + 2
         /\ ~ResetMode(r) => TicksToEvent(r) = IF r.mode.irqT /\ r.target > 0 /\ Val(r) <= r.target
                                                THEN r.target + 1 - Val(r) ELSE Top - Val(r)
         /\ TicksToEvent(r) \in Nat \ {0}
<1>1. Val(r) \in 0 .. Top - 1 /\ Top \in Nat /\ r.target \in 0 .. Top - 1 /\ r.mode.irqT \in BOOLEAN
  BY ValOK, RegsOK, TimerConstants
<1>2. ResetMode(r) \in BOOLEAN
  BY RegsOK DEF ResetMode
<1> QED BY <1>1, <1>2 DEF TicksToEvent, Val

(* No tick that fires comes sooner than the tick before the event.         *)
LEMMA EventCoversTick ==
  ASSUME NEW r \in TimerRegs, NEW n \in Nat \ {0}, Fires(r, n)
  PROVE  TicksToEvent(r) <= n + 1
<1>1. Val(r) \in 0 .. Top - 1 /\ Top \in Nat /\ r.target \in 0 .. Top - 1 /\ r.mode.irqT \in BOOLEAN
  BY ValOK, RegsOK, TimerConstants
<1>2. CASE r.mode.irqT /\ wrapped_target(r, n)
  BY <1>1, <1>2, EventTicks DEF wrapped_target, Val, ResetMode
<1>3. CASE r.mode.irqO /\ wrapped_overflow(r, n)
  BY <1>1, <1>3, EventTicks DEF wrapped_overflow, Val
<1> QED BY <1>2, <1>3 DEF Fires

(* Ticks before the event bring it nearer by as many.                      *)
LEMMA EventNears ==
  ASSUME NEW r \in TimerRegs, NEW q \in TimerRegs, NEW n \in Nat \ {0}, ~PastPeriod(r),
         q.value = NewValue(r, n), q.mode = r.mode, q.target = r.target
  PROVE  TicksToEvent(q) >= TicksToEvent(r) - n /\ ~PastPeriod(q)
<1> DEFINE v == Val(r)
           w == Val(q)
           p == Period(r)
<1>1. /\ v \in 0 .. Top - 1 /\ w \in 0 .. Top - 1 /\ Top \in Nat /\ Top > 1 /\ r.target \in 0 .. Top - 1
      /\ p \in 2 .. Top + 1
  BY ValOK, RegsOK, TimerConstants, PeriodOK
<1>2. ResetMode(q) = ResetMode(r) /\ Period(q) = p
  BY DEF ResetMode, Period
<1>3. q.value = (v + n) % p /\ q.value \in 0 .. p - 1
  BY NewValueOK DEF Val
<1>4. v < p
  <2>1. r.value \in Nat /\ r.value < p
    BY <1>1, RegsOK DEF PastPeriod
  <2>2. r.value % Top <= r.value
    BY <1>1, <2>1, SmallMod
  <2>3. r.value % Top \in Nat
    BY <1>1 DEF Val
  <2> QED BY <1>1, <2>1, <2>2, <2>3 DEF Val
<1>5. ~PastPeriod(q)
  BY <1>1, <1>2, <1>3 DEF PastPeriod
<1> HIDE DEF v, w, p
<1>6. TicksToEvent(r) \in Nat \ {0} /\ TicksToEvent(q) \in Nat \ {0}
  BY EventTicks
<1>7. CASE n >= TicksToEvent(r)
  BY <1>5, <1>6, <1>7
<1>8. CASE n < TicksToEvent(r)
  <2>1. CASE ResetMode(r)
    <3>1. p = r.target + 2
      BY <2>1 DEF Period, p
    <3>2. CASE v <= r.target
      <4>1. TicksToEvent(r) = r.target + 1 - v
        BY <2>1, <3>2, EventTicks DEF v, w
      <4>2. v + n < p /\ v + n \in Nat /\ v + n <= r.target
        BY <1>1, <1>8, <3>1, <4>1
      <4>3. q.value = v + n
        <5>1. (v + n) % p = v + n
          BY <1>1, <4>2, SmallMod
        <5> QED BY <1>3, <5>1
      <4>4. w = v + n
        BY <1>1, <4>2, <4>3, ValOK DEF w
      <4>5. TicksToEvent(q) = r.target + 1 - w
        BY <1>2, <2>1, <4>2, <4>4, EventTicks DEF v, w
      <4> QED BY <1>1, <1>5, <4>1, <4>4, <4>5
    <3>3. CASE v > r.target
      <4>1. TicksToEvent(r) = r.target + 2 /\ v = r.target + 1
        BY <1>1, <1>4, <2>1, <3>1, <3>3, EventTicks DEF v, w
      <4>2. v + n = p + (n - 1) /\ n - 1 \in 0 .. p - 1 /\ n - 1 <= r.target
        BY <1>1, <1>8, <3>1, <4>1
      <4>3. q.value = n - 1
        <5>1. (p + (n - 1)) % p = n - 1
          BY <1>1, <4>2, OneOver
        <5> QED BY <1>3, <4>2, <5>1
      <4>4. w = n - 1
        BY <1>1, <4>2, <4>3, ValOK DEF w
      <4>5. TicksToEvent(q) = r.target + 1 - w
        BY <1>2, <2>1, <4>2, <4>4, EventTicks DEF v, w
      <4> QED BY <1>1, <1>5, <4>1, <4>4, <4>5
    <3> QED BY <1>1, <3>2, <3>3
  <2>2. CASE ~ResetMode(r)
    <3>1. p = Top
      BY <2>2 DEF Period, p
    <3>2. v + n < Top /\ v + n \in Nat
      BY <1>1, <1>8, <2>2, EventTicks DEF v, w
    <3>3. q.value = v + n
      BY <1>1, <1>3, <3>1, <3>2, SmallMod
    <3>4. w = v + n
      BY <1>1, <3>2, <3>3, ValOK DEF w
    <3>5. CASE r.mode.irqT /\ r.target > 0 /\ v <= r.target
      BY <1>1, <1>2, <1>5, <1>8, <2>2, <3>4, <3>5, EventTicks DEF v, w
    <3>6. CASE ~(r.mode.irqT /\ r.target > 0 /\ v <= r.target)
      BY <1>1, <1>2, <1>5, <1>8, <2>2, <3>4, <3>6, EventTicks DEF v, w
    <3> QED BY <3>5, <3>6
  <2> QED BY <2>1, <2>2
<1> QED BY <1>6, <1>7, <1>8

-----------------------------------------------------------------------------
(* The event of a counter r comes within a tick of TicksToEvent, and r is  *)
(* not past its period.                                                    *)
EventSoon(r, left, bad) ==
  FreeRun(r) /\ ~bad /\ irq_can_fire(r) =>
    /\ left # NoEvent /\ ~PastPeriod(r)
    /\ left * Denom(r) < (TicksToEvent(r) + 1) * Num(r) - UnitsOf(r) + Denom(r)

(* What is looked at now and then has not been left alone for too long,    *)
(* and one interrupt leaves its mark.                                      *)
Watched(r) == ~Follows(r.mode) => r.el <= MaxElapsed
Counted(r, k) == ~r.mode.repeat => k <= 1 /\ (k = 1 => r.fired)

TimerIInv ==
  /\ TimerTypeOK /\ Watched(tm)
  /\ EventSoon(tm, event_left, misset)
  /\ Counted(tm, shots)

LEMMA TimerInitOK == TimerInit => TimerIInv
<1> SUFFICES ASSUME TimerInit PROVE TimerIInv
  OBVIOUS
<1>1. tm \in TimerRegs
  BY TimerConstants, FrameOK DEF TimerInit, TimerRegs, ModeRegs
<1>2. TimerTypeOK
  <2>1. event_left \in Int /\ event_left = NoEvent /\ shots \in 0 .. 2
    BY DEF TimerInit, NoEvent
  <2>2. {epoch, misset} \subseteq BOOLEAN /\ timer \in Counters /\ dot \in Dotclocks
    BY DEF TimerInit
  <2> QED BY <1>1, <2>1, <2>2 DEF TimerTypeOK
<1>3. Watched(tm) /\ Counted(tm, shots)
  BY TimerConstants DEF TimerInit, Watched, Counted
<1>4. ~irq_can_fire(tm)
  BY DEF TimerInit, irq_can_fire
<1> QED BY <1>2, <1>3, <1>4 DEF TimerIInv, EventSoon

(* The invariant gives the properties of the event and of the one shot.    *)
LEMMA SoonIsNotLate == TimerIInv => IrqIsServed
<1> SUFFICES ASSUME TimerIInv PROVE IrqIsServed
  OBVIOUS
<1>0. Here /\ tm \in TimerRegs /\ event_left \in Int /\ shots \in 0 .. 2
  BY DEF TimerIInv, TimerTypeOK, Here
<1>1. OneShot
  BY <1>0, RegsOK DEF TimerIInv, Counted, OneShot
<1>2. EventNotLate
  <2>1. SUFFICES ASSUME FreeRun(tm), ~misset, irq_can_fire(tm)
                 PROVE  /\ event_left # NoEvent
                        /\ \A n \in Crossings :
                             event_left * Denom(tm) < (n + 2) * Num(tm) - UnitsOf(tm) + Denom(tm)
    BY DEF EventNotLate
  <2>2. /\ event_left # NoEvent
        /\ event_left * Denom(tm) < (TicksToEvent(tm) + 1) * Num(tm) - UnitsOf(tm) + Denom(tm)
    BY <2>1 DEF TimerIInv, EventSoon
  <2>3. SUFFICES ASSUME NEW n \in Crossings
                 PROVE  event_left * Denom(tm) < (n + 2) * Num(tm) - UnitsOf(tm) + Denom(tm)
    BY <2>2
  <2>4. n \in Nat \ {0} /\ Fires(tm, n)
    BY TimerConstants DEF Crossings
  <2>5. TicksToEvent(tm) <= n + 1 /\ TicksToEvent(tm) \in Nat
    BY <1>0, <2>4, EventCoversTick, EventTicks
  <2>6. Num(tm) \in Nat /\ Denom(tm) \in Nat /\ UnitsOf(tm) \in Nat
    BY <1>0, ClockOK, UnitsOfOK
  <2> DEFINE j == n + 1 - TicksToEvent(tm)
  <2>7. j \in Nat /\ n + 2 = TicksToEvent(tm) + 1 + j
    BY <2>4, <2>5
  <2> HIDE DEF j
  <2>8. (n + 2) * Num(tm) = (TicksToEvent(tm) + 1) * Num(tm) + j * Num(tm) /\ j * Num(tm) \in Nat
    BY <2>5, <2>6, <2>7
  <2>9. (TicksToEvent(tm) + 1) * Num(tm) \in Nat /\ event_left * Denom(tm) \in Int
    BY <1>0, <2>5, <2>6
  <2> QED BY <2>2, <2>6, <2>8, <2>9
<1> QED BY <1>1, <1>2 DEF IrqIsServed, TimerIInv

-----------------------------------------------------------------------------
LEMMA SyncWatched ==
  ASSUME Here, NEW r \in TimerRegs, Watched(r)
  PROVE  LET q == Timer_SyncValue(r).r
         IN  Watched(q) /\ (FreeRun(q) => UnitsOf(q) < Num(q)) /\ (FreeRun(q) <=> FreeRun(r))
<1> DEFINE q == Timer_SyncValue(r).r
<1>1. q \in TimerRegs /\ q.mode = r.mode /\ (stopped(r) => q.el = 0)
  BY SyncOK
<1>2. MaxElapsed \in Nat /\ q.el \in Nat /\ r.el \in Nat
  BY <1>1, RegsOK, TimerConstants
<1> HIDE DEF q
<1>3. (FreeRun(q) <=> FreeRun(r)) /\ Num(q) = Num(r) /\ Follows(q.mode) = Follows(r.mode)
  BY <1>1 DEF FreeRun, stopped, Follows, Num, Dotclock, divider
<1>4. CASE FreeRun(r)
  <2>1. UnitsOf(q) = UnitsOf(r) % Num(r) /\ q.el <= r.el /\ UnitsOf(r) \in Nat
    BY <1>4, FreeSyncOK DEF q
  <2>2. Num(r) \in Nat \ {0}
    BY ClockOK
  <2>3. UnitsOf(r) % Num(r) \in 0 .. Num(r) - 1
    BY <2>1, <2>2, DivMod
  <2>4. UnitsOf(q) < Num(q)
    BY <1>3, <2>1, <2>2, <2>3
  <2>5. Watched(q)
    BY <1>2, <1>3, <2>1 DEF Watched
  <2> QED BY <1>3, <2>4, <2>5 DEF q
<1>5. CASE ~FreeRun(r)
  <2>1. Watched(q)
    BY <1>1, <1>2, <1>3, <1>5 DEF Watched, FreeRun
  <2> QED BY <1>3, <1>5, <2>1 DEF q
<1> QED BY <1>4, <1>5

LEMMA SyncCounted ==
  ASSUME Here, NEW r \in TimerRegs, shots \in 0 .. 2, Counted(r, shots)
  PROVE  LET s == Timer_SyncValue(r)
         IN  CountShot(s.signal) \in 0 .. 2 /\ Counted(s.r, CountShot(s.signal))
<1> DEFINE s == Timer_SyncValue(r)
<1>1. /\ s.r.mode = r.mode /\ s.signal \in BOOLEAN /\ s.r.fired = (r.fired \/ s.signal)
      /\ (s.signal => can_fire(r)) /\ r.fired \in BOOLEAN /\ r.mode.repeat \in BOOLEAN
  BY SyncOK, RegsOK
<1> HIDE DEF s
<1>2. CountShot(s.signal) \in 0 .. 2
  BY <1>1 DEF CountShot
<1>3. ASSUME s.signal PROVE Counted(s.r, CountShot(s.signal))
  <2>1. CASE r.mode.repeat
    BY <1>1, <2>1 DEF Counted
  <2>2. CASE ~r.mode.repeat
    <3>1. ~r.fired
      BY <1>1, <1>3, <2>2 DEF can_fire
    <3>2. shots = 0
      BY <2>2, <3>1 DEF Counted
    <3>3. CountShot(s.signal) = shots + 1
      BY <1>3, <3>2 DEF CountShot
    <3>4. s.r.fired
      BY <1>1, <1>3
    <3> QED BY <3>2, <3>3, <3>4 DEF Counted
  <2> QED BY <2>1, <2>2
<1>4. ASSUME ~s.signal PROVE Counted(s.r, CountShot(s.signal))
  <2>1. CountShot(s.signal) = shots /\ (r.fired => s.r.fired)
    BY <1>1, <1>4 DEF CountShot
  <2> QED BY <1>1, <2>1 DEF Counted
<1>5. Counted(s.r, CountShot(s.signal))
  BY <1>1, <1>3, <1>4
<1> QED BY <1>2, <1>5 DEF s

(* An event just set is in time.                                           *)
LEMMA EventSet ==
  ASSUME TimerTypeOK, NEW q \in TimerRegs, FreeRun(q) => UnitsOf(q) < Num(q)
  PROVE  /\ EventSoon(q, EventAfter(q), PastPeriod(q))
         /\ EventAfter(q) \in Int /\ (EventAfter(q) = NoEvent \/ EventAfter(q) >= -MaxLate)
<1>0. Here /\ event_left \in Int /\ (event_left = NoEvent \/ event_left >= -MaxLate) /\ MaxLate \in 0 .. 999
  BY TimerConstants DEF TimerTypeOK, Here
<1>1. CASE stopped(q)
  BY <1>0, <1>1 DEF EventSoon, EventAfter, FreeRun
<1>2. CASE ~stopped(q) /\ ~irq_can_fire(q)
  BY <1>0, <1>2 DEF EventSoon, EventAfter, NoEvent
<1>3. CASE ~stopped(q) /\ irq_can_fire(q)
  <2> DEFINE d == Denom(q)
             n == Num(q)
             t == TicksToEvent(q)
             u == t * n + d - 1
             l == u \div d
  <2>1. d \in Nat \ {0} /\ n \in Nat \ {0} /\ t \in Nat \ {0} /\ UnitsOf(q) \in Nat
    BY <1>0, ClockOK, EventTicks, UnitsOfOK
  <2>2. EventAfter(q) = l
    BY <1>3 DEF EventAfter
  <2> HIDE DEF d, n, t
  <2>3. t * n \in Nat /\ (t + 1) * n = t * n + n
    BY <2>1
  <2>4. u \in Nat
    BY <2>1, <2>3
  <2> HIDE DEF u
  <2>5. l \in Nat /\ u = l * d + (u % d) /\ u % d \in Nat
    <3>1. l \in Nat /\ u % d \in 0 .. d - 1
      BY <2>1, <2>4, DivMod
    <3>2. u = l * d + (u % d)
      BY <2>1, <2>4, DivMod
    <3> QED BY <2>1, <3>1, <3>2
  <2> HIDE DEF l
  <2>6. l * d \in Nat /\ l * d <= t * n + d - 1
    BY <2>1, <2>4, <2>5 DEF u
  <2>7. l # NoEvent /\ l \in Int /\ l >= -MaxLate
    BY <1>0, <2>5 DEF NoEvent
  <2>8. FreeRun(q) => l * d < (t + 1) * n - UnitsOf(q) + d
    BY <2>1, <2>3, <2>6 DEF n
  <2> QED BY <2>2, <2>7, <2>8 DEF EventSoon, t, n, d
<1> QED BY <1>1, <1>2, <1>3

(* The invariant of the next state, in terms of the clocks of this one.    *)
LEMMA NextOf ==
  ASSUME TimerTypeOK, timer' = timer, dot' = dot, tm' \in TimerRegs, Watched(tm'), Counted(tm', shots'),
         EventSoon(tm', event_left', misset'), event_left' \in Int,
         event_left' = NoEvent \/ event_left' >= -MaxLate,
         shots' \in 0 .. 2, epoch' \in BOOLEAN, misset' \in BOOLEAN
  PROVE  TimerIInv'
<1>1. TimerTypeOK'
  BY DEF TimerTypeOK, TimerRegs, ModeRegs, Cpf, NoEvent
<1>2. Watched(tm)' /\ Counted(tm, shots)'
  BY DEF Watched, Counted, Follows
<1>3. FreeRun(tm)' = FreeRun(tm') /\ irq_can_fire(tm)' = irq_can_fire(tm') /\ PastPeriod(tm)' = PastPeriod(tm')
  BY DEF FreeRun, Follows, stopped, irq_can_fire, can_fire, PastPeriod, Period, ResetMode
<1>4. Denom(tm)' = Denom(tm') /\ Num(tm)' = Num(tm') /\ UnitsOf(tm)' = UnitsOf(tm')
  BY DEF Denom, Num, UnitsOf, Units, Dotclock, divider
<1>5. TicksToEvent(tm)' = TicksToEvent(tm')
  BY DEF TicksToEvent, ResetMode
<1>6. EventSoon(tm, event_left, misset)'
  BY <1>3, <1>4, <1>5 DEF EventSoon, NoEvent
<1> QED BY <1>1, <1>2, <1>6 DEF TimerIInv

-----------------------------------------------------------------------------
(* A look at the counter does not put its event out of date.               *)
LEMMA LookKeepsEvent ==
  ASSUME Here, NEW r \in TimerRegs, NEW left \in Int, NEW bad, EventSoon(r, left, bad)
  PROVE  EventSoon(Timer_SyncValue(r).r, left, bad)
<1> DEFINE s == Timer_SyncValue(r)
           q == s.r
           n == Num(r)
           u == UnitsOf(r)
           k == u \div n
<1>1. /\ q \in TimerRegs /\ q.mode = r.mode /\ q.target = r.target /\ s.signal \in BOOLEAN
      /\ q.fired = (r.fired \/ s.signal) /\ r.fired \in BOOLEAN
  BY SyncOK, RegsOK
<1>2. FreeRun(r) => /\ u \in Nat /\ UnitsOf(q) = u % n
                    /\ q.value = IF k = 0 THEN r.value ELSE NewValue(r, k)
  BY FreeSyncOK
<1> HIDE DEF q, s
<1>3. /\ FreeRun(q) = FreeRun(r) /\ Num(q) = n /\ Denom(q) = Denom(r)
      /\ irq_can_fire(q) => irq_can_fire(r)
  <2>1. FreeRun(q) = FreeRun(r)
    BY <1>1 DEF FreeRun, stopped, Follows
  <2>2. Num(q) = n /\ Denom(q) = Denom(r)
    BY <1>1 DEF Num, Denom, Dotclock, divider
  <2>3. irq_can_fire(q) => irq_can_fire(r)
    BY <1>1 DEF irq_can_fire, can_fire
  <2> QED BY <2>1, <2>2, <2>3
<1>4. SUFFICES ASSUME FreeRun(r), ~bad, irq_can_fire(r)
               PROVE  /\ left # NoEvent /\ ~PastPeriod(q)
                      /\ left * Denom(r) < (TicksToEvent(q) + 1) * n - (u % n) + Denom(r)
  BY <1>2, <1>3 DEF EventSoon, q, s
<1>5. left # NoEvent /\ ~PastPeriod(r) /\ left * Denom(r) < (TicksToEvent(r) + 1) * n - u + Denom(r)
  BY <1>4 DEF EventSoon
<1>6. n \in Nat \ {0} /\ Denom(r) \in Nat \ {0} /\ u \in Nat
  BY <1>2, <1>4, ClockOK
<1> HIDE DEF u, n
<1>7. k \in Nat /\ u = k * n + (u % n) /\ u % n \in Nat
  <2>1. k \in Nat /\ u % n \in 0 .. n - 1
    BY <1>6, DivMod
  <2>2. u = k * n + (u % n)
    BY <1>6, DivMod
  <2> QED BY <1>6, <2>1, <2>2
<1> HIDE DEF k
<1>8. TicksToEvent(q) >= TicksToEvent(r) - k /\ ~PastPeriod(q)
  <2>1. CASE k = 0
    <3>1. q.value = r.value
      BY <1>2, <1>4, <2>1
    <3>2. TicksToEvent(q) = TicksToEvent(r) /\ PastPeriod(q) = PastPeriod(r)
      BY <1>1, <3>1 DEF TicksToEvent, ResetMode, PastPeriod, Period
    <3>3. TicksToEvent(r) \in Nat
      BY EventTicks
    <3> QED BY <1>5, <2>1, <3>2, <3>3
  <2>2. CASE k # 0
    <3>1. q.value = NewValue(r, k) /\ k \in Nat \ {0}
      BY <1>2, <1>4, <1>7, <2>2
    <3> QED BY <1>1, <1>5, <3>1, EventNears
  <2> QED BY <2>1, <2>2
<1>9. TicksToEvent(q) \in Nat /\ TicksToEvent(r) \in Nat
  BY <1>1, EventTicks
<1> DEFINE j == TicksToEvent(q) - TicksToEvent(r) + k
<1>10. j \in Nat /\ TicksToEvent(q) + 1 + k = TicksToEvent(r) + 1 + j
  BY <1>7, <1>8, <1>9
<1> HIDE DEF j
<1>11. (TicksToEvent(q) + 1) * n + k * n = (TicksToEvent(r) + 1) * n + j * n
  <2>1. (TicksToEvent(q) + 1 + k) * n = (TicksToEvent(r) + 1 + j) * n
    BY <1>10
  <2>2. /\ (TicksToEvent(q) + 1 + k) * n = (TicksToEvent(q) + 1) * n + k * n
        /\ (TicksToEvent(r) + 1 + j) * n = (TicksToEvent(r) + 1) * n + j * n
    BY <1>6, <1>7, <1>9, <1>10
  <2> QED BY <2>1, <2>2
<1>12. /\ j * n \in Nat /\ k * n \in Nat /\ (TicksToEvent(q) + 1) * n \in Nat
       /\ (TicksToEvent(r) + 1) * n \in Nat /\ left * Denom(r) \in Int
  BY <1>6, <1>7, <1>9, <1>10
<1>13. left * Denom(r) < (TicksToEvent(q) + 1) * n - (u % n) + Denom(r)
  BY <1>5, <1>6, <1>7, <1>11, <1>12
<1> QED BY <1>5, <1>8, <1>13

(* Rescheduling re-establishes the invariant.                              *)
LEMMA Rescheduled ==
  ASSUME TimerIInv, NEW r \in TimerRegs, Watched(r), Counted(r, shots), epoch' \in BOOLEAN,
         SyncStep(Timer_SyncValue(r)), UNCHANGED <<timer, dot>>, misset' = PastPeriod(tm'),
         \/ event_left' = EventAfter(tm')
         \/ stopped(tm') /\ event_left' = NoEvent
  PROVE  TimerIInv'
<1>0. TimerTypeOK /\ Here /\ shots \in 0 .. 2
  BY DEF TimerIInv, TimerTypeOK, Here
<1> DEFINE q == Timer_SyncValue(r).r
<1>1. tm' = q /\ shots' = CountShot(Timer_SyncValue(r).signal)
  BY DEF SyncStep
<1>2. q \in TimerRegs /\ Watched(q) /\ (FreeRun(q) => UnitsOf(q) < Num(q))
  BY <1>0, SyncOK, SyncWatched
<1>3. shots' \in 0 .. 2 /\ Counted(q, shots')
  BY <1>0, <1>1, SyncCounted
<1> HIDE DEF q
<1>4. /\ EventSoon(q, EventAfter(q), PastPeriod(q))
      /\ EventAfter(q) \in Int /\ (EventAfter(q) = NoEvent \/ EventAfter(q) >= -MaxLate)
  BY <1>0, <1>2, EventSet
<1>5. stopped(q) => EventSoon(q, NoEvent, PastPeriod(q))
  BY DEF EventSoon, FreeRun
<1>6. PastPeriod(q) \in BOOLEAN /\ NoEvent \in Int
  BY DEF PastPeriod, NoEvent
<1>7. /\ EventSoon(tm', event_left', misset') /\ event_left' \in Int /\ misset' \in BOOLEAN
      /\ event_left' = NoEvent \/ event_left' >= -MaxLate
  BY <1>1, <1>4, <1>5, <1>6
<1> QED BY <1>0, <1>1, <1>2, <1>3, <1>7, NextOf

(* A cycle adds its units to those of a counter that runs freely.          *)
LEMMA FreeCycle ==
  ASSUME Here, NEW r \in TimerRegs, NEW q \in TimerRegs, q.el = r.el + 1, q.residue = r.residue, q.mode = r.mode
  PROVE  UnitsOf(q) = UnitsOf(r) + Denom(r)
<1>1. /\ UnitsOf(r) = IF Dotclock(r) THEN r.el * Den + r.residue ELSE r.el
      /\ UnitsOf(q) = IF Dotclock(r) THEN (r.el + 1) * Den + r.residue ELSE r.el + 1
  BY UnitsOfOK DEF Dotclock
<1>2. r.el \in Nat /\ r.residue \in Nat /\ Den \in Nat
  BY RegsOK, TimerConstants
<1>3. (r.el + 1) * Den = r.el * Den + Den /\ r.el * Den \in Nat
  BY <1>2
<1> QED BY <1>1, <1>2, <1>3 DEF Denom

LEMMA CycleKeeps == ASSUME TimerIInv, TimerCycle PROVE TimerIInv'
<1>0. /\ TimerTypeOK /\ Here /\ tm \in TimerRegs /\ event_left \in Int /\ shots \in 0 .. 2
      /\ epoch \in BOOLEAN /\ misset \in BOOLEAN
  BY DEF TimerIInv, TimerTypeOK, Here
<1>1. /\ W \in Nat \ {0} /\ MaxElapsed \in Nat /\ MaxElapsed <= W \div 2 /\ MaxElapsed < W - 1
      /\ MaxLate \in 0 .. 999 /\ Cpf \in Nat /\ W \div 2 \in Nat
  BY TimerConstants, FrameOK
<1>2. /\ tm.el \in 0 .. W - 1 /\ tm.residue \in Nat /\ tm.phase \in 0 .. Cpf + MaxLate /\ tm.age \in 0 .. Cpf
  BY <1>0, RegsOK DEF TimerRegs
<1>3. /\ tm.el < MaxElapsed \/ tm.el > W \div 2
      /\ tm.phase < Cpf + MaxLate
      /\ event_left > -MaxLate \/ event_left = NoEvent
      /\ event_left' = IF event_left = NoEvent THEN NoEvent ELSE event_left - 1
      /\ timer' = timer /\ dot' = dot /\ shots' = shots /\ epoch' = epoch /\ misset' = misset
  BY DEF TimerCycle
<1> DEFINE e == (tm.el + 1) % W
           f == IF Follows(tm.mode) THEN tm.phase + 1 ELSE 0
           a == IF tm.age < Cpf /\ AgeMatters THEN tm.age + 1 ELSE tm.age
<1>4. tm' = [tm EXCEPT !.el = e, !.phase = f, !.age = a]
  BY DEF TimerCycle
<1>5. e \in 0 .. W - 1 /\ f \in 0 .. Cpf + MaxLate /\ a \in 0 .. Cpf
  <2>1. tm.el + 1 \in Int
    BY <1>2
  <2>2. e \in 0 .. W - 1
    BY <1>1, <2>1, ModRange
  <2>3. f \in 0 .. Cpf + MaxLate
    BY <1>1, <1>2, <1>3
  <2>4. a \in 0 .. Cpf
    BY <1>1, <1>2
  <2> QED BY <2>2, <2>3, <2>4
<1> HIDE DEF e, f, a
<1>6. /\ tm' \in TimerRegs /\ tm'.el = e /\ tm'.mode = tm.mode /\ tm'.value = tm.value /\ tm'.target = tm.target
      /\ tm'.fired = tm.fired /\ tm'.residue = tm.residue
  BY <1>0, <1>4, <1>5 DEF TimerRegs
<1>7. ~Follows(tm.mode) => e = tm.el + 1 /\ e <= MaxElapsed
  <2>1. SUFFICES ASSUME ~Follows(tm.mode) PROVE e = tm.el + 1 /\ e <= MaxElapsed
    OBVIOUS
  <2>2. tm.el <= MaxElapsed
    BY <2>1 DEF TimerIInv, Watched
  <2>3. tm.el < MaxElapsed
    BY <1>1, <1>2, <1>3, <2>2
  <2>4. tm.el + 1 < W /\ tm.el + 1 \in Nat
    BY <1>1, <1>2, <2>3
  <2>5. e = tm.el + 1
    BY <1>1, <2>4, SmallMod DEF e
  <2> QED BY <1>1, <1>2, <2>3, <2>5
<1>8. Watched(tm') /\ Counted(tm', shots')
  BY <1>3, <1>6, <1>7 DEF TimerIInv, Watched, Counted
<1>9. event_left' \in Int /\ (event_left' = NoEvent \/ event_left' >= -MaxLate)
  BY <1>0, <1>1, <1>3 DEF NoEvent
<1>10. EventSoon(tm', event_left', misset')
  <2>1. /\ FreeRun(tm') = FreeRun(tm) /\ irq_can_fire(tm') = irq_can_fire(tm) /\ PastPeriod(tm') = PastPeriod(tm)
    BY <1>6 DEF FreeRun, Follows, stopped, irq_can_fire, can_fire, PastPeriod, Period, ResetMode
  <2>2. Num(tm') = Num(tm) /\ Denom(tm') = Denom(tm) /\ Dotclock(tm') = Dotclock(tm)
    BY <1>6 DEF Num, Denom, Dotclock, divider
  <2>3. TicksToEvent(tm') = TicksToEvent(tm)
    BY <1>6 DEF TicksToEvent, ResetMode
  <2>4. SUFFICES ASSUME FreeRun(tm), ~misset, irq_can_fire(tm)
                 PROVE  /\ event_left' # NoEvent /\ ~PastPeriod(tm)
                        /\ event_left' * Denom(tm) < (TicksToEvent(tm) + 1) * Num(tm) - UnitsOf(tm') + Denom(tm)
    BY <1>3, <2>1, <2>2, <2>3 DEF EventSoon
  <2>5. /\ event_left # NoEvent /\ ~PastPeriod(tm)
        /\ event_left * Denom(tm) < (TicksToEvent(tm) + 1) * Num(tm) - UnitsOf(tm) + Denom(tm)
    BY <2>4 DEF TimerIInv, EventSoon
  <2>6. event_left' = event_left - 1 /\ event_left' # NoEvent
    BY <1>0, <1>1, <1>3, <2>5 DEF NoEvent
  <2>7. /\ Denom(tm) \in Nat \ {0} /\ UnitsOf(tm) \in Nat /\ (TicksToEvent(tm) + 1) * Num(tm) \in Nat
    <3>1. Denom(tm) \in Nat \ {0} /\ UnitsOf(tm) \in Nat /\ TicksToEvent(tm) \in Nat /\ Num(tm) \in Nat
      BY <1>0, ClockOK, UnitsOfOK, EventTicks
    <3> QED BY <3>1
  <2>8. UnitsOf(tm') = UnitsOf(tm) + Denom(tm)
    BY <1>0, <1>6, <1>7, <2>4, FreeCycle DEF FreeRun
  <2>9. event_left' * Denom(tm) = event_left * Denom(tm) - Denom(tm) /\ event_left * Denom(tm) \in Int
    <3>1. \A x \in Int, d \in Int : (x - 1) * d = x * d - d /\ x * d \in Int
      OBVIOUS
    <3>2. Denom(tm) \in Int
      BY <2>7
    <3> QED BY <1>0, <2>6, <3>1, <3>2
  <2> QED BY <2>5, <2>6, <2>7, <2>8, <2>9
<1> QED BY <1>0, <1>3, <1>6, <1>8, <1>9, <1>10, NextOf

LEMMA WrittenOK ==
  ASSUME TimerTypeOK, NEW m \in Modes[timer], NEW ph \in Phases(m)
  PROVE  ModeWritten(m, ph) \in TimerRegs /\ ModeWritten(m, ph).el = 0 /\ ModeWritten(m, ph).value = 0
<1>0. tm \in TimerRegs /\ timer \in 0 .. 2
  BY TimerConstants DEF TimerTypeOK
<1>1. m \in ModeRegs
  BY <1>0, TimerConstants
<1>2. tm.phase \in 0 .. Cpf + MaxLate /\ Cpf \in Nat /\ MaxLate \in Nat
  BY <1>0, FrameOK, TimerConstants DEF TimerRegs
<1>3. ph \in 0 .. Cpf + MaxLate
  BY <1>2 DEF Phases
<1>4. 0 \in 0 .. Top /\ 0 \in 0 .. W - 1 /\ 0 \in 0 .. Cpf
  BY TimerConstants, FrameOK
<1> QED BY <1>0, <1>1, <1>3, <1>4 DEF ModeWritten, TimerRegs

LEMMA WriteModeKeeps ==
  ASSUME TimerIInv, NEW m \in Modes[timer], NEW ph \in Phases(m), WriteMode(m, ph)
  PROVE  TimerIInv'
<1>0. TimerTypeOK /\ Here /\ tm \in TimerRegs /\ epoch \in BOOLEAN /\ timer \in 0 .. 2
  BY TimerConstants DEF TimerIInv, TimerTypeOK, Here
<1> DEFINE r == ModeWritten(m, ph)
           z == [r EXCEPT !.residue = IF Dotclock(r) THEN 0 ELSE @]
           q == Timer_SyncValue(z).r
<1>2. r \in TimerRegs /\ r.el = 0
  BY <1>0, WrittenOK
<1> HIDE DEF r
<1>3. z \in TimerRegs /\ z.el = 0
  BY <1>2, TimerConstants DEF TimerRegs
<1>4. /\ tm' = q /\ event_left' = EventAfter(q) /\ shots' = 0 /\ epoch' = ~epoch /\ misset' = PastPeriod(q)
      /\ timer' = timer /\ dot' = dot
  BY DEF WriteMode, r
<1> HIDE DEF z
<1>5. Watched(z)
  BY <1>3, TimerConstants DEF Watched
<1>6. q \in TimerRegs /\ Watched(q) /\ (FreeRun(q) => UnitsOf(q) < Num(q))
  BY <1>0, <1>3, <1>5, SyncOK, SyncWatched
<1> HIDE DEF q
<1>7. /\ EventSoon(q, EventAfter(q), PastPeriod(q))
      /\ EventAfter(q) \in Int /\ (EventAfter(q) = NoEvent \/ EventAfter(q) >= -MaxLate)
  BY <1>0, <1>6, EventSet
<1>8. Counted(q, 0) /\ 0 \in 0 .. 2 /\ PastPeriod(q) \in BOOLEAN /\ (~epoch) \in BOOLEAN
  BY DEF Counted, PastPeriod
<1> QED BY <1>0, <1>4, <1>6, <1>7, <1>8, NextOf

LEMMA WritesKeep ==
  ASSUME TimerIInv
  PROVE  /\ \A v \in Values : WriteValue(v) => TimerIInv'
         /\ \A x \in Targets : WriteTarget(x) => TimerIInv'
         /\ FrameEnds => TimerIInv'
<1>0. tm \in TimerRegs /\ epoch \in BOOLEAN /\ MaxElapsed \in Nat /\ Watched(tm) /\ Counted(tm, shots)
  BY TimerConstants DEF TimerIInv, TimerTypeOK
<1>1. ASSUME NEW v \in Values, WriteValue(v) PROVE TimerIInv'
  <2> DEFINE r == [tm EXCEPT !.value = v, !.el = 0]
  <2>0. 0 \in 0 .. W - 1 /\ v \in 0 .. Top
    BY TimerConstants
  <2>1. r \in TimerRegs /\ r.el = 0 /\ r.mode = tm.mode /\ r.fired = tm.fired
    BY <1>0, <2>0 DEF TimerRegs
  <2>2. Timer_ScheduleOne(r) /\ epoch' \in BOOLEAN
    BY <1>0, <1>1 DEF WriteValue
  <2> HIDE DEF r
  <2>3. Watched(r) /\ Counted(r, shots)
    BY <1>0, <2>1 DEF Watched, Counted
  <2> QED BY <2>1, <2>2, <2>3, Rescheduled DEF Timer_ScheduleOne
<1>2. ASSUME NEW x \in Targets, WriteTarget(x) PROVE TimerIInv'
  <2> DEFINE r == [tm EXCEPT !.target = x]
  <2>1. r \in TimerRegs /\ r.el = tm.el /\ r.mode = tm.mode /\ r.fired = tm.fired
    BY <1>0, TimerConstants DEF TimerRegs
  <2>2. Timer_ScheduleOne(r) /\ epoch' \in BOOLEAN
    BY <1>0, <1>2 DEF WriteTarget
  <2> HIDE DEF r
  <2>3. Watched(r) /\ Counted(r, shots)
    BY <1>0, <2>1 DEF Watched, Counted
  <2> QED BY <2>1, <2>2, <2>3, Rescheduled DEF Timer_ScheduleOne
<1>3. ASSUME FrameEnds PROVE TimerIInv'
  <2> DEFINE r == [tm EXCEPT !.phase = 0]
  <2>1. r \in TimerRegs /\ r.el = tm.el /\ r.mode = tm.mode /\ r.fired = tm.fired
    BY <1>0, TimerConstants, FrameOK DEF TimerRegs
  <2>2. Timer_ScheduleOne(r) /\ epoch' \in BOOLEAN
    BY <1>0, <1>3 DEF FrameEnds
  <2> HIDE DEF r
  <2>3. Watched(r) /\ Counted(r, shots)
    BY <1>0, <2>1 DEF Watched, Counted
  <2> QED BY <2>1, <2>2, <2>3, Rescheduled DEF Timer_ScheduleOne
<1> QED BY <1>1, <1>2, <1>3

LEMMA TimerStepOK == TimerIInv /\ [TimerNext]_timerVars => TimerIInv'
<1> SUFFICES ASSUME TimerIInv, [TimerNext]_timerVars PROVE TimerIInv'
  OBVIOUS
<1>0. /\ TimerTypeOK /\ Here /\ tm \in TimerRegs /\ Watched(tm) /\ Counted(tm, shots) /\ shots \in 0 .. 2
      /\ epoch \in BOOLEAN /\ misset \in BOOLEAN /\ EventSoon(tm, event_left, misset) /\ event_left \in Int
      /\ event_left = NoEvent \/ event_left >= -MaxLate
  BY DEF TimerIInv, TimerTypeOK, Here
<1>1. CASE Timers_Read
  <2> DEFINE q == Timer_SyncValue(tm).r
  <2>1. /\ tm' = q /\ shots' = CountShot(Timer_SyncValue(tm).signal) /\ timer' = timer /\ dot' = dot
        /\ event_left' = event_left /\ epoch' = epoch /\ misset' = misset
    BY <1>1 DEF Timers_Read, SyncStep
  <2>2. q \in TimerRegs /\ Watched(q) /\ EventSoon(q, event_left, misset)
    BY <1>0, SyncOK, SyncWatched, LookKeepsEvent
  <2>3. shots' \in 0 .. 2 /\ Counted(q, shots')
    BY <1>0, <2>1, SyncCounted
  <2> HIDE DEF q
  <2> QED BY <1>0, <2>1, <2>2, <2>3, NextOf
<1>2. CASE Timer_Callback
  BY <1>0, <1>2, Rescheduled DEF Timer_Callback
<1>3. CASE \E d \in Dotclocks : Timer_RefreshDividerCache(d)
  <2>1. PICK d \in Dotclocks : Timer_RefreshDividerCache(d)
    BY <1>3
  <2> DEFINE q == IF Dotclock(tm) THEN [tm EXCEPT !.residue = 0] ELSE tm
  <2>2. q \in TimerRegs /\ q.el = tm.el /\ q.mode = tm.mode /\ q.fired = tm.fired
    BY <1>0, TimerConstants DEF TimerRegs
  <2>3. /\ timer' = timer /\ dot' = d /\ tm' = q /\ epoch' = ~epoch /\ misset' = TRUE
        /\ event_left' = event_left /\ shots' = shots
    BY <2>1 DEF Timer_RefreshDividerCache
  <2> HIDE DEF q
  <2>4. TimerTypeOK'
    BY <1>0, <2>2, <2>3 DEF TimerTypeOK, TimerRegs, ModeRegs, Cpf, NoEvent
  <2>5. Watched(tm)' /\ Counted(tm, shots)'
    BY <1>0, <2>2, <2>3 DEF Watched, Counted, Follows
  <2>6. EventSoon(tm, event_left, misset)'
    BY <2>3 DEF EventSoon
  <2> QED BY <2>4, <2>5, <2>6 DEF TimerIInv
<1>4. CASE UNCHANGED timerVars
  <2>1. /\ tm' = tm /\ timer' = timer /\ dot' = dot /\ shots' = shots /\ event_left' = event_left
        /\ epoch' = epoch /\ misset' = misset
    BY <1>4 DEF timerVars
  <2> QED BY <1>0, <2>1, NextOf
<1> QED BY <1>1, <1>2, <1>3, <1>4, CycleKeeps, WriteModeKeeps, WritesKeep DEF TimerNext

(* The interrupts of a free-running root counter are served: its scheduler *)
(* event is never more than two ticks after the tick that crosses (timers.c *)
(* Timer_ScheduleOne), and a one-shot mode interrupts once.                *)
THEOREM IrqAlwaysServed == TimerSpec => []IrqIsServed
<1>1. TimerInit => TimerIInv
  BY TimerInitOK
<1>2. TimerIInv /\ [TimerNext]_timerVars => TimerIInv'
  BY TimerStepOK
<1>3. TimerIInv => IrqIsServed
  BY SoonIsNotLate
<1> QED BY <1>1, <1>2, <1>3, PTL DEF TimerSpec

-----------------------------------------------------------------------------
LEMMA ModStep ==
  ASSUME NEW x \in Nat, NEW p \in Nat \ {0}
  PROVE  (x + 1) % p = ((x % p) + 1) % p
<1> DEFINE a == x \div p
           b == x % p
<1>1. a \in Nat /\ b \in 0 .. p - 1
  BY DivMod
<1>2. x = a * p + b
  BY DivMod
<1> HIDE DEF a, b
<1>3. CASE b + 1 < p
  <2>1. b + 1 \in 0 .. p - 1 /\ b + 1 \in Nat /\ x + 1 = a * p + (b + 1)
    BY <1>1, <1>2, <1>3
  <2>2. (a * p + (b + 1)) % p = b + 1
    BY <1>1, <2>1, DivUnique
  <2>3. (b + 1) % p = b + 1
    BY <1>3, <2>1, SmallMod
  <2> QED BY <2>1, <2>2, <2>3 DEF b
<1>4. CASE b + 1 = p
  <2>1. x + 1 = (a + 1) * p + 0 /\ a + 1 \in Nat /\ 0 \in 0 .. p - 1
    BY <1>1, <1>2, <1>4
  <2>2. ((a + 1) * p + 0) % p = 0
    BY <2>1, DivUnique
  <2>3. (p + 0) % p = 0
    BY <2>1, OneOver
  <2>4. p + 0 = p
    OBVIOUS
  <2> QED BY <1>4, <2>1, <2>2, <2>3, <2>4 DEF b
<1> QED BY <1>1, <1>3, <1>4

(* One tick more moves the counter by one step of RootCounter.             *)
LEMMA OneMoreTick ==
  ASSUME NEW r \in TimerRegs, r.value < Top, NEW k \in Nat
  PROVE  LET c == IF k = 0 THEN r.value ELSE NewValue(r, k)
         IN  c \in Nat /\ NewValue(r, k + 1) = IF c + 1 >= Period(r) THEN (c + 1) % Period(r) ELSE c + 1
<1> DEFINE c == IF k = 0 THEN r.value ELSE NewValue(r, k)
           p == Period(r)
           v == Val(r)
<1>1. v = r.value /\ v \in Nat /\ p \in Nat \ {0} /\ Top \in Nat
  BY ValOK, PeriodOK, TimerConstants, RegsOK
<1>2. /\ NewValue(r, k) = (v + k) % p /\ NewValue(r, k) \in Nat
      /\ NewValue(r, k + 1) = (v + (k + 1)) % p
  <2>1. NewValue(r, k) = (v + k) % p /\ NewValue(r, k) \in 0 .. p - 1
    BY NewValueOK DEF Val
  <2>2. k + 1 \in Nat
    OBVIOUS
  <2>3. NewValue(r, k + 1) = (v + (k + 1)) % p
    BY <2>2, NewValueOK DEF Val
  <2> QED BY <1>1, <2>1, <2>3
<1> HIDE DEF v, p
<1>3. v + k \in Nat /\ v + (k + 1) = (v + k) + 1
  BY <1>1
<1>4. NewValue(r, k + 1) = ((v + k) + 1) % p
  BY <1>2, <1>3
<1>5. ((v + k) + 1) % p = (((v + k) % p) + 1) % p
  BY <1>1, <1>3, ModStep
<1>6. c \in Nat /\ NewValue(r, k + 1) = (c + 1) % p
  <2>1. CASE k = 0
    <3>1. v + k = c
      BY <1>1, <2>1
    <3> QED BY <1>1, <1>4, <2>1, <3>1
  <2>2. CASE k # 0
    BY <1>2, <1>4, <1>5, <2>2
  <2> QED BY <2>1, <2>2
<1> HIDE DEF c
<1>7. c + 1 < p => (c + 1) % p = c + 1
  BY <1>1, <1>6, SmallMod
<1> QED BY <1>1, <1>6, <1>7 DEF c, p

LEMMA FreeCount ==
  ASSUME Here, NEW r \in TimerRegs, FreeRun(r)
  PROVE  LET k == UnitsOf(r) \div Num(r)
         IN  /\ CountOf(r) = IF k = 0 THEN r.value ELSE NewValue(r, k)
             /\ SubOf(r) = UnitsOf(r) % Num(r)
<1>1. Ticks(Counts(r, r.el)) = UnitsOf(r) \div Num(r)
  BY DEF Ticks, UnitsOf, Counts
<1>2. ~Follows(r.mode) /\ ~stopped(r)
  BY DEF FreeRun
<1> QED BY <1>1, <1>2 DEF CountOf, SubOf, FreeRun

(* A look at the counter is not seen.                                      *)
LEMMA LookUnseen ==
  ASSUME Here, NEW r \in TimerRegs
  PROVE  LET q == Timer_SyncValue(r).r
         IN  CountOf(q) = CountOf(r) /\ SubOf(q) = SubOf(r) /\ ClockOf(q) = ClockOf(r) /\ Period(q) = Period(r)
<1> DEFINE q == Timer_SyncValue(r).r
           n == Num(r)
           u == UnitsOf(r)
           k == u \div n
<1>1. q \in TimerRegs /\ q.mode = r.mode /\ q.target = r.target /\ (stopped(r) => q.value = r.value)
  BY SyncOK
<1>2. FreeRun(r) => /\ u \in Nat /\ UnitsOf(q) = u % n
                    /\ q.value = IF k = 0 THEN r.value ELSE NewValue(r, k)
  BY FreeSyncOK
<1> HIDE DEF q
<1>3. Follows(q.mode) = Follows(r.mode) /\ stopped(q) = stopped(r) /\ FreeRun(q) = FreeRun(r)
  BY <1>1 DEF Follows, stopped, FreeRun
<1>4. Num(q) = n /\ Denom(q) = Denom(r) /\ Period(q) = Period(r)
  BY <1>1 DEF Num, Denom, Dotclock, divider, Period, ResetMode
<1>5. ClockOf(q) = ClockOf(r)
  BY <1>3, <1>4 DEF ClockOf
<1>6. CASE FreeRun(r)
  <2>1. n \in Nat \ {0} /\ u \in Nat
    BY <1>2, <1>6, ClockOK
  <2>2. /\ CountOf(r) = IF k = 0 THEN r.value ELSE NewValue(r, k)
        /\ SubOf(r) = u % n
    BY <1>6, FreeCount
  <2>3. /\ CountOf(q) = IF UnitsOf(q) \div n = 0 THEN q.value ELSE NewValue(q, UnitsOf(q) \div n)
        /\ SubOf(q) = UnitsOf(q) % n
    BY <1>1, <1>3, <1>4, <1>6, FreeCount
  <2> HIDE DEF n, u
  <2>4. u % n \in Nat /\ u % n < n
    <3>1. u % n \in 0 .. n - 1
      BY <2>1, DivMod
    <3> QED BY <2>1, <3>1
  <2> DEFINE m == u % n
  <2> HIDE DEF m
  <2>5. m \div n = 0 /\ m % n = m
    BY <2>1, <2>4, DivMod DEF m
  <2>6. UnitsOf(q) = m
    BY <1>2, <1>6 DEF m
  <2>7. CountOf(q) = q.value /\ SubOf(q) = m
    BY <2>3, <2>5, <2>6
  <2>8. CountOf(q) = CountOf(r) /\ SubOf(q) = SubOf(r)
    BY <1>2, <1>6, <2>2, <2>7 DEF m
  <2> QED BY <1>4, <1>5, <2>8 DEF q
<1>7. CASE ~FreeRun(r)
  <2>1. SubOf(q) = SubOf(r)
    BY <1>3, <1>7 DEF SubOf
  <2>2. CASE Follows(r.mode)
    <3>1. CountOf(q) = CountOf(r)
      BY <1>3, <2>2 DEF CountOf
    <3> QED BY <1>4, <1>5, <2>1, <3>1 DEF q
  <2>3. CASE ~Follows(r.mode) /\ stopped(r)
    <3>1. CountOf(q) = CountOf(r)
      BY <1>1, <1>3, <2>3 DEF CountOf
    <3> QED BY <1>4, <1>5, <2>1, <3>1 DEF q
  <2> QED BY <1>7, <2>2, <2>3 DEF FreeRun
<1> QED BY <1>6, <1>7

LEMMA ShownNext ==
  ASSUME timer' = timer, dot' = dot
  PROVE  /\ CountOf(tm)' = CountOf(tm') /\ SubOf(tm)' = SubOf(tm')
         /\ ClockOf(tm)' = ClockOf(tm') /\ Period(tm)' = Period(tm')
<1>1. FreeRun(tm)' = FreeRun(tm') /\ Follows(tm.mode)' = Follows(tm'.mode) /\ stopped(tm)' = stopped(tm')
  BY DEF FreeRun, Follows, stopped
<1>2. Denom(tm)' = Denom(tm') /\ Num(tm)' = Num(tm') /\ UnitsOf(tm)' = UnitsOf(tm') /\ Period(tm)' = Period(tm')
  BY DEF Denom, Num, UnitsOf, Units, Dotclock, divider, Period, ResetMode
<1>3. Ticks(Counts(tm, tm.el))' = Ticks(Counts(tm', tm'.el))
  BY DEF Ticks, Units, Num, Dotclock, divider
<1>5. NewValue(tm, Ticks(Counts(tm, tm.el)))' = NewValue(tm', Ticks(Counts(tm', tm'.el)))
  BY <1>3 DEF NewValue, Period, ResetMode
<1>6. CountOf(tm)' = CountOf(tm')
  BY <1>1, <1>3, <1>5 DEF CountOf, Unknown
<1>7. SubOf(tm)' = SubOf(tm') /\ ClockOf(tm)' = ClockOf(tm')
  BY <1>1, <1>2 DEF SubOf, ClockOf
<1> QED BY <1>2, <1>6, <1>7

(* What a cycle changes, for the counter that is shown.                    *)
LEMMA CycleUnits ==
  ASSUME TimerIInv, TimerCycle, FreeRun(tm)
  PROVE  /\ tm' \in TimerRegs /\ FreeRun(tm') /\ UnitsOf(tm') = UnitsOf(tm) + Denom(tm)
         /\ tm'.mode = tm.mode /\ tm'.target = tm.target /\ tm'.value = tm.value
<1>0. /\ Here /\ tm \in TimerRegs /\ Watched(tm) /\ tm.el \in 0 .. W - 1
      /\ W \in Nat \ {0} /\ MaxElapsed \in Nat /\ MaxElapsed <= W \div 2 /\ MaxElapsed < W - 1 /\ W \div 2 \in Nat
  BY RegsOK, TimerConstants DEF TimerIInv, TimerTypeOK, Here
<1>1. tm' \in TimerRegs
  BY CycleKeeps DEF TimerIInv, TimerTypeOK, TimerRegs, ModeRegs, Cpf
<1>2. /\ tm'.el = (tm.el + 1) % W /\ tm'.mode = tm.mode /\ tm'.target = tm.target /\ tm'.value = tm.value
      /\ tm'.residue = tm.residue /\ (tm.el < MaxElapsed \/ tm.el > W \div 2)
  BY <1>0 DEF TimerCycle, TimerRegs
<1>3. tm.el + 1 < W /\ tm.el + 1 \in Nat
  BY <1>0, <1>2 DEF Watched, FreeRun
<1>4. tm'.el = tm.el + 1
  <2>1. (tm.el + 1) % W = tm.el + 1
    BY <1>0, <1>3, SmallMod
  <2> QED BY <1>2, <2>1
<1>5. UnitsOf(tm') = UnitsOf(tm) + Denom(tm)
  BY <1>0, <1>1, <1>2, <1>4, FreeCycle
<1> QED BY <1>1, <1>2, <1>5 DEF FreeRun, Follows, stopped

LEMMA CycleIsCycle ==
  ASSUME TimerIInv, tm.value < Top, TimerCycle, FreeRun(tm)
  PROVE  Counter!Cycle
<1> DEFINE n == Num(tm)
           d == Denom(tm)
           u == UnitsOf(tm)
           k == u \div n
           m == u % n
           w == u + d
<1>0. Here /\ tm \in TimerRegs /\ timer' = timer /\ dot' = dot /\ epoch' = epoch
  BY DEF TimerIInv, TimerTypeOK, Here, TimerCycle
<1>1. /\ tm' \in TimerRegs /\ FreeRun(tm') /\ UnitsOf(tm') = w
      /\ tm'.mode = tm.mode /\ tm'.target = tm.target /\ tm'.value = tm.value
  BY CycleUnits
<1>2. n \in Nat \ {0} /\ d \in Nat \ {0} /\ d <= n /\ u \in Nat
  BY <1>0, ClockOK, UnitsOfOK
<1>3. Num(tm') = n /\ Denom(tm') = d /\ Period(tm') = Period(tm) /\ stopped(tm') = stopped(tm)
  BY <1>1 DEF Num, Denom, Dotclock, divider, Period, ResetMode, stopped
<1>4. /\ CountOf(tm) = IF k = 0 THEN tm.value ELSE NewValue(tm, k)
      /\ SubOf(tm) = m
  BY <1>0, FreeCount
<1>5. /\ CountOf(tm') = IF w \div n = 0 THEN tm.value ELSE NewValue(tm, w \div n)
      /\ SubOf(tm') = w % n
  <2>1. /\ CountOf(tm') = IF w \div n = 0 THEN tm'.value ELSE NewValue(tm', w \div n)
        /\ SubOf(tm') = w % n
    BY <1>0, <1>1, <1>3, FreeCount
  <2>2. NewValue(tm', w \div n) = NewValue(tm, w \div n)
    BY <1>1 DEF NewValue, Period, ResetMode
  <2> QED BY <1>1, <2>1, <2>2
<1>6. /\ CountOf(tm)' = CountOf(tm') /\ SubOf(tm)' = SubOf(tm')
      /\ ClockOf(tm)' = ClockOf(tm) /\ Period(tm)' = Period(tm)
  BY <1>0, <1>3, ShownNext DEF ClockOf
<1>7. ClockOf(tm)[1] = n /\ ClockOf(tm)[2] = d
  BY DEF ClockOf, FreeRun
<1> HIDE DEF n, d, u
<1>8. k \in Nat /\ m \in Nat /\ m < n /\ u = k * n + m
  <2>1. k \in Nat /\ m \in 0 .. n - 1
    BY <1>2, DivMod
  <2>2. u = k * n + m
    BY <1>2, DivMod
  <2> QED BY <1>2, <2>1, <2>2
<1>9. /\ CountOf(tm) \in Nat
      /\ NewValue(tm, k + 1) = Counter!Step(CountOf(tm))
  <2>1. k \in Nat
    BY <1>8
  <2> HIDE DEF k
  <2> DEFINE c == IF k = 0 THEN tm.value ELSE NewValue(tm, k)
  <2>2. /\ c \in Nat
        /\ NewValue(tm, k + 1) = IF c + 1 >= Period(tm) THEN (c + 1) % Period(tm) ELSE c + 1
    BY <1>0, <2>1, OneMoreTick
  <2>3. CountOf(tm) = c
    BY <1>4 DEF k
  <2> HIDE DEF c
  <2> QED BY <2>2, <2>3 DEF Counter!Step
<1> HIDE DEF k, m
<1>10. CASE m + d < n
  <2>1. w = k * n + (m + d) /\ m + d \in 0 .. n - 1
    BY <1>2, <1>8, <1>10
  <2>2. w \div n = k /\ w % n = m + d
    BY <1>2, <1>8, <2>1, DivUnique
  <2> HIDE DEF w
  <2>3. CountOf(tm)' = CountOf(tm) /\ SubOf(tm)' = m + d
    BY <1>4, <1>5, <1>6, <2>2
  <2>4. ~(SubOf(tm) + ClockOf(tm)[2] >= ClockOf(tm)[1])
    BY <1>2, <1>4, <1>7, <1>8, <1>10
  <2>5. CountOf(tm) # Unknown /\ ClockOf(tm)[1] # 0
    BY <1>2, <1>7, <1>9 DEF Unknown
  <2> QED BY <1>0, <1>4, <1>6, <1>7, <2>3, <2>4, <2>5 DEF Counter!Cycle
<1>11. CASE m + d >= n
  <2>1. w = (k + 1) * n + (m + d - n) /\ m + d - n \in 0 .. n - 1 /\ k + 1 \in Nat /\ k + 1 # 0
    <3>1. (k + 1) * n = k * n + n /\ k * n \in Nat
      BY <1>2, <1>8
    <3> QED BY <1>2, <1>8, <1>11, <3>1
  <2>2. w \div n = k + 1 /\ w % n = m + d - n
    BY <1>2, <2>1, DivUnique
  <2> HIDE DEF w
  <2>3. CountOf(tm)' = Counter!Step(CountOf(tm)) /\ SubOf(tm)' = m + d - n
    BY <1>5, <1>6, <1>9, <2>1, <2>2
  <2>4. SubOf(tm) + ClockOf(tm)[2] >= ClockOf(tm)[1]
    BY <1>4, <1>7, <1>11
  <2>5. CountOf(tm) # Unknown /\ ClockOf(tm)[1] # 0
    BY <1>2, <1>7, <1>9 DEF Unknown
  <2> QED BY <1>0, <1>4, <1>6, <1>7, <2>3, <2>4, <2>5 DEF Counter!Cycle
<1> QED BY <1>2, <1>8, <1>10, <1>11

(* Unless reset mode meets the target 0xFFFF, the value fits the register. *)
WithinTop == Period(tm) <= Top
Fits == tm.value < Top

LEMMA SyncFits ==
  ASSUME TimerIInv, WithinTop', NEW r \in TimerRegs, r.value < Top, tm' = Timer_SyncValue(r).r
  PROVE  Fits'
<1>1. /\ tm'.mode = r.mode /\ tm'.target = r.target /\ tm' \in TimerRegs
      /\ tm'.value \in {0, r.value} \/ tm'.value < Period(r)
  BY SyncOK DEF TimerIInv, TimerTypeOK, Here
<1>2. Period(r) <= Top
  BY <1>1 DEF WithinTop, Period, ResetMode
<1>3. Top \in Nat /\ Top > 1 /\ Period(r) \in Nat /\ tm'.value \in Nat
  BY <1>1, TimerConstants, PeriodOK, RegsOK
<1> QED BY <1>1, <1>2, <1>3 DEF Fits

LEMMA FitsOK ==
  ASSUME TimerIInv, WithinTop', Fits, [TimerNext]_timerVars
  PROVE  Fits'
<1>0. tm \in TimerRegs /\ timer \in 0 .. 2 /\ Top \in Nat /\ Top > 1
  BY TimerConstants DEF TimerIInv, TimerTypeOK
<1>1. CASE Timers_Read \/ Timer_Callback
  <2>1. tm' = Timer_SyncValue(tm).r
    BY <1>1 DEF Timers_Read, Timer_Callback, SyncStep
  <2> QED BY <1>0, <2>1, SyncFits DEF Fits
<1>2. ASSUME NEW v \in Values, WriteValue(v) PROVE Fits'
  <2> DEFINE r == [tm EXCEPT !.value = v, !.el = 0]
  <2>0. 0 \in 0 .. W - 1 /\ v \in 0 .. Top /\ v < Top
    BY TimerConstants
  <2>1. r \in TimerRegs /\ r.value < Top
    BY <1>0, <2>0 DEF TimerRegs
  <2>2. tm' = Timer_SyncValue(r).r
    BY <1>2 DEF WriteValue, Timer_ScheduleOne, SyncStep
  <2> HIDE DEF r
  <2> QED BY <2>1, <2>2, SyncFits
<1>3. ASSUME NEW m \in Modes[timer], NEW ph \in Phases(m), WriteMode(m, ph) PROVE Fits'
  <2> DEFINE r == ModeWritten(m, ph)
             z == [r EXCEPT !.residue = IF Dotclock(r) THEN 0 ELSE @]
  <2>1. r \in TimerRegs /\ r.value = 0
    BY WrittenOK DEF TimerIInv
  <2>2. tm' = Timer_SyncValue(z).r
    BY <1>3 DEF WriteMode
  <2> HIDE DEF r
  <2>3. z \in TimerRegs /\ z.value < Top
    BY <1>0, <2>1, TimerConstants DEF TimerRegs
  <2> HIDE DEF z
  <2> QED BY <2>2, <2>3, SyncFits
<1>4. ASSUME NEW x \in Targets, WriteTarget(x) PROVE Fits'
  <2> DEFINE r == [tm EXCEPT !.target = x]
  <2>1. r \in TimerRegs /\ r.value < Top
    BY <1>0, TimerConstants DEF TimerRegs, Fits
  <2>2. tm' = Timer_SyncValue(r).r
    BY <1>4 DEF WriteTarget, Timer_ScheduleOne, SyncStep
  <2> HIDE DEF r
  <2> QED BY <2>1, <2>2, SyncFits
<1>5. CASE FrameEnds
  <2> DEFINE r == [tm EXCEPT !.phase = 0]
  <2>1. r \in TimerRegs /\ r.value < Top
    BY <1>0, TimerConstants, FrameOK DEF TimerRegs, Fits
  <2>2. tm' = Timer_SyncValue(r).r
    BY <1>5 DEF FrameEnds, Timer_ScheduleOne, SyncStep
  <2> HIDE DEF r
  <2> QED BY <2>1, <2>2, SyncFits
<1>6. CASE TimerCycle \/ UNCHANGED timerVars \/ \E d \in Dotclocks : Timer_RefreshDividerCache(d)
  <2>1. tm'.value = tm.value
    BY <1>0, <1>6 DEF TimerCycle, timerVars, Timer_RefreshDividerCache, TimerRegs
  <2> QED BY <2>1 DEF Fits
<1> QED BY <1>1, <1>2, <1>3, <1>4, <1>5, <1>6 DEF TimerNext

LEMMA TimerImplements ==
  ASSUME TimerIInv, Fits, [TimerNext]_timerVars
  PROVE  [Counter!Next]_(Counter!vars)
<1>0. Here /\ tm \in TimerRegs /\ epoch \in BOOLEAN
  BY DEF TimerIInv, TimerTypeOK, Here
<1>1. ASSUME NEW r \in TimerRegs, tm' = Timer_SyncValue(r).r, timer' = timer, dot' = dot, epoch' = epoch,
             CountOf(r) = CountOf(tm), SubOf(r) = SubOf(tm), ClockOf(r) = ClockOf(tm), Period(r) = Period(tm)
      PROVE  UNCHANGED Counter!vars
  <2>1. /\ CountOf(tm') = CountOf(r) /\ SubOf(tm') = SubOf(r) /\ ClockOf(tm') = ClockOf(r)
        /\ Period(tm') = Period(r)
    BY <1>0, <1>1, LookUnseen
  <2> QED BY <1>1, <2>1, ShownNext DEF Counter!vars
<1>2. CASE Timers_Read \/ Timer_Callback
  <2>1. tm' = Timer_SyncValue(tm).r /\ timer' = timer /\ dot' = dot /\ epoch' = epoch
    BY <1>2 DEF Timers_Read, Timer_Callback, SyncStep
  <2> QED BY <1>0, <1>1, <2>1
<1>3. CASE FrameEnds
  <2> DEFINE r == [tm EXCEPT !.phase = 0]
  <2>1. /\ r \in TimerRegs /\ r.mode = tm.mode /\ r.value = tm.value /\ r.target = tm.target /\ r.el = tm.el
        /\ r.residue = tm.residue
    BY <1>0, TimerConstants, FrameOK DEF TimerRegs
  <2>2. tm' = Timer_SyncValue(r).r /\ timer' = timer /\ dot' = dot /\ epoch' = epoch
    BY <1>3 DEF FrameEnds, Timer_ScheduleOne, SyncStep
  <2> HIDE DEF r
  <2>3. CountOf(r) = CountOf(tm) /\ SubOf(r) = SubOf(tm) /\ ClockOf(r) = ClockOf(tm) /\ Period(r) = Period(tm)
    <3>1. UnitsOf(r) = UnitsOf(tm) /\ Num(r) = Num(tm) /\ Denom(r) = Denom(tm)
      BY <2>1 DEF UnitsOf, Units, Counts, Num, Denom, Dotclock, divider
    <3>2. Ticks(Counts(r, r.el)) = Ticks(Counts(tm, tm.el))
      BY <2>1 DEF Ticks, Units, Counts, Num, Dotclock, divider
    <3>3. Period(r) = Period(tm)
      BY <2>1 DEF Period, ResetMode
    <3>4. \A k : NewValue(r, k) = NewValue(tm, k)
      BY <2>1, <3>3 DEF NewValue
    <3>5. Follows(r.mode) = Follows(tm.mode) /\ stopped(r) = stopped(tm) /\ FreeRun(r) = FreeRun(tm)
      BY <2>1 DEF Follows, stopped, FreeRun
    <3>6. CountOf(r) = CountOf(tm)
      BY <2>1, <3>2, <3>4, <3>5 DEF CountOf
    <3>7. SubOf(r) = SubOf(tm) /\ ClockOf(r) = ClockOf(tm)
      BY <3>1, <3>5 DEF SubOf, ClockOf
    <3> QED BY <3>3, <3>6, <3>7
  <2> QED BY <1>1, <2>1, <2>2, <2>3
<1>4. CASE TimerCycle
  <2>1. CASE FreeRun(tm)
    BY <1>4, <2>1, CycleIsCycle DEF Fits, Counter!Next
  <2>2. CASE ~FreeRun(tm)
    <3>1. /\ timer' = timer /\ dot' = dot /\ epoch' = epoch /\ tm'.mode = tm.mode /\ tm'.value = tm.value
          /\ tm'.target = tm.target
      BY <1>0, <1>4 DEF TimerCycle, TimerRegs
    <3>2. /\ Follows(tm'.mode) = Follows(tm.mode) /\ stopped(tm') = stopped(tm) /\ FreeRun(tm') = FreeRun(tm)
          /\ ClockOf(tm') = ClockOf(tm) /\ Period(tm') = Period(tm)
      BY <3>1 DEF Follows, stopped, FreeRun, ClockOf, Num, Denom, Dotclock, divider, Period, ResetMode
    <3>3. SubOf(tm') = SubOf(tm)
      BY <2>2, <3>2 DEF SubOf
    <3>4. CountOf(tm') = CountOf(tm)
      BY <2>2, <3>1, <3>2 DEF CountOf, FreeRun
    <3> QED BY <3>1, <3>2, <3>3, <3>4, ShownNext DEF Counter!vars
  <2> QED BY <2>1, <2>2
<1>5. CASE \/ \E v \in Values : WriteValue(v)
           \/ \E m \in Modes[timer] : \E ph \in Phases(m) : WriteMode(m, ph)
           \/ \E x \in Targets : WriteTarget(x)
           \/ \E d \in Dotclocks : Timer_RefreshDividerCache(d)
  <2>1. epoch' = ~epoch
    BY <1>5 DEF WriteValue, WriteMode, WriteTarget, Timer_RefreshDividerCache
  <2> QED BY <1>0, <2>1 DEF Counter!Next, Counter!Write
<1>6. CASE UNCHANGED timerVars
  BY <1>6, ShownNext DEF timerVars, Counter!vars
<1> QED BY <1>2, <1>3, <1>4, <1>5, <1>6 DEF TimerNext

(* The lazy counter implements the one that ticks every cycle, as long as  *)
(* the guest does not combine reset mode with the target 0xFFFF, whose     *)
(* second tick at zero does not fit the 16 bits of the register.           *)
THEOREM LazyAlwaysExact == TimerSpec /\ []WithinTop => LazyIsExact
<1>1. TimerInit => TimerIInv /\ Fits /\ Counter!Init
  <2> SUFFICES ASSUME TimerInit PROVE TimerIInv /\ Fits /\ Counter!Init
    OBVIOUS
  <2>1. TimerIInv
    BY TimerInitOK
  <2>2. Here /\ tm \in TimerRegs /\ tm.value = 0 /\ tm.el = 0 /\ tm.residue = 0 /\ ~tm.mode.sync /\ Fits
    BY <2>1, TimerConstants DEF TimerInit, TimerIInv, TimerTypeOK, Here, Fits
  <2>3. FreeRun(tm)
    BY <2>2 DEF FreeRun, Follows, stopped
  <2>4. Den \in Nat /\ Num(tm) \in Nat \ {0}
    BY <2>2, ClockOK, TimerConstants
  <2>5. UnitsOf(tm) = 0
    BY <2>2, <2>4, UnitsOfOK
  <2>6. 0 \div Num(tm) = 0 /\ 0 % Num(tm) = 0
    BY <2>4, DivMod
  <2>7. CountOf(tm) = 0 /\ SubOf(tm) = 0
    BY <2>2, <2>3, <2>5, <2>6, FreeCount
  <2> QED BY <2>1, <2>2, <2>7 DEF Counter!Init
<1>2. TimerIInv /\ Fits /\ WithinTop /\ WithinTop' /\ [TimerNext]_timerVars => TimerIInv' /\ Fits'
  BY TimerStepOK, FitsOK
<1>3. TimerIInv /\ Fits /\ [TimerNext]_timerVars => [Counter!Next]_(Counter!vars)
  BY TimerImplements
<1> QED BY <1>1, <1>2, <1>3, PTL DEF TimerSpec, LazyIsExact, Counter!Spec
=============================================================================
