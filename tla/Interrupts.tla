----------------------------- MODULE Interrupts -----------------------------
(***************************************************************************)
(* From a device's SignalInterrupt to the exception: I_STAT and I_MASK of  *)
(* src/hardware.c, the copies irq_pending and irq_pending_fast that        *)
(* compiled code tests, the status register's stack of interrupt enables,  *)
(* the chain of blocks that is cut short when an interrupt becomes         *)
(* pending, and sync_hardware_and_interrupts between chains.               *)
(***************************************************************************)
EXTENDS Integers

CONSTANTS Irqs,          \* interrupt lines
          CdIrq,         \* line 2, held by the CD-ROM while it is active
          MaxBudget      \* bound: cycles of a chain

ASSUME IntAssumption == MaxBudget \in Nat /\ CdIrq \in Irqs

VARIABLES i_stat, i_mask,
          irq_pending, irq_pending_fast,
          sr,            \* [c, p, o: the interrupt enables, im2: their mask]
          cause_ip2,
          cdrom_irq_active,
          at,            \* in Run_CPU: the chain, events (tick), or a new round (start)
          aborted,       \* cpu.block_aborted
          initial, cycles_left, correction,
          spent,         \* cycles of guest code in this chain
          accounted      \* what the last chain added to global_cycles, less spent

lineVars == <<i_stat, i_mask, irq_pending, irq_pending_fast>>
chainVars == <<at, aborted, initial, cycles_left, correction, spent, accounted>>
intVars == <<lineVars, sr, cause_ip2, cdrom_irq_active, chainVars>>

in_chain == at = "chain"     \* psx_block_exception

IntInit ==
  /\ i_stat = {} /\ i_mask = {} /\ irq_pending = FALSE /\ irq_pending_fast = FALSE
  /\ sr = [c |-> FALSE, p |-> FALSE, o |-> FALSE, im2 |-> FALSE]
  /\ cause_ip2 = FALSE /\ cdrom_irq_active = FALSE
  /\ at = "start" /\ aborted = FALSE
  /\ initial = 0 /\ cycles_left = 0 /\ correction = 0 /\ spent = 0 /\ accounted = 0

CheckInterrupts == i_stat \cap i_mask # {}

(* The copies after I_STAT or I_MASK changed, and the chain cut short.     *)
cap_cycles_for_irq ==
  IF in_chain /\ cycles_left > 0
    THEN correction' = correction + cycles_left /\ cycles_left' = 0
    ELSE UNCHANGED <<correction, cycles_left>>

RefreshCopies ==
  /\ irq_pending' = (i_stat' \cap i_mask' # {})
  /\ irq_pending_fast' = (irq_pending' /\ sr.c)
  /\ IF irq_pending' THEN cap_cycles_for_irq ELSE UNCHANGED <<correction, cycles_left>>
  /\ UNCHANGED <<sr, cause_ip2, at, aborted, initial, spent, accounted>>

SignalInterrupt(irq) ==
  /\ i_stat' = i_stat \cup {irq}
  /\ UNCHANGED <<i_mask, cdrom_irq_active>>
  /\ RefreshCopies

(* The CD-ROM raises its line, and later drops it.                         *)
CdLine(active) ==
  /\ cdrom_irq_active' = active
  /\ IF active
       THEN i_stat' = i_stat \cup {CdIrq} /\ i_mask' = i_mask /\ RefreshCopies
       ELSE UNCHANGED <<lineVars, sr, cause_ip2, chainVars>>

Write_I_STAT(keep) ==
  /\ i_stat' = (i_stat \cap keep) \cup (IF cdrom_irq_active THEN {CdIrq} ELSE {})
  /\ UNCHANGED <<i_mask, cdrom_irq_active>>
  /\ RefreshCopies

Write_I_MASK(mask) ==
  /\ i_mask' = mask
  /\ UNCHANGED <<i_stat, cdrom_irq_active>>
  /\ RefreshCopies

(* Compiled code that knows the address writes the register and nothing    *)
(* else: the copies stay, and a line the CD-ROM holds is not raised again. *)
InlineIStat(keep) ==
  /\ i_stat' = i_stat \cap keep
  /\ UNCHANGED <<i_mask, irq_pending, irq_pending_fast, sr, cause_ip2, cdrom_irq_active, chainVars>>
InlineIMask(mask) ==
  /\ i_mask' = mask
  /\ UNCHANGED <<i_stat, irq_pending, irq_pending_fast, sr, cause_ip2, cdrom_irq_active, chainVars>>

-----------------------------------------------------------------------------
\* Mutant of SetStatus: the copy does not follow the enables.
SetStatusKeepsCopy(s) ==
  /\ sr' = s
  /\ UNCHANGED <<lineVars, cause_ip2, cdrom_irq_active, chainVars>>

(* MTC0 and RFE: a change of the enables changes irq_pending_fast.         *)
SetStatus(s) ==
  /\ sr' = s
  /\ irq_pending_fast' = (irq_pending /\ s.c)
  /\ UNCHANGED <<i_stat, i_mask, irq_pending, cause_ip2, cdrom_irq_active, chainVars>>
MTC0(s) == SetStatus(s)
RFE == SetStatus([sr EXCEPT !.c = sr.p, !.p = sr.o])

Pushed == [sr EXCEPT !.c = FALSE, !.p = sr.c, !.o = sr.p]

(* PSX_Exception from guest code: SYSCALL, BREAK, overflow, a coprocessor  *)
(* that is off.  The block is left at the next check.                      *)
GuestException ==
  /\ sr' = Pushed
  /\ aborted' = TRUE
  /\ UNCHANGED <<lineVars, cause_ip2, cdrom_irq_active, at, initial, cycles_left, correction, spent, accounted>>

-----------------------------------------------------------------------------
(* run_jit_chain: a budget, the blocks, and the cycles they took.          *)
StartChain(budget) ==
  /\ at = "start"
  /\ at' = "chain" /\ aborted' = FALSE
  /\ initial' = budget /\ cycles_left' = budget /\ correction' = 0 /\ spent' = 0 /\ accounted' = 0
  /\ UNCHANGED <<lineVars, sr, cause_ip2, cdrom_irq_active>>

(* A block: it runs to its end whatever is left.  Only a block that calls  *)
(* C tests irq_pending_fast at its end.                                    *)
RunBlock(cycles) ==
  /\ in_chain /\ ~aborted
  /\ cycles_left > 0 \/ spent = 0
  /\ cycles_left' = cycles_left - cycles
  /\ spent' = spent + cycles
  /\ UNCHANGED <<lineVars, sr, cause_ip2, cdrom_irq_active, at, aborted, initial, correction, accounted>>

CyclesTaken ==
  LET taken == initial - cycles_left
      net == IF correction > 0 THEN (IF correction < taken THEN taken - correction ELSE 1) ELSE taken
  IN  IF net = 0 THEN 8 ELSE net

EndChain ==
  /\ in_chain /\ spent > 0
  /\ cycles_left <= 0 \/ irq_pending_fast \/ aborted
  /\ at' = "tick" /\ aborted' = FALSE
  /\ accounted' = CyclesTaken - spent
  /\ UNCHANGED <<lineVars, sr, cause_ip2, cdrom_irq_active, initial, cycles_left, correction, spent>>

(* PSX_Exception(0): without a handler the interrupt is ignored, but the   *)
(* status register stays as it was pushed.                                 *)
TakeIrq ==
  /\ CheckInterrupts /\ sr.c /\ sr.im2
  /\ irq_pending' = FALSE /\ irq_pending_fast' = FALSE
  /\ cause_ip2' = TRUE
  /\ sr' = Pushed
  /\ UNCHANGED <<i_stat, i_mask>>
IrqMasked ==
  /\ CheckInterrupts /\ ~(sr.c /\ sr.im2)
  /\ cause_ip2' = TRUE
  /\ UNCHANGED <<lineVars, sr>>
NothingPending ==
  /\ ~CheckInterrupts
  /\ cause_ip2' = FALSE
  /\ irq_pending' = FALSE /\ irq_pending_fast' = FALSE
  /\ UNCHANGED <<i_stat, i_mask, sr>>

\* Mutant of sync_hardware_and_interrupts: the copy decides.
sync_from_copy ==
  /\ at = "tick" /\ at' = "start"
  /\ IF irq_pending THEN TakeIrq \/ IrqMasked ELSE UNCHANGED <<lineVars, sr, cause_ip2>>
  /\ UNCHANGED <<cdrom_irq_active, aborted, initial, cycles_left, correction, spent, accounted>>

sync_hardware_and_interrupts ==
  /\ at = "tick" /\ at' = "start"
  /\ TakeIrq \/ IrqMasked \/ NothingPending
  /\ UNCHANGED <<cdrom_irq_active, aborted, initial, cycles_left, correction, spent, accounted>>

-----------------------------------------------------------------------------
(* Devices raise interrupts while the guest touches their registers and    *)
(* in the callbacks of due events.                                         *)
IntDevice ==
  /\ at \in {"chain", "tick"}
  /\ (\E irq \in Irqs \ {CdIrq} : SignalInterrupt(irq)) \/ (\E active \in BOOLEAN : CdLine(active))

IntGuest ==
  /\ in_chain /\ ~aborted
  /\ \/ \E keep \in SUBSET Irqs : Write_I_STAT(keep)
     \/ \E mask \in SUBSET Irqs : Write_I_MASK(mask)
     \/ \E keep \in SUBSET Irqs : InlineIStat(keep) \/ InlineIMask(keep)
     \/ \E c, im2 \in BOOLEAN : MTC0([sr EXCEPT !.c = c, !.im2 = im2])
     \/ RFE
     \/ GuestException

IntLoop ==
  \/ \E n \in 1 .. MaxBudget : StartChain(n)
  \/ \E n \in 1 .. 2 : RunBlock(n)
  \/ EndChain
  \/ sync_hardware_and_interrupts

IntNext == IntDevice \/ IntGuest \/ IntLoop

IntSpec == IntInit /\ [][IntNext]_intVars

(* Run_CPU never waits.                                                    *)
IntFairness ==
  /\ WF_intVars(\E n \in 1 .. MaxBudget : StartChain(n))
  /\ WF_intVars(\E n \in 1 .. 2 : RunBlock(n))
  /\ WF_intVars(EndChain) /\ WF_intVars(sync_hardware_and_interrupts)

-----------------------------------------------------------------------------
LineTypeOK ==
  /\ i_stat \subseteq Irqs /\ i_mask \subseteq Irqs
  /\ irq_pending \in BOOLEAN /\ irq_pending_fast \in BOOLEAN
  /\ cause_ip2 \in BOOLEAN /\ cdrom_irq_active \in BOOLEAN /\ aborted \in BOOLEAN
  /\ sr \in [c : BOOLEAN, p : BOOLEAN, o : BOOLEAN, im2 : BOOLEAN]
BudgetTypeOK ==
  /\ at \in {"start", "chain", "tick"}
  /\ initial \in 0 .. MaxBudget /\ cycles_left \in -2 .. MaxBudget
  /\ correction \in 0 .. MaxBudget /\ spent \in 0 .. MaxBudget + 2
IntTypeOK == LineTypeOK /\ BudgetTypeOK

(* However I_STAT, I_MASK and the enables are written, inlined or not, an  *)
(* interrupt known to be pending is never hidden from code that enables    *)
(* interrupts in the middle of a chain, and the copy that compiled code    *)
(* tests claims none that is not.                                          *)
CopiesAgree ==
  /\ irq_pending_fast => irq_pending
  /\ irq_pending /\ sr.c => irq_pending_fast

(* A chain cut short by an interrupt accounts for the cycles it ran, no    *)
(* more and no less.                                                       *)
TimeAccounted == accounted = 0

(* Wherever the chain is cut, what ran, what is left and what was cut off  *)
(* make up the budget: the part that makes TimeAccounted inductive.        *)
BudgetTracks ==
  /\ spent = initial - cycles_left - correction
  /\ spent = 0 => cycles_left >= 0
IntIInv == IntTypeOK /\ CopiesAgree /\ BudgetTracks /\ TimeAccounted

(* The copies of the line and the cycle count survive every early exit.    *)
ChainsAreExact == IntTypeOK /\ CopiesAgree /\ TimeAccounted

(* An interrupt that the guest has enabled and does not take away is       *)
(* taken, also after a handler returned without acknowledging it.          *)
Deliverable == CheckInterrupts /\ sr.c /\ sr.im2
EnabledIsTaken == []<>~Deliverable
=============================================================================
