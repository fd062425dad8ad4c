------------------------------- MODULE Cdrom -------------------------------
(***************************************************************************)
(* The CD-ROM controller of src/cdrom.c as the guest drives it: a command  *)
(* is answered by a first response that a scheduler event delivers later   *)
(* (deferred), some commands also by a second one (pending), and a read    *)
(* streams sectors, each announced by INT1.  Every delivery raises         *)
(* int_flag at once and the CPU's interrupt line (I_STAT bit 2) by one     *)
(* more event.  Responses, acknowledgements, masks and events interleave.  *)
(*                                                                         *)
(* The four scheduler slots are timers: cycles left, or Off.  The delays   *)
(* are scaled down and keep their order.  A response is the interrupt it   *)
(* carries and, for INT1, the sector it announces; its bytes, the status   *)
(* byte and the parameter FIFO are left out, and what a command makes of   *)
(* its parameters is a free choice.                                        *)
(***************************************************************************)
EXTENDS Integers

CONSTANTS Commands,         \* the kinds of command the guest uses
          WaitsForAnswer,   \* the guest sends a command only when all is quiet
          DiscPresent,      \* CDROM_InsertDisc was called at start-up
          Masks,            \* values the guest writes to int_enable
          AckValues,        \* values the guest writes to int_flag (val & 7)
          MaxLba,           \* bound: last sector streamed
          PregapLba,        \* PREGAP_LBA: where Init leaves the head
          DiscMaxLba,       \* DISC_MAX_LBA: seeks at or past it fail
          FifoLen,          \* ISO_SECTOR_SIZE in the units data is read
          IrqDelay,         \* 800
          DeferredDelay,    \* 4000
          HandshakeDelay,   \* 200
          PendingDelays,    \* PENDING_DELAY_*, or 200 with cdrom_fast
          SeekDelay,        \* 10000000
          ReadDelay1X, ReadDelay2X,
          FirstSectorFactor \* 30: the first sector after Setloc

CommandKinds == {"Simple", "Getloc", "Setloc", "Play", "SetMode", "Read", "TwoPart",
                 "Stop", "Init", "Seek"}
IntTypes == 1 .. 5
Slots == {"CDROM", "DEFERRED", "IRQ", "PENDING"}
Off == -1
NoLba == -1
Lbas == 0 .. MaxLba

ASSUME CdromAssumption ==
  /\ Commands \subseteq CommandKinds
  /\ WaitsForAnswer \in BOOLEAN /\ DiscPresent \in BOOLEAN
  /\ Masks \subseteq SUBSET IntTypes
  /\ AckValues \subseteq 0 .. 7
  /\ MaxLba \in Nat /\ DiscMaxLba \in Nat /\ PregapLba \in Lbas
  /\ FifoLen \in Nat \ {0} /\ FirstSectorFactor \in Nat \ {0}
  /\ IrqDelay \in Nat \ {0} /\ HandshakeDelay \in Nat \ {0}
  /\ DeferredDelay \in Nat \ {0} /\ SeekDelay \in Nat \ {0}
  /\ PendingDelays \subseteq Nat \ {0}
  /\ ReadDelay1X \in Nat /\ ReadDelay2X \in Nat
  /\ DeferredDelay < ReadDelay2X \div 2
  /\ ReadDelay2X <= ReadDelay1X

VARIABLES index,
          int_enable, int_flag, cdrom_irq_active,
          i_stat2,               \* bit 2 of I_STAT
          flag_lba,              \* sector the raised INT1 announces, or NoLba
          busy,
          deferred,              \* first response; int 0 when has_deferred = 0
          pending_int,           \* 0 when has_pending = 0
          pending_left,          \* cycles until pending_deadline
          unread,                \* the response FIFO is not empty
          fifo_lba, fifo_left,   \* the sector in the data FIFO and what is left of it
          setloc_lba, cur_lba, has_loc_header, seek_error, location_changed,
          speed2x,               \* mode bit 7
          reading, seek_pending,
          timer

lineVars == <<int_enable, int_flag, cdrom_irq_active, i_stat2, flag_lba>>
pendVars == <<pending_int, pending_left>>
fifoVars == <<fifo_lba, fifo_left>>
headVars == <<setloc_lba, cur_lba, has_loc_header, seek_error, location_changed>>
driveVars == <<reading, seek_pending>>
vars == <<index, lineVars, busy, deferred, pendVars, unread, fifoVars, headVars, speed2x, driveVars, timer>>

has_deferred == deferred.int # 0
has_pending == pending_int # 0
Armed(e) == timer[e] # Off
NoResponse == [int |-> 0, lba |-> NoLba]

(* CDROM_Init, and no command sent yet.                                    *)
Init ==
  /\ index = 0
  /\ int_enable = {} /\ int_flag = 0 /\ cdrom_irq_active = FALSE /\ i_stat2 = FALSE
  /\ flag_lba = NoLba
  /\ busy = FALSE /\ deferred = NoResponse
  /\ pending_int = 0 /\ pending_left = 0
  /\ unread = FALSE /\ fifo_lba = NoLba /\ fifo_left = 0
  /\ setloc_lba = 0 /\ cur_lba = 0 /\ has_loc_header = FALSE /\ seek_error = FALSE
  /\ location_changed = FALSE /\ speed2x = FALSE
  /\ reading = FALSE /\ seek_pending = FALSE
  /\ timer = [e \in Slots |-> Off]

cdrom_read_delay == IF speed2x THEN ReadDelay2X ELSE ReadDelay1X

cdrom_irq_should_signal(flag, enable) == flag # 0 /\ flag \in enable

-----------------------------------------------------------------------------
(* cdrom_execute_command.  Every command queues a first response and goes  *)
(* busy; the commands differ in what they do to the drive.                 *)
Quiet == ~busy /\ int_flag = 0 /\ ~has_pending

Accept(c, int) ==
  /\ c \in Commands
  /\ index = 0
  /\ WaitsForAnswer => Quiet
  /\ deferred' = [int |-> int, lba |-> NoLba]
  /\ busy' = TRUE
  /\ UNCHANGED <<index, lineVars, unread, fifoVars>>

ArmFirst == timer' = [timer EXCEPT !["DEFERRED"] = DeferredDelay]

\* Mutant of cdrom_queue_pending: the response is ready at once.
cdrom_queue_pending_at_once(int) == pending_int' = int /\ pending_left' = 0

cdrom_queue_pending(int) ==
  /\ pending_int' = int
  /\ pending_left' \in PendingDelays

(* GetStat, Mute, Demute, SetFilter, GetParam, GetTN, GetTD, Test, and an  *)
(* unknown command or track, answered by INT5.                             *)
CmdSimple ==
  /\ \E int \in {3, 5} : Accept("Simple", int)
  /\ ArmFirst
  /\ UNCHANGED <<pendVars, headVars, speed2x, driveVars>>

CmdGetloc ==
  /\ \/ Accept("Getloc", IF ~has_loc_header \/ seek_error THEN 5 ELSE 3)   \* GetlocL
     \/ Accept("Getloc", IF seek_error THEN 5 ELSE 3)                      \* GetlocP
  /\ ArmFirst
  /\ UNCHANGED <<pendVars, headVars, speed2x, driveVars>>

CmdSetloc(lba) ==
  /\ Accept("Setloc", 3)
  /\ setloc_lba' = lba
  /\ location_changed' = TRUE
  /\ ArmFirst
  /\ UNCHANGED <<pendVars, cur_lba, has_loc_header, seek_error, speed2x, driveVars>>

CmdPlay ==
  /\ Accept("Play", 3)
  /\ cur_lba' = setloc_lba
  /\ ArmFirst
  /\ UNCHANGED <<pendVars, setloc_lba, has_loc_header, seek_error, location_changed, speed2x, driveVars>>

CmdSetMode ==
  /\ Accept("SetMode", 3)
  /\ speed2x' \in BOOLEAN
  /\ ArmFirst
  /\ UNCHANGED <<pendVars, headVars, driveVars>>

(* ReadN, ReadS.                                                           *)
CmdRead ==
  /\ Accept("Read", 3)
  /\ cur_lba' = setloc_lba
  /\ reading' = TRUE /\ seek_pending' = TRUE
  /\ has_loc_header' = TRUE /\ seek_error' = FALSE
  /\ timer' = [timer EXCEPT !["DEFERRED"] = DeferredDelay, !["CDROM"] = SeekDelay]
  /\ UNCHANGED <<pendVars, setloc_lba, location_changed, speed2x>>

(* MotorOn, ReadTOC, GetID.                                                *)
CmdTwoPart ==
  /\ Accept("TwoPart", 3)
  /\ \E int \in IF DiscPresent THEN {2} ELSE {2, 5} : cdrom_queue_pending(int)
  /\ ArmFirst
  /\ UNCHANGED <<headVars, speed2x, driveVars>>

(* Stop, Pause.                                                            *)
CmdStop ==
  /\ Accept("Stop", 3)
  /\ reading' = FALSE
  /\ cdrom_queue_pending(2)
  /\ ArmFirst
  /\ UNCHANGED <<headVars, speed2x, seek_pending>>

CmdInit ==
  /\ Accept("Init", 3)
  /\ reading' = FALSE
  /\ seek_error' = FALSE
  /\ cur_lba' = IF has_loc_header THEN PregapLba ELSE cur_lba
  /\ cdrom_queue_pending(2)
  /\ ArmFirst
  /\ UNCHANGED <<setloc_lba, has_loc_header, location_changed, speed2x, seek_pending>>

(* SeekL, SeekP.                                                           *)
CmdSeek ==
  /\ Accept("Seek", 3)
  /\ \/ /\ setloc_lba >= DiscMaxLba
        /\ seek_error' = TRUE
        /\ cdrom_queue_pending(5)
        /\ UNCHANGED <<cur_lba, has_loc_header>>
     \/ /\ setloc_lba < DiscMaxLba
        /\ cur_lba' = setloc_lba
        /\ has_loc_header' = TRUE
        /\ seek_error' = FALSE
        /\ cdrom_queue_pending(2)
  /\ ArmFirst
  /\ UNCHANGED <<setloc_lba, location_changed, speed2x, driveVars>>

Command ==
  \/ CmdSimple \/ CmdGetloc \/ CmdPlay \/ CmdSetMode \/ CmdRead
  \/ \E lba \in Lbas : CmdSetloc(lba)
  \/ CmdTwoPart \/ CmdStop \/ CmdInit \/ CmdSeek

-----------------------------------------------------------------------------
(* The other registers.                                                    *)
WriteIndex(i) ==
  /\ index' = i
  /\ UNCHANGED <<lineVars, busy, deferred, pendVars, unread, fifoVars, headVars, speed2x, driveVars, timer>>

(* int_enable: fires an interrupt only if its delay has not run out yet.   *)
WriteIntEnable(mask) ==
  /\ index = 1
  /\ int_enable' = mask
  /\ IF cdrom_irq_should_signal(int_flag, mask) /\ ~cdrom_irq_active
       THEN cdrom_irq_active' = TRUE /\ i_stat2' = TRUE
       ELSE UNCHANGED <<cdrom_irq_active, i_stat2>>
  /\ UNCHANGED <<index, int_flag, flag_lba, busy, deferred, pendVars, unread, fifoVars, headVars, speed2x, driveVars, timer>>

(* Request register without bit 7: the data FIFO is emptied.               *)
ClearData ==
  /\ index = 0
  /\ fifo_lba' = NoLba
  /\ fifo_left' = 0
  /\ UNCHANGED <<index, lineVars, busy, deferred, pendVars, unread, headVars, speed2x, driveVars, timer>>

(* int_flag & ~(val & 7), bit by bit.                                      *)
ClearBits(flag, val) ==
  (IF (val \div 4) % 2 = 1 THEN 0 ELSE 4 * ((flag \div 4) % 2))
    + (IF (val \div 2) % 2 = 1 THEN 0 ELSE 2 * ((flag \div 2) % 2))
    + (IF val % 2 = 1 THEN 0 ELSE flag % 2)

\* Mutant of WriteAck: the pending delivery is scheduled by the command only.
WriteAckForgetsPending(val) ==
  LET left == ClearBits(int_flag, val) IN
  /\ index = 1
  /\ int_flag' = left
  /\ cdrom_irq_active' = (left # 0 /\ cdrom_irq_active)
  /\ flag_lba' = IF left = 0 THEN NoLba ELSE flag_lba
  /\ timer' = [timer EXCEPT !["IRQ"] = IF left = 0 THEN Off ELSE @]
  /\ UNCHANGED <<index, int_enable, i_stat2, busy, deferred, pendVars, unread, fifoVars, headVars, speed2x, driveVars>>

\* Mutant of WriteAck: the signal of an acknowledged interrupt is not cancelled.
WriteAckLeavesSignal(val) ==
  LET left == ClearBits(int_flag, val)
      arms == left = 0 /\ has_pending
  IN /\ index = 1
     /\ int_flag' = left
     /\ cdrom_irq_active' = (left # 0 /\ cdrom_irq_active)
     /\ flag_lba' = IF left = 0 THEN NoLba ELSE flag_lba
     /\ timer' = [timer EXCEPT
          !["PENDING"] = IF ~arms THEN @ ELSE IF pending_left = 0 THEN HandshakeDelay ELSE pending_left]
     /\ UNCHANGED <<index, int_enable, i_stat2, busy, deferred, pendVars, unread, fifoVars, headVars, speed2x, driveVars>>

WriteAck(val) ==
  LET left == ClearBits(int_flag, val)
      arms == left = 0 /\ has_pending
  IN /\ index = 1
     /\ int_flag' = left
     /\ cdrom_irq_active' = (left # 0 /\ cdrom_irq_active)
     /\ flag_lba' = IF left = 0 THEN NoLba ELSE flag_lba
     /\ timer' = [timer EXCEPT
          !["IRQ"] = IF left = 0 THEN Off ELSE @,
          !["PENDING"] = IF ~arms THEN @ ELSE IF pending_left = 0 THEN HandshakeDelay ELSE pending_left]
     /\ UNCHANGED <<index, int_enable, i_stat2, busy, deferred, pendVars, unread, fifoVars, headVars, speed2x, driveVars>>

(* The response FIFO, one byte; how many there are is left open.           *)
ReadResponse ==
  /\ unread
  /\ unread' \in BOOLEAN
  /\ UNCHANGED <<index, lineVars, busy, deferred, pendVars, fifoVars, headVars, speed2x, driveVars, timer>>

(* The data FIFO, by the CPU or by DMA channel 3.                          *)
CDROM_ReadDataFIFO(count) ==
  /\ fifo_left > 0
  /\ fifo_left' = IF count > fifo_left THEN 0 ELSE fifo_left - count
  /\ UNCHANGED <<index, lineVars, busy, deferred, pendVars, unread, fifo_lba, headVars, speed2x, driveVars, timer>>

(* hardware.c: the guest writes I_STAT, keeping bit 2 or acknowledging it; *)
(* an active interrupt sets it again, masked or not.                       *)
WriteIStat(keep) ==
  /\ i_stat2' = ((i_stat2 /\ keep) \/ cdrom_irq_active)
  /\ UNCHANGED <<index, int_enable, int_flag, cdrom_irq_active, flag_lba, busy, deferred, pendVars, unread, fifoVars, headVars, speed2x, driveVars, timer>>

Guest ==
  \/ Command
  \/ \E i \in 0 .. 1 : WriteIndex(i)
  \/ \E mask \in Masks : WriteIntEnable(mask)
  \/ ClearData
  \/ \E val \in AckValues : WriteAck(val)
  \/ ReadResponse
  \/ \E count \in 1 .. FifoLen : CDROM_ReadDataFIFO(count)
  \/ \E keep \in BOOLEAN : WriteIStat(keep)

-----------------------------------------------------------------------------
(* The scheduler serves due slots in the order of their ids.               *)
Rank(e) == CASE e = "CDROM" -> 1 [] e = "DEFERRED" -> 2 [] e = "IRQ" -> 3 [] e = "PENDING" -> 4

Fires(e) == timer[e] = 0 /\ \A f \in Slots : timer[f] = 0 => Rank(e) <= Rank(f)

(* CDROM_EventCallback.                                                    *)
ReadAborted ==
  /\ Fires("CDROM") /\ ~reading
  /\ timer' = [timer EXCEPT !["CDROM"] = Off]
  /\ UNCHANGED <<index, lineVars, busy, deferred, pendVars, unread, fifoVars, headVars, speed2x, driveVars>>

SeekDone ==
  /\ Fires("CDROM") /\ reading /\ seek_pending
  /\ seek_pending' = FALSE
  /\ timer' = [timer EXCEPT !["CDROM"] = cdrom_read_delay]
  /\ UNCHANGED <<index, lineVars, busy, deferred, pendVars, unread, fifoVars, headVars, speed2x, reading>>

\* Mutant of SectorBlocks: a sector is delivered over an unacknowledged interrupt.
SectorNeverBlocks == has_pending

SectorBlocks == int_flag # 0 \/ has_pending

\* Mutant of SectorWaits: the blocked read is not rescheduled.
SectorWaitsForever ==
  /\ Fires("CDROM") /\ reading /\ ~seek_pending
  /\ SectorBlocks
  /\ timer' = [timer EXCEPT !["CDROM"] = Off]
  /\ UNCHANGED <<index, lineVars, busy, deferred, pendVars, unread, fifoVars, headVars, speed2x, driveVars>>

SectorWaits ==
  /\ Fires("CDROM") /\ reading /\ ~seek_pending
  /\ SectorBlocks
  /\ timer' = [timer EXCEPT !["CDROM"] = cdrom_read_delay \div 2]
  /\ UNCHANGED <<index, lineVars, busy, deferred, pendVars, unread, fifoVars, headVars, speed2x, driveVars>>

SectorReady ==
  /\ Fires("CDROM") /\ reading /\ ~seek_pending
  /\ ~SectorBlocks
  /\ cur_lba < MaxLba
  /\ fifo_lba' = cur_lba
  /\ fifo_left' = FifoLen
  /\ deferred' = [int |-> 1, lba |-> cur_lba]
  /\ busy' = TRUE
  /\ cur_lba' = cur_lba + 1
  /\ location_changed' = FALSE
  /\ timer' = [timer EXCEPT
       !["DEFERRED"] = DeferredDelay,
       !["CDROM"] = cdrom_read_delay * (IF location_changed THEN FirstSectorFactor ELSE 1)]
  /\ UNCHANGED <<index, lineVars, pendVars, unread, setloc_lba, has_loc_header, seek_error, speed2x, driveVars>>

\* Mutant of CDROM_DeferredCallback: the busy bit is left set.
DeferredCallbackStaysBusy ==
  /\ Fires("DEFERRED")
  /\ int_flag' = deferred.int
  /\ flag_lba' = deferred.lba
  /\ deferred' = NoResponse
  /\ unread' = TRUE
  /\ cdrom_irq_active' = FALSE
  /\ timer' = [timer EXCEPT !["DEFERRED"] = Off, !["IRQ"] = IrqDelay]
  /\ UNCHANGED <<index, int_enable, i_stat2, busy, pendVars, fifoVars, headVars, speed2x, driveVars>>

(* cdrom_deliver_deferred: it does not look at int_flag.                   *)
CDROM_DeferredCallback ==
  /\ Fires("DEFERRED")
  /\ int_flag' = deferred.int
  /\ flag_lba' = deferred.lba
  /\ deferred' = NoResponse
  /\ busy' = FALSE
  /\ unread' = TRUE
  /\ cdrom_irq_active' = FALSE
  /\ timer' = [timer EXCEPT !["DEFERRED"] = Off, !["IRQ"] = IrqDelay]
  /\ UNCHANGED <<index, int_enable, i_stat2, pendVars, fifoVars, headVars, speed2x, driveVars>>

CDROM_PendingCallback ==
  /\ Fires("PENDING")
  /\ \/ /\ has_pending /\ int_flag = 0
        /\ int_flag' = pending_int
        /\ flag_lba' = NoLba
        /\ pending_int' = 0 /\ pending_left' = 0
        /\ unread' = TRUE
        /\ cdrom_irq_active' = FALSE
        /\ timer' = [timer EXCEPT !["PENDING"] = Off, !["IRQ"] = IrqDelay]
     \/ /\ ~(has_pending /\ int_flag = 0)
        /\ timer' = [timer EXCEPT !["PENDING"] = Off]
        /\ UNCHANGED <<int_flag, flag_lba, pendVars, unread, cdrom_irq_active>>
  /\ UNCHANGED <<index, int_enable, i_stat2, busy, deferred, fifoVars, headVars, speed2x, driveVars>>

CDROM_DeferredIRQActivate ==
  /\ Fires("IRQ")
  /\ cdrom_irq_active' = TRUE
  /\ i_stat2' = (i_stat2 \/ cdrom_irq_should_signal(int_flag, int_enable))
  /\ timer' = [timer EXCEPT !["IRQ"] = Off]
  /\ UNCHANGED <<index, int_enable, int_flag, flag_lba, busy, deferred, pendVars, unread, fifoVars, headVars, speed2x, driveVars>>

Event ==
  \/ ReadAborted \/ SeekDone \/ SectorWaits \/ SectorReady
  \/ CDROM_DeferredCallback \/ CDROM_PendingCallback \/ CDROM_DeferredIRQActivate

(* Time passes while no slot is due.                                       *)
Advance ==
  /\ \A e \in Slots : timer[e] # 0
  /\ pending_left > 0 \/ \E e \in Slots : Armed(e)
  /\ timer' = [e \in Slots |-> IF timer[e] = Off THEN Off ELSE timer[e] - 1]
  /\ pending_left' = IF pending_left > 0 THEN pending_left - 1 ELSE 0
  /\ UNCHANGED <<index, lineVars, busy, deferred, pending_int, unread, fifoVars, headVars, speed2x, driveVars>>

Next == Guest \/ Event \/ Advance

Spec == Init /\ [][Next]_vars

(* Emulated time never stops and events are served.  The guest's interrupt *)
(* handler selects index 1 and acknowledges; whatever else the guest does  *)
(* to the index, its handler runs to the end at some point.                *)
HandlerSelects == int_flag # 0 /\ index # 1 /\ WriteIndex(1)
HandlerAcks == int_flag # 0 /\ WriteAck(7)

FairSpec ==
  /\ Spec
  /\ WF_vars(Event) /\ WF_vars(Advance)
  /\ WF_vars(HandlerSelects) /\ SF_vars(HandlerAcks)

-----------------------------------------------------------------------------
TypeOK ==
  /\ index \in 0 .. 1
  /\ int_enable \subseteq IntTypes
  /\ int_flag \in 0 .. 7
  /\ cdrom_irq_active \in BOOLEAN /\ i_stat2 \in BOOLEAN
  /\ flag_lba \in Lbas \cup {NoLba}
  /\ busy \in BOOLEAN
  /\ deferred \in [int : 0 .. 5, lba : Lbas \cup {NoLba}]
  /\ pending_int \in 0 .. 5 /\ pending_left \in Nat
  /\ unread \in BOOLEAN
  /\ fifo_lba \in Lbas \cup {NoLba} /\ fifo_left \in 0 .. FifoLen
  /\ setloc_lba \in Lbas /\ cur_lba \in Lbas
  /\ has_loc_header \in BOOLEAN /\ seek_error \in BOOLEAN /\ location_changed \in BOOLEAN
  /\ speed2x \in BOOLEAN /\ reading \in BOOLEAN /\ seek_pending \in BOOLEAN
  /\ timer \in [Slots -> Nat \cup {Off}]

(* An unacknowledged interrupt is on the line or on its way to it, and     *)
(* nothing is on its way when none is: an acknowledgement cancels the      *)
(* signal, every delivery schedules one.                                   *)
LineFollowsFlag ==
  (int_flag # 0) <=> (cdrom_irq_active \/ Armed("IRQ"))

(* The controller is busy exactly while a first response waits for its     *)
(* event ("Stay busy until response is delivered"): it can not stay busy   *)
(* with nothing coming.                                                    *)
BusyUntilDelivered ==
  /\ busy <=> has_deferred
  /\ has_deferred <=> Armed("DEFERRED")

(* A second response is never stranded: its event is armed, or an          *)
(* interrupt is outstanding or coming whose acknowledgement will arm it,   *)
(* also when its event found another interrupt unacknowledged.             *)
SecondNotStranded ==
  has_pending => Armed("PENDING") \/ int_flag # 0 \/ has_deferred

(* A read never stalls: its event is armed as long as it reads, whatever   *)
(* was paused, re-issued or blocked in between.                            *)
StreamAlive == reading => Armed("CDROM")

(* The data FIFO holds the sector an unacknowledged INT1 announced, unless *)
(* the guest emptied it.                                                   *)
FifoIsAnnounced == flag_lba # NoLba => fifo_lba \in {flag_lba, NoLba}

(* What makes it inductive: a sector waiting to be announced is in the     *)
(* FIFO, and its announcement comes before the next sector.                *)
AnnouncementFirst ==
  /\ flag_lba # NoLba => int_flag # 0
  /\ deferred.lba # NoLba =>
       /\ has_deferred /\ reading /\ timer["DEFERRED"] < timer["CDROM"]
       /\ fifo_lba \in {deferred.lba, NoLba}

IInv ==
  /\ TypeOK
  /\ LineFollowsFlag
  /\ BusyUntilDelivered
  /\ SecondNotStranded
  /\ StreamAlive
  /\ FifoIsAnnounced
  /\ AnnouncementFirst

(* A guest that waits sees a command's second response only after the      *)
(* first one was delivered.                                                *)
SecondAfterFirst ==
  [][CDROM_PendingCallback /\ int_flag' # int_flag => ~has_deferred]_vars

(* A sector is not overwritten before its INT1 was delivered: a response   *)
(* waiting to be delivered is not replaced by another one.                 *)
FirstResponseDelivered ==
  [][has_deferred /\ deferred' # deferred => CDROM_DeferredCallback]_vars

(* Every second response arrives at a guest that acknowledges what it sees *)
(* and does not acknowledge nothing for ever: each such write starts the   *)
(* wait anew.                                                              *)
IdleAck == int_flag = 0 /\ \E val \in AckValues : WriteAck(val)
SecondArrives == <>[][~IdleAck]_vars => (has_pending ~> ~has_pending)
=============================================================================
