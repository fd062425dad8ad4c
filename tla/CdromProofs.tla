---------------------------- MODULE CdromProofs ----------------------------
(***************************************************************************)
(* Proofs that the invariants of Cdrom hold for every choice of commands,  *)
(* masks, acknowledgements, delays and sectors that CdromAssumption        *)
(* allows, whether or not the guest waits for its answers; the last one is *)
(* about a guest that does.                                                *)
(***************************************************************************)
EXTENDS Cdrom, TLAPS

(* The parts of the invariant that relate the queues, flags and timers.    *)
Queues ==
  /\ LineFollowsFlag
  /\ BusyUntilDelivered
  /\ SecondNotStranded
  /\ StreamAlive
  /\ FifoIsAnnounced
  /\ AnnouncementFirst

(* int_flag & ~val stays a value of the three-bit register.                *)
LEMMA ClearBitsType ==
  ASSUME NEW flag \in 0 .. 7, NEW val \in 0 .. 7
  PROVE  ClearBits(flag, val) \in 0 .. 7
BY DEF ClearBits

(* The invariant is the typing and the queues.                             *)
LEMMA InvSplit == IInv <=> TypeOK /\ Queues
BY DEF IInv, Queues

(* The controller starts with nothing queued, raised or armed.             *)
LEMMA InitInv == Init => IInv
<1> SUFFICES ASSUME Init PROVE TypeOK /\ Queues
  BY InvSplit
<1>1. TypeOK
  <2>1. timer \in [Slots -> Nat \cup {Off}]
    BY DEF Init
  <2>2. deferred \in [int : 0 .. 5, lba : Lbas \cup {NoLba}]
    BY DEF Init, NoResponse
  <2>3. /\ flag_lba \in Lbas \cup {NoLba} /\ fifo_lba \in Lbas \cup {NoLba}
        /\ setloc_lba \in Lbas /\ cur_lba \in Lbas /\ fifo_left \in 0 .. FifoLen
    BY CdromAssumption DEF Init, Lbas
  <2>4. /\ index \in 0 .. 1 /\ int_enable \subseteq IntTypes /\ int_flag \in 0 .. 7
        /\ pending_int \in 0 .. 5 /\ pending_left \in Nat
    BY DEF Init
  <2>5. /\ cdrom_irq_active \in BOOLEAN /\ i_stat2 \in BOOLEAN
        /\ busy \in BOOLEAN /\ unread \in BOOLEAN
        /\ has_loc_header \in BOOLEAN /\ seek_error \in BOOLEAN /\ location_changed \in BOOLEAN
        /\ speed2x \in BOOLEAN /\ reading \in BOOLEAN /\ seek_pending \in BOOLEAN
    BY DEF Init
  <2>6. QED
    BY <2>1, <2>2, <2>3, <2>4, <2>5 DEF TypeOK
<1>2. Queues
  BY DEF Init, Queues, LineFollowsFlag, BusyUntilDelivered, SecondNotStranded, StreamAlive,
         FifoIsAnnounced, AnnouncementFirst, Armed, NoResponse, Slots, Off, NoLba,
         has_deferred, has_pending
<1>3. QED
  BY <1>1, <1>2

-----------------------------------------------------------------------------
(* Whatever a command does to the drive, a response that is queued with    *)
(* its event armed, on an untouched interrupt line and data FIFO, keeps    *)
(* the queues in order.                                                    *)
LEMMA AcceptQueues ==
  ASSUME TypeOK, Queues, NEW int \in {3, 5},
         deferred' = [int |-> int, lba |-> NoLba], busy' = TRUE,
         UNCHANGED lineVars, UNCHANGED fifoVars,
         timer'["DEFERRED"] = DeferredDelay, timer'["IRQ"] = timer["IRQ"],
         reading' => timer'["CDROM"] # Off
  PROVE  Queues'
BY CdromAssumption
DEF TypeOK, Queues, LineFollowsFlag, BusyUntilDelivered, SecondNotStranded, StreamAlive,
    FifoIsAnnounced, AnnouncementFirst, Armed, Off, NoLba, has_deferred, has_pending,
    lineVars, fifoVars

(* A command that is accepted leaves the common variables well typed.      *)
LEMMA AcceptType ==
  ASSUME TypeOK, NEW c, NEW int \in {3, 5}, Accept(c, int)
  PROVE  /\ deferred' = [int |-> int, lba |-> NoLba] /\ busy' = TRUE
         /\ UNCHANGED <<lineVars, fifoVars, index, unread>>
         /\ deferred' \in [int : 0 .. 5, lba : Lbas \cup {NoLba}]
BY DEF Accept

(* Arming the first response, or that and the seek, keeps the timers typed. *)
LEMMA ArmFirstType ==
  ASSUME TypeOK, ArmFirst
  PROVE  /\ timer' \in [Slots -> Nat \cup {Off}]
         /\ timer'["DEFERRED"] = DeferredDelay
         /\ timer'["IRQ"] = timer["IRQ"] /\ timer'["CDROM"] = timer["CDROM"]
BY CdromAssumption DEF TypeOK, ArmFirst, Slots

(* A second response is an interrupt with its delay.                       *)
LEMMA QueuePendingType ==
  ASSUME NEW int \in {2, 5}, cdrom_queue_pending(int)
  PROVE  pending_int' \in 0 .. 5 /\ pending_left' \in Nat
BY CdromAssumption DEF cdrom_queue_pending

(* Every command preserves the invariant.                                  *)
LEMMA CommandInv == IInv /\ Command => IInv'
<1> SUFFICES ASSUME TypeOK, Queues, Command PROVE TypeOK' /\ Queues'
  BY InvSplit DEF IInv, Queues
<1> DEFINE Parts == <<lineVars, fifoVars, index, unread>>
<1>0. StreamAlive /\ (reading => timer["CDROM"] # Off)
  BY DEF Queues, StreamAlive, Armed
<1>1. CASE CmdSimple
  <2>1. PICK int \in {3, 5} : Accept("Simple", int)
    BY <1>1 DEF CmdSimple
  <2>2. ArmFirst /\ UNCHANGED <<pendVars, headVars, speed2x, driveVars>>
    BY <1>1 DEF CmdSimple
  <2>3. TypeOK'
    <3>1. /\ UNCHANGED <<lineVars, fifoVars, index, unread>>
          /\ busy' = TRUE
          /\ deferred' \in [int : 0 .. 5, lba : Lbas \cup {NoLba}]
      BY <2>1, AcceptType
    <3>2. timer' \in [Slots -> Nat \cup {Off}]
      BY <2>2, ArmFirstType
    <3>3. QED
      BY <2>2, <3>1, <3>2 DEF TypeOK, lineVars, pendVars, fifoVars, headVars, driveVars
  <2>4. Queues'
    BY <1>0, <2>1, <2>2, AcceptType, ArmFirstType, AcceptQueues DEF driveVars
  <2>5. QED
    BY <2>3, <2>4
<1>2. CASE CmdGetloc
  <2>1. PICK int \in {3, 5} : Accept("Getloc", int)
    BY <1>2 DEF CmdGetloc
  <2>2. ArmFirst /\ UNCHANGED <<pendVars, headVars, speed2x, driveVars>>
    BY <1>2 DEF CmdGetloc
  <2>3. TypeOK'
    <3>1. /\ UNCHANGED <<lineVars, fifoVars, index, unread>>
          /\ busy' = TRUE
          /\ deferred' \in [int : 0 .. 5, lba : Lbas \cup {NoLba}]
      BY <2>1, AcceptType
    <3>2. timer' \in [Slots -> Nat \cup {Off}]
      BY <2>2, ArmFirstType
    <3>3. QED
      BY <2>2, <3>1, <3>2 DEF TypeOK, lineVars, pendVars, fifoVars, headVars, driveVars
  <2>4. Queues'
    BY <1>0, <2>1, <2>2, AcceptType, ArmFirstType, AcceptQueues DEF driveVars
  <2>5. QED
    BY <2>3, <2>4
<1>3. CASE CmdPlay
  <2>1. Accept("Play", 3) /\ ArmFirst
    BY <1>3 DEF CmdPlay
  <2>2. TypeOK'
    BY <1>3, <2>1, AcceptType, ArmFirstType, ZenonT(60)
    DEF CmdPlay, TypeOK, lineVars, pendVars, fifoVars, driveVars
  <2>3. Queues'
    BY <1>0, <1>3, <2>1, AcceptType, ArmFirstType, AcceptQueues DEF CmdPlay, driveVars
  <2>4. QED
    BY <2>2, <2>3
<1>4. CASE CmdSetMode
  <2>1. Accept("SetMode", 3) /\ ArmFirst
    BY <1>4 DEF CmdSetMode
  <2>2. TypeOK'
    BY <1>4, <2>1, AcceptType, ArmFirstType, ZenonT(60)
    DEF CmdSetMode, TypeOK, lineVars, pendVars, fifoVars, headVars, driveVars
  <2>3. Queues'
    BY <1>0, <1>4, <2>1, AcceptType, ArmFirstType, AcceptQueues DEF CmdSetMode, driveVars
  <2>4. QED
    BY <2>2, <2>3
<1>5. CASE CmdRead
  <2>1. Accept("Read", 3)
    BY <1>5 DEF CmdRead
  <2>2. /\ timer' \in [Slots -> Nat \cup {Off}]
        /\ timer'["DEFERRED"] = DeferredDelay
        /\ timer'["IRQ"] = timer["IRQ"] /\ timer'["CDROM"] # Off
    BY <1>5, CdromAssumption DEF CmdRead, TypeOK, Slots, Off
  <2>3. TypeOK'
    BY <1>5, <2>1, <2>2, AcceptType DEF CmdRead, TypeOK, lineVars, pendVars, fifoVars
  <2>4. Queues'
    BY <2>1, <2>2, AcceptType, AcceptQueues
  <2>5. QED
    BY <2>3, <2>4
<1>6. CASE \E lba \in Lbas : CmdSetloc(lba)
  <2>1. Accept("Setloc", 3) /\ ArmFirst
    BY <1>6 DEF CmdSetloc
  <2>2. TypeOK'
    <3>1. /\ UNCHANGED <<lineVars, fifoVars, index, unread>>
          /\ busy' = TRUE
          /\ deferred' \in [int : 0 .. 5, lba : Lbas \cup {NoLba}]
      BY <2>1, AcceptType
    <3>2. timer' \in [Slots -> Nat \cup {Off}]
      BY <2>1, ArmFirstType
    <3>3. QED
      BY <1>6, <3>1, <3>2 DEF CmdSetloc, TypeOK, lineVars, pendVars, fifoVars, driveVars
  <2>3. Queues'
    <3>1. reading' = reading
      BY <1>6 DEF CmdSetloc, driveVars
    <3>2. QED
      BY <1>0, <2>1, <3>1, AcceptType, ArmFirstType, AcceptQueues
  <2>4. QED
    BY <2>2, <2>3
<1>7. CASE CmdTwoPart
  <2>1. Accept("TwoPart", 3) /\ ArmFirst
    BY <1>7 DEF CmdTwoPart
  <2>2. TypeOK'
    BY <1>7, <2>1, AcceptType, ArmFirstType, QueuePendingType, ZenonT(60)
    DEF CmdTwoPart, TypeOK, lineVars, fifoVars, headVars, driveVars
  <2>3. Queues'
    BY <1>0, <1>7, <2>1, AcceptType, ArmFirstType, AcceptQueues DEF CmdTwoPart, driveVars
  <2>4. QED
    BY <2>2, <2>3
<1>8. CASE CmdStop
  <2>1. Accept("Stop", 3) /\ ArmFirst
    BY <1>8 DEF CmdStop
  <2>2. TypeOK'
    BY <1>8, <2>1, AcceptType, ArmFirstType, QueuePendingType, ZenonT(60)
    DEF CmdStop, TypeOK, lineVars, fifoVars, headVars
  <2>3. Queues'
    BY <1>8, <2>1, AcceptType, ArmFirstType, AcceptQueues DEF CmdStop
  <2>4. QED
    BY <2>2, <2>3
<1>9. CASE CmdInit
  <2>1. Accept("Init", 3) /\ ArmFirst
    BY <1>9 DEF CmdInit
  <2>2. TypeOK'
    BY <1>9, <2>1, AcceptType, ArmFirstType, QueuePendingType, CdromAssumption
    DEF CmdInit, TypeOK, lineVars, fifoVars
  <2>3. Queues'
    BY <1>9, <2>1, AcceptType, ArmFirstType, AcceptQueues DEF CmdInit
  <2>4. QED
    BY <2>2, <2>3
<1>10. CASE CmdSeek
  <2>1. Accept("Seek", 3) /\ ArmFirst
    BY <1>10 DEF CmdSeek
  <2>2. TypeOK'
    BY <1>10, <2>1, AcceptType, ArmFirstType, QueuePendingType, ZenonT(60)
    DEF CmdSeek, TypeOK, lineVars, fifoVars, driveVars
  <2>3. Queues'
    BY <1>0, <1>10, <2>1, AcceptType, ArmFirstType, AcceptQueues DEF CmdSeek, driveVars
  <2>4. QED
    BY <2>2, <2>3
<1>11. QED
  BY <1>1, <1>2, <1>3, <1>4, <1>5, <1>6, <1>7, <1>8, <1>9, <1>10 DEF Command

-----------------------------------------------------------------------------
(* The other register accesses preserve the invariant.                     *)
LEMMA RegisterInv ==
  ASSUME TypeOK, Queues,
         \/ \E i \in 0 .. 1 : WriteIndex(i)
         \/ \E mask \in Masks : WriteIntEnable(mask)
         \/ ClearData
         \/ ReadResponse
         \/ \E count \in 1 .. FifoLen : CDROM_ReadDataFIFO(count)
         \/ \E keep \in BOOLEAN : WriteIStat(keep)
  PROVE  TypeOK' /\ Queues'
<1>1. CASE \E i \in 0 .. 1 : WriteIndex(i)
  BY <1>1
  DEF WriteIndex, TypeOK, Queues, LineFollowsFlag, BusyUntilDelivered, SecondNotStranded, StreamAlive,
      FifoIsAnnounced, AnnouncementFirst, Armed, has_deferred, has_pending,
      lineVars, pendVars, fifoVars, headVars, driveVars
<1>2. CASE \E mask \in Masks : WriteIntEnable(mask)
  <2>1. PICK mask \in Masks : WriteIntEnable(mask)
    BY <1>2
  <2>2. mask \subseteq IntTypes
    BY CdromAssumption
  <2>3. cdrom_irq_active' \in BOOLEAN /\ i_stat2' \in BOOLEAN
    BY <2>1 DEF WriteIntEnable, TypeOK
  <2>4. TypeOK'
    BY <2>1, <2>2, <2>3 DEF WriteIntEnable, TypeOK, pendVars, fifoVars, headVars, driveVars
  <2>5. (int_flag # 0) <=> (cdrom_irq_active' \/ Armed("IRQ"))
    BY <2>1 DEF WriteIntEnable, Queues, LineFollowsFlag, cdrom_irq_should_signal
  <2>6. Queues'
    BY <2>1, <2>5
    DEF WriteIntEnable, Queues, LineFollowsFlag, BusyUntilDelivered, SecondNotStranded, StreamAlive,
        FifoIsAnnounced, AnnouncementFirst, Armed, has_deferred, has_pending,
        pendVars, fifoVars, headVars, driveVars
  <2>7. QED
    BY <2>4, <2>6
<1>3. CASE ClearData
  <2>1. TypeOK'
    BY <1>3, CdromAssumption DEF ClearData, TypeOK, lineVars, pendVars, headVars, driveVars
  <2>2. Queues'
    BY <1>3
    DEF ClearData, Queues, LineFollowsFlag, BusyUntilDelivered, SecondNotStranded, StreamAlive,
        FifoIsAnnounced, AnnouncementFirst, Armed, has_deferred, has_pending,
        lineVars, pendVars, headVars, driveVars
  <2>3. QED
    BY <2>1, <2>2
<1>4. CASE ReadResponse
  BY <1>4
  DEF ReadResponse, TypeOK, Queues, LineFollowsFlag, BusyUntilDelivered, SecondNotStranded, StreamAlive,
      FifoIsAnnounced, AnnouncementFirst, Armed, has_deferred, has_pending,
      lineVars, pendVars, fifoVars, headVars, driveVars
<1>5. CASE \E count \in 1 .. FifoLen : CDROM_ReadDataFIFO(count)
  <2>1. PICK count \in 1 .. FifoLen : CDROM_ReadDataFIFO(count)
    BY <1>5
  <2>2. fifo_left' \in 0 .. FifoLen
    BY <2>1, CdromAssumption DEF CDROM_ReadDataFIFO, TypeOK
  <2>3. TypeOK'
    BY <2>1, <2>2 DEF CDROM_ReadDataFIFO, TypeOK, lineVars, pendVars, headVars, driveVars
  <2>4. Queues'
    BY <2>1
    DEF CDROM_ReadDataFIFO, Queues, LineFollowsFlag, BusyUntilDelivered, SecondNotStranded,
        StreamAlive, FifoIsAnnounced, AnnouncementFirst, Armed, has_deferred, has_pending,
        lineVars, pendVars, headVars, driveVars
  <2>5. QED
    BY <2>3, <2>4
<1>6. CASE \E keep \in BOOLEAN : WriteIStat(keep)
  <2>1. PICK keep \in BOOLEAN : WriteIStat(keep)
    BY <1>6
  <2>2. i_stat2' \in BOOLEAN
    BY <2>1 DEF WriteIStat
  <2>3. TypeOK'
    BY <2>1, <2>2 DEF WriteIStat, TypeOK, pendVars, fifoVars, headVars, driveVars
  <2>4. Queues'
    BY <2>1
    DEF WriteIStat, Queues, LineFollowsFlag, BusyUntilDelivered, SecondNotStranded, StreamAlive,
        FifoIsAnnounced, AnnouncementFirst, Armed, has_deferred, has_pending,
        pendVars, fifoVars, headVars, driveVars
  <2>5. QED
    BY <2>3, <2>4
<1>7. QED
  BY <1>1, <1>2, <1>3, <1>4, <1>5, <1>6

(* An acknowledgement cancels the signal and arms the second response.     *)
LEMMA AckInv ==
  ASSUME TypeOK, Queues, NEW val \in AckValues, WriteAck(val)
  PROVE  TypeOK' /\ Queues'
<1> DEFINE left == ClearBits(int_flag, val)
<1>1. left \in 0 .. 7
  BY ClearBitsType, CdromAssumption DEF TypeOK
<1>2. /\ timer' \in [Slots -> Nat \cup {Off}]
      /\ timer'["CDROM"] = timer["CDROM"] /\ timer'["DEFERRED"] = timer["DEFERRED"]
      /\ timer'["IRQ"] = IF left = 0 THEN Off ELSE timer["IRQ"]
      /\ left = 0 /\ has_pending => timer'["PENDING"] # Off
  BY CdromAssumption DEF WriteAck, TypeOK, Slots, Off
<1>3. cdrom_irq_active' \in BOOLEAN
  BY DEF WriteAck
<1> HIDE DEF left
<1>4. /\ int_flag' = left
      /\ cdrom_irq_active' = (left # 0 /\ cdrom_irq_active)
      /\ flag_lba' = (IF left = 0 THEN NoLba ELSE flag_lba)
      /\ UNCHANGED <<index, int_enable, i_stat2, busy, deferred, pendVars, unread, fifoVars, headVars, speed2x, driveVars>>
  BY DEF WriteAck, left
<1>5. left # 0 => int_flag # 0
  BY DEF ClearBits, left
<1>6. TypeOK'
  BY <1>1, <1>2, <1>3, <1>4 DEF TypeOK, pendVars, fifoVars, headVars, driveVars
<1>7. Queues'
  <2>1. LineFollowsFlag'
    BY <1>2, <1>4, <1>5 DEF Queues, LineFollowsFlag, Armed
  <2>2. BusyUntilDelivered' /\ StreamAlive'
    BY <1>2, <1>4 DEF Queues, BusyUntilDelivered, StreamAlive, Armed, has_deferred, driveVars
  <2>3. SecondNotStranded'
    BY <1>2, <1>4 DEF Queues, SecondNotStranded, Armed, has_deferred, has_pending, pendVars
  <2>4. FifoIsAnnounced' /\ AnnouncementFirst'
    BY <1>2, <1>4 DEF Queues, FifoIsAnnounced, AnnouncementFirst, has_deferred, fifoVars, driveVars
  <2>5. QED
    BY <2>1, <2>2, <2>3, <2>4 DEF Queues
<1>8. QED
  BY <1>6, <1>7

-----------------------------------------------------------------------------
(* The delays with which a sector is scheduled are positive, and longer    *)
(* than the delay of its announcement.                                     *)
LEMMA ReadDelays ==
  ASSUME TypeOK
  PROVE  /\ cdrom_read_delay \in Nat /\ cdrom_read_delay \div 2 \in Nat
         /\ DeferredDelay < cdrom_read_delay \div 2
         /\ cdrom_read_delay \div 2 <= cdrom_read_delay
BY CdromAssumption DEF cdrom_read_delay

(* A longer factor keeps the order.                                        *)
LEMMA ScaledDelay ==
  ASSUME NEW d \in Nat, NEW m \in Nat, NEW k \in Nat \ {0}, m < d
  PROVE  d * k \in Nat /\ m < d * k
BY Z3

(* CDROM_EventCallback preserves the invariant.                            *)
LEMMA SectorInv ==
  ASSUME TypeOK, Queues, ReadAborted \/ SeekDone \/ SectorWaits \/ SectorReady
  PROVE  TypeOK' /\ Queues'
<1>0. /\ timer["CDROM"] = 0 /\ Fires("CDROM")
      /\ deferred.lba = NoLba
  <2>1. Fires("CDROM") /\ timer["CDROM"] = 0
    BY DEF ReadAborted, SeekDone, SectorWaits, SectorReady, Fires
  <2>2. timer["DEFERRED"] \in Nat \cup {Off}
    BY DEF TypeOK, Slots
  <2>3. deferred.lba # NoLba => has_deferred /\ timer["DEFERRED"] # Off
    BY DEF Queues, AnnouncementFirst, BusyUntilDelivered, Armed, TypeOK, has_deferred
  <2>4. QED
    BY <2>1, <2>2, <2>3 DEF Queues, AnnouncementFirst, Off
<1>1. CASE ReadAborted
  <2>1. timer' \in [Slots -> Nat \cup {Off}]
    BY <1>1 DEF ReadAborted, TypeOK
  <2>2. TypeOK'
    BY <1>1, <2>1 DEF ReadAborted, TypeOK, lineVars, pendVars, fifoVars, headVars, driveVars
  <2>3. \A e \in Slots \ {"CDROM"} : timer'[e] = timer[e]
    BY <1>1 DEF ReadAborted, TypeOK
  <2>4. Queues'
    BY <1>0, <1>1, <2>3
    DEF ReadAborted, Queues, LineFollowsFlag, BusyUntilDelivered, SecondNotStranded, StreamAlive,
        FifoIsAnnounced, AnnouncementFirst, Armed, Slots, has_deferred, has_pending,
        lineVars, pendVars, fifoVars, headVars, driveVars
  <2>5. QED
    BY <2>2, <2>4
<1>2. CASE SeekDone \/ SectorWaits
  <2>1. PICK d \in Nat : timer' = [timer EXCEPT !["CDROM"] = d]
    BY <1>2, ReadDelays DEF SeekDone, SectorWaits
  <2>2. /\ timer' \in [Slots -> Nat \cup {Off}] /\ timer'["CDROM"] = d
        /\ \A e \in Slots \ {"CDROM"} : timer'[e] = timer[e]
    BY <2>1 DEF TypeOK, Slots
  <2>3. /\ UNCHANGED <<index, lineVars, busy, deferred, pendVars, unread, fifoVars, headVars, speed2x, reading>>
        /\ seek_pending' \in BOOLEAN
    BY <1>2 DEF SeekDone, SectorWaits, driveVars, TypeOK
  <2>4. TypeOK'
    BY <2>2, <2>3 DEF TypeOK, lineVars, pendVars, fifoVars, headVars
  <2>5. d # Off
    BY DEF Off
  <2>6. Queues'
    BY <1>0, <2>2, <2>3, <2>5
    DEF Queues, LineFollowsFlag, BusyUntilDelivered, SecondNotStranded, StreamAlive,
        FifoIsAnnounced, AnnouncementFirst, Armed, Slots, has_deferred, has_pending,
        lineVars, pendVars, fifoVars
  <2>7. QED
    BY <2>4, <2>6
<1>3. CASE SectorReady
  <2> DEFINE d == cdrom_read_delay * (IF location_changed THEN FirstSectorFactor ELSE 1)
  <2>1. d \in Nat /\ DeferredDelay < d
    <3>1. DeferredDelay < cdrom_read_delay /\ cdrom_read_delay \in Nat /\ DeferredDelay \in Nat
      BY ReadDelays, CdromAssumption
    <3>2. CASE location_changed
      BY <3>1, <3>2, ScaledDelay, CdromAssumption
    <3>3. CASE ~location_changed
      BY <3>1, <3>3
    <3>4. QED
      BY <3>2, <3>3
  <2>2. timer' = [timer EXCEPT !["DEFERRED"] = DeferredDelay, !["CDROM"] = d]
    BY <1>3 DEF SectorReady
  <2> HIDE DEF d
  <2>3. /\ timer' \in [Slots -> Nat \cup {Off}]
        /\ timer'["CDROM"] = d /\ timer'["DEFERRED"] = DeferredDelay /\ timer'["IRQ"] = timer["IRQ"]
    BY <2>1, <2>2, CdromAssumption DEF TypeOK, Slots
  <2>4. /\ cur_lba \in Lbas /\ cur_lba' \in Lbas /\ fifo_lba' = cur_lba /\ fifo_left' \in 0 .. FifoLen
        /\ cur_lba # NoLba
    BY <1>3, CdromAssumption DEF SectorReady, TypeOK, Lbas, NoLba
  <2>5. /\ deferred' = [int |-> 1, lba |-> cur_lba] /\ busy' = TRUE /\ reading' = TRUE
        /\ int_flag = 0 /\ ~has_pending
        /\ UNCHANGED <<index, lineVars, pendVars, unread, setloc_lba, has_loc_header, seek_error, speed2x, driveVars>>
        /\ location_changed' \in BOOLEAN
    BY <1>3 DEF SectorReady, SectorBlocks, driveVars, TypeOK
  <2>6. deferred' \in [int : 0 .. 5, lba : Lbas \cup {NoLba}]
    BY <2>4, <2>5
  <2>7. TypeOK'
    BY <2>3, <2>4, <2>5, <2>6 DEF TypeOK, lineVars, pendVars, driveVars
  <2>8. Queues'
    BY <2>1, <2>3, <2>4, <2>5, CdromAssumption
    DEF Queues, LineFollowsFlag, BusyUntilDelivered, SecondNotStranded, StreamAlive,
        FifoIsAnnounced, AnnouncementFirst, Armed, Off, has_deferred, has_pending, lineVars, pendVars
  <2>9. QED
    BY <2>7, <2>8
<1>4. QED
  BY <1>1, <1>2, <1>3

(* Delivering the first response raises its interrupt and arms the signal. *)
LEMMA DeferredInv ==
  ASSUME TypeOK, Queues, CDROM_DeferredCallback
  PROVE  TypeOK' /\ Queues'
<1>1. has_deferred
  BY DEF CDROM_DeferredCallback, Fires, Queues, BusyUntilDelivered, Armed, Off
<1>2. /\ timer' \in [Slots -> Nat \cup {Off}]
      /\ timer'["DEFERRED"] = Off /\ timer'["IRQ"] = IrqDelay
      /\ timer'["CDROM"] = timer["CDROM"] /\ timer'["PENDING"] = timer["PENDING"]
  BY CdromAssumption DEF CDROM_DeferredCallback, TypeOK, Slots
<1>3. deferred.int \in 1 .. 5 /\ deferred.lba \in Lbas \cup {NoLba}
  BY <1>1 DEF TypeOK, has_deferred
<1>4. NoResponse \in [int : 0 .. 5, lba : Lbas \cup {NoLba}] /\ NoResponse.int = 0 /\ NoResponse.lba = NoLba
  BY DEF NoResponse
<1>5. TypeOK'
  <2>1. /\ int_flag' \in 0 .. 7 /\ flag_lba' \in Lbas \cup {NoLba}
        /\ deferred' \in [int : 0 .. 5, lba : Lbas \cup {NoLba}]
    BY <1>3, <1>4 DEF CDROM_DeferredCallback
  <2>2. busy' \in BOOLEAN /\ unread' \in BOOLEAN /\ cdrom_irq_active' \in BOOLEAN
    BY DEF CDROM_DeferredCallback
  <2>3. UNCHANGED <<index, int_enable, i_stat2, pendVars, fifoVars, headVars, speed2x, driveVars>>
    BY DEF CDROM_DeferredCallback
  <2>4. QED
    BY <1>2, <2>1, <2>2, <2>3 DEF TypeOK, pendVars, fifoVars, headVars, driveVars
<1>6. Queues'
  BY <1>2, <1>3, <1>4, CdromAssumption
  DEF CDROM_DeferredCallback, Queues, LineFollowsFlag, BusyUntilDelivered, SecondNotStranded,
      StreamAlive, FifoIsAnnounced, AnnouncementFirst, Armed, Off, has_deferred, has_pending,
      pendVars, fifoVars, driveVars
<1>7. QED
  BY <1>5, <1>6

(* Delivering the second response, or finding the line taken.              *)
LEMMA PendingInv ==
  ASSUME TypeOK, Queues, CDROM_PendingCallback
  PROVE  TypeOK' /\ Queues'
<1>1. CASE has_pending /\ int_flag = 0
  <2>1. /\ timer' \in [Slots -> Nat \cup {Off}]
        /\ timer'["PENDING"] = Off /\ timer'["IRQ"] = IrqDelay
        /\ timer'["CDROM"] = timer["CDROM"] /\ timer'["DEFERRED"] = timer["DEFERRED"]
    BY <1>1, CdromAssumption DEF CDROM_PendingCallback, TypeOK, Slots
  <2>2. /\ int_flag' = pending_int /\ flag_lba' = NoLba /\ pending_int' = 0 /\ pending_left' = 0
        /\ unread' = TRUE /\ cdrom_irq_active' = FALSE
        /\ UNCHANGED <<index, int_enable, i_stat2, busy, deferred, fifoVars, headVars, speed2x, driveVars>>
    BY <1>1 DEF CDROM_PendingCallback
  <2>3. pending_int \in 1 .. 5
    BY <1>1 DEF TypeOK, has_pending
  <2>4. TypeOK'
    <3>1. /\ int_flag' \in 0 .. 7 /\ flag_lba' \in Lbas \cup {NoLba}
          /\ pending_int' \in 0 .. 5 /\ pending_left' \in Nat
      BY <2>2, <2>3
    <3>2. unread' \in BOOLEAN /\ cdrom_irq_active' \in BOOLEAN
      BY <2>2
    <3>3. QED
      BY <2>1, <2>2, <3>1, <3>2 DEF TypeOK, fifoVars, headVars, driveVars
  <2>5. Queues'
    BY <2>1, <2>2, <2>3, CdromAssumption
    DEF Queues, LineFollowsFlag, BusyUntilDelivered, SecondNotStranded, StreamAlive,
        FifoIsAnnounced, AnnouncementFirst, Armed, Off, has_deferred, has_pending,
        fifoVars, driveVars
  <2>6. QED
    BY <2>4, <2>5
<1>2. CASE ~(has_pending /\ int_flag = 0)
  <2>1. /\ timer' \in [Slots -> Nat \cup {Off}] /\ timer'["IRQ"] = timer["IRQ"]
        /\ timer'["CDROM"] = timer["CDROM"] /\ timer'["DEFERRED"] = timer["DEFERRED"]
    BY <1>2 DEF CDROM_PendingCallback, TypeOK, Slots
  <2>2. /\ UNCHANGED <<int_flag, flag_lba, pendVars, unread, cdrom_irq_active>>
        /\ UNCHANGED <<index, int_enable, i_stat2, busy, deferred, fifoVars, headVars, speed2x, driveVars>>
    BY <1>2 DEF CDROM_PendingCallback
  <2>3. TypeOK'
    BY <2>1, <2>2 DEF TypeOK, pendVars, fifoVars, headVars, driveVars
  <2>4. Queues'
    BY <1>2, <2>1, <2>2
    DEF Queues, LineFollowsFlag, BusyUntilDelivered, SecondNotStranded, StreamAlive,
        FifoIsAnnounced, AnnouncementFirst, Armed, has_deferred, has_pending,
        pendVars, fifoVars, driveVars
  <2>5. QED
    BY <2>3, <2>4
<1>3. QED
  BY <1>1, <1>2

(* The signal reaches the line.                                            *)
LEMMA ActivateInv ==
  ASSUME TypeOK, Queues, CDROM_DeferredIRQActivate
  PROVE  TypeOK' /\ Queues'
<1>1. /\ timer' \in [Slots -> Nat \cup {Off}] /\ timer'["PENDING"] = timer["PENDING"]
      /\ timer'["CDROM"] = timer["CDROM"] /\ timer'["DEFERRED"] = timer["DEFERRED"]
  BY DEF CDROM_DeferredIRQActivate, TypeOK, Slots
<1>2. i_stat2' \in BOOLEAN /\ cdrom_irq_active' = TRUE
  BY DEF CDROM_DeferredIRQActivate
<1>3. int_flag # 0
  BY DEF CDROM_DeferredIRQActivate, Fires, Queues, LineFollowsFlag, Armed, Off
<1>4. UNCHANGED <<index, int_enable, int_flag, flag_lba, busy, deferred, pendVars, unread, fifoVars, headVars, speed2x, driveVars>>
  BY DEF CDROM_DeferredIRQActivate
<1>5. TypeOK'
  BY <1>1, <1>2, <1>4 DEF TypeOK, pendVars, fifoVars, headVars, driveVars
<1>6. Queues'
  BY <1>1, <1>2, <1>3, <1>4
  DEF Queues, LineFollowsFlag, BusyUntilDelivered, SecondNotStranded, StreamAlive,
      FifoIsAnnounced, AnnouncementFirst, Armed, has_deferred, has_pending,
      pendVars, fifoVars, driveVars
<1>7. QED
  BY <1>5, <1>6

(* Time passes for all timers alike.                                       *)
LEMMA AdvanceInv ==
  ASSUME TypeOK, Queues, Advance
  PROVE  TypeOK' /\ Queues'
<1>1. \A e \in Slots : /\ timer[e] \in Nat \cup {Off} /\ timer[e] # 0
                       /\ timer'[e] = IF timer[e] = Off THEN Off ELSE timer[e] - 1
  BY DEF Advance, TypeOK
<1>2. timer' \in [Slots -> Nat \cup {Off}]
  <2>1. \A e \in Slots : (IF timer[e] = Off THEN Off ELSE timer[e] - 1) \in Nat \cup {Off}
    BY <1>1 DEF Off
  <2>2. QED
    BY <2>1 DEF Advance
<1>3. \A e \in Slots : timer'[e] = Off <=> timer[e] = Off
  BY <1>1 DEF Off
<1>4. timer["DEFERRED"] < timer["CDROM"] /\ timer["DEFERRED"] # Off
        => timer'["DEFERRED"] < timer'["CDROM"]
  BY <1>1 DEF Slots, Off
<1>5. pending_left' \in Nat
  BY DEF Advance, TypeOK
<1>6. UNCHANGED <<index, lineVars, busy, deferred, pending_int, unread, fifoVars, headVars, speed2x, driveVars>>
  BY DEF Advance
<1>7. TypeOK'
  BY <1>2, <1>5, <1>6 DEF TypeOK, lineVars, fifoVars, headVars, driveVars
<1>8. deferred.lba # NoLba => timer["DEFERRED"] # Off
  BY <1>1 DEF Queues, AnnouncementFirst, BusyUntilDelivered, StreamAlive, Armed, Slots, Off, TypeOK
<1>9. Queues'
  BY <1>3, <1>4, <1>6, <1>8
  DEF Queues, LineFollowsFlag, BusyUntilDelivered, SecondNotStranded, StreamAlive,
      FifoIsAnnounced, AnnouncementFirst, Armed, Slots, has_deferred, has_pending,
      lineVars, fifoVars, driveVars
<1>10. QED
  BY <1>7, <1>9

-----------------------------------------------------------------------------
(* Every step preserves the invariant.                                     *)
LEMMA NextInv == IInv /\ [Next]_vars => IInv'
<1> SUFFICES ASSUME IInv, [Next]_vars PROVE IInv'
  OBVIOUS
<1>0. TypeOK /\ Queues
  BY InvSplit
<1>1. CASE Command
  BY <1>1, CommandInv
<1>2. CASE \/ \E i \in 0 .. 1 : WriteIndex(i)
           \/ \E mask \in Masks : WriteIntEnable(mask)
           \/ ClearData
           \/ ReadResponse
           \/ \E count \in 1 .. FifoLen : CDROM_ReadDataFIFO(count)
           \/ \E keep \in BOOLEAN : WriteIStat(keep)
  <2>1. TypeOK' /\ Queues'
    BY <1>0, <1>2, RegisterInv
  <2>2. QED
    BY <2>1 DEF IInv, Queues
<1>3. CASE \E val \in AckValues : WriteAck(val)
  <2>1. TypeOK' /\ Queues'
    BY <1>0, <1>3, AckInv
  <2>2. QED
    BY <2>1 DEF IInv, Queues
<1>4. CASE Event \/ Advance
  <2>1. TypeOK' /\ Queues'
    BY <1>0, <1>4, SectorInv, DeferredInv, PendingInv, ActivateInv, AdvanceInv DEF Event
  <2>2. QED
    BY <2>1 DEF IInv, Queues
<1>5. CASE UNCHANGED vars
  BY <1>5
  DEF vars, IInv, TypeOK, LineFollowsFlag, BusyUntilDelivered, SecondNotStranded, StreamAlive,
      FifoIsAnnounced, AnnouncementFirst, Armed, has_deferred, has_pending,
      lineVars, pendVars, fifoVars, headVars, driveVars
<1>6. QED
  BY <1>1, <1>2, <1>3, <1>4, <1>5 DEF Next, Guest

(* The inductive invariant holds in every reachable state.                 *)
THEOREM Invariance == Spec => []IInv
BY InitInv, NextInv, PTL DEF Spec

(* Every variable of the controller keeps its type.                        *)
THEOREM TypeCorrect == Spec => []TypeOK
<1>1. IInv => TypeOK
  BY DEF IInv
<1>2. QED
  BY <1>1, Invariance, PTL

(* An interrupt is outstanding exactly while its signal is on the line or  *)
(* on its way (cdrom_irq_active and SCHED_EVENT_CDROM_IRQ).                *)
THEOREM LineIsExact == Spec => []LineFollowsFlag
<1>1. IInv => LineFollowsFlag
  BY DEF IInv
<1>2. QED
  BY <1>1, Invariance, PTL

(* The controller is never busy without a response on its way, whatever    *)
(* commands, sectors and acknowledgements cross.                           *)
THEOREM NeverBusyForNothing == Spec => []BusyUntilDelivered
<1>1. IInv => BusyUntilDelivered
  BY DEF IInv
<1>2. QED
  BY <1>1, Invariance, PTL

(* A second response is never left behind with nothing to deliver it.      *)
THEOREM NeverStranded == Spec => []SecondNotStranded
<1>1. IInv => SecondNotStranded
  BY DEF IInv
<1>2. QED
  BY <1>1, Invariance, PTL

(* A read in progress always has its next event scheduled.                 *)
THEOREM NeverStalled == Spec => []StreamAlive
<1>1. IInv => StreamAlive
  BY DEF IInv
<1>2. QED
  BY <1>1, Invariance, PTL

(* While INT1 is unacknowledged the data FIFO is not overwritten.          *)
THEOREM AnnouncedSectorKept == Spec => []FifoIsAnnounced
<1>1. IInv => FifoIsAnnounced
  BY DEF IInv
<1>2. QED
  BY <1>1, Invariance, PTL

-----------------------------------------------------------------------------
(* For a guest that waits: an armed second response exists, and is due     *)
(* after the first one, by its own deadline and by its event's.            *)
FirstDueFirst ==
  /\ Armed("PENDING") => has_pending
  /\ has_pending /\ has_deferred =>
       /\ timer["DEFERRED"] < pending_left
       /\ Armed("PENDING") => timer["DEFERRED"] < timer["PENDING"]

(* A command is sent with no second response left over.                    *)
LEMMA CommandInOrder ==
  ASSUME IInv, FirstDueFirst, WaitsForAnswer, \A d \in PendingDelays : DeferredDelay < d, Command
  PROVE  FirstDueFirst'
<1>1. ~has_pending /\ timer["PENDING"] = Off
  <2>1. Quiet
    BY DEF Command, CmdSimple, CmdGetloc, CmdSetloc, CmdPlay, CmdSetMode, CmdRead, CmdTwoPart, CmdStop, CmdInit,
           CmdSeek, Accept
  <2> QED BY <2>1 DEF Quiet, FirstDueFirst, Armed
<1>2. timer'["DEFERRED"] = DeferredDelay /\ timer'["PENDING"] = Off
  BY <1>1 DEF Command, CmdSimple, CmdGetloc, CmdSetloc, CmdPlay, CmdSetMode, CmdRead, CmdTwoPart, CmdStop, CmdInit,
              CmdSeek, ArmFirst, IInv, TypeOK, Slots
<1>3. UNCHANGED pendVars \/ pending_left' \in PendingDelays
  BY DEF Command, CmdSimple, CmdGetloc, CmdSetloc, CmdPlay, CmdSetMode, CmdRead, CmdTwoPart, CmdStop, CmdInit,
         CmdSeek, cdrom_queue_pending
<1> QED BY <1>1, <1>2, <1>3 DEF FirstDueFirst, Armed, has_pending, pendVars

(* An acknowledgement arms the second response no earlier than its         *)
(* deadline, unless that has passed.                                       *)
LEMMA AckInOrder ==
  ASSUME IInv, FirstDueFirst, NEW val \in AckValues, WriteAck(val)
  PROVE  FirstDueFirst'
<1> DEFINE arms == ClearBits(int_flag, val) = 0 /\ has_pending
           due == IF pending_left = 0 THEN HandshakeDelay ELSE pending_left
<1>1. /\ timer'["DEFERRED"] = timer["DEFERRED"]
      /\ timer'["PENDING"] = IF arms THEN due ELSE timer["PENDING"]
  BY DEF WriteAck, IInv, TypeOK, Slots
<1>2. UNCHANGED <<deferred, pendVars>>
  BY DEF WriteAck
<1>3. has_deferred => timer["DEFERRED"] \in Nat
  BY DEF IInv, BusyUntilDelivered, Armed, TypeOK, Slots
<1>4. pending_left \in Nat
  BY DEF IInv, TypeOK
<1> HIDE DEF arms
<1>5. arms => has_pending
  BY DEF arms
<1>6. has_pending /\ has_deferred => pending_left # 0
  BY <1>3, <1>4 DEF FirstDueFirst
<1> QED BY <1>1, <1>2, <1>5, <1>6 DEF FirstDueFirst, Armed, has_pending, has_deferred, pendVars

LEMMA EventInOrder ==
  ASSUME IInv, FirstDueFirst, Event \/ Advance
  PROVE  FirstDueFirst'
<1>1. CASE ReadAborted \/ SeekDone \/ SectorWaits \/ CDROM_DeferredIRQActivate
  <2>1. timer'["DEFERRED"] = timer["DEFERRED"] /\ timer'["PENDING"] = timer["PENDING"]
    BY <1>1 DEF ReadAborted, SeekDone, SectorWaits, CDROM_DeferredIRQActivate, IInv, TypeOK, Slots
  <2>2. UNCHANGED <<deferred, pendVars>>
    BY <1>1 DEF ReadAborted, SeekDone, SectorWaits, CDROM_DeferredIRQActivate
  <2> QED BY <2>1, <2>2 DEF FirstDueFirst, Armed, has_pending, has_deferred, pendVars
<1>2. CASE SectorReady
  <2>1. ~has_pending /\ UNCHANGED pendVars /\ timer'["PENDING"] = timer["PENDING"]
    BY <1>2 DEF SectorReady, SectorBlocks, IInv, TypeOK, Slots
  <2> QED BY <2>1 DEF FirstDueFirst, Armed, has_pending, pendVars
<1>3. CASE CDROM_DeferredCallback
  <2>1. ~has_deferred' /\ UNCHANGED pendVars /\ timer'["PENDING"] = timer["PENDING"]
    BY <1>3 DEF CDROM_DeferredCallback, IInv, TypeOK, Slots, NoResponse, has_deferred
  <2> QED BY <2>1 DEF FirstDueFirst, Armed, has_pending, pendVars
<1>4. CASE CDROM_PendingCallback
  <2>1. timer'["PENDING"] = Off /\ timer'["DEFERRED"] = timer["DEFERRED"] /\ UNCHANGED deferred
    BY <1>4 DEF CDROM_PendingCallback, IInv, TypeOK, Slots
  <2>2. pending_int' = 0 \/ UNCHANGED pendVars
    BY <1>4 DEF CDROM_PendingCallback
  <2> QED BY <2>1, <2>2 DEF FirstDueFirst, Armed, has_pending, has_deferred, pendVars
<1>5. CASE Advance
  <2>1. /\ \A e \in Slots : timer[e] \in Nat \cup {Off} /\ timer[e] # 0
                            /\ timer'[e] = IF timer[e] = Off THEN Off ELSE timer[e] - 1
        /\ pending_left \in Nat /\ pending_left' = IF pending_left > 0 THEN pending_left - 1 ELSE 0
        /\ UNCHANGED <<deferred, pending_int>>
    BY <1>5 DEF Advance, IInv, TypeOK
  <2>2. has_deferred => timer["DEFERRED"] \in Nat
    BY DEF IInv, BusyUntilDelivered, Armed, TypeOK, Slots
  <2> QED BY <2>1, <2>2 DEF FirstDueFirst, Armed, has_pending, has_deferred, Slots, Off
<1> QED BY <1>1, <1>2, <1>3, <1>4, <1>5 DEF Event

LEMMA StaysInOrder ==
  ASSUME WaitsForAnswer, \A d \in PendingDelays : DeferredDelay < d
  PROVE  IInv /\ FirstDueFirst /\ [Next]_vars => FirstDueFirst'
<1> SUFFICES ASSUME IInv, FirstDueFirst, [Next]_vars PROVE FirstDueFirst'
  OBVIOUS
<1>1. CASE Command
  BY <1>1, CommandInOrder
<1>2. CASE \E val \in AckValues : WriteAck(val)
  BY <1>2, AckInOrder
<1>3. CASE Event \/ Advance
  BY <1>3, EventInOrder
<1>4. CASE \/ \E i \in 0 .. 1 : WriteIndex(i)
           \/ \E mask \in Masks : WriteIntEnable(mask)
           \/ ClearData
           \/ ReadResponse
           \/ \E count \in 1 .. FifoLen : CDROM_ReadDataFIFO(count)
           \/ \E keep \in BOOLEAN : WriteIStat(keep)
           \/ UNCHANGED vars
  <2>1. UNCHANGED <<deferred, pendVars, timer>>
    BY <1>4 DEF WriteIndex, WriteIntEnable, ClearData, ReadResponse, CDROM_ReadDataFIFO, WriteIStat, vars
  <2> QED BY <2>1 DEF FirstDueFirst, Armed, has_pending, has_deferred, pendVars
<1> QED BY <1>1, <1>2, <1>3, <1>4 DEF Next, Guest

(* A guest that waits for its answers gets a command's second response     *)
(* (cdrom_queue_pending) only after the first was delivered, also when it  *)
(* acknowledges before there is anything to acknowledge.  This needs       *)
(* second responses slower than first ones: true of the PENDING_DELAYs,    *)
(* not of the 200 cycles of cdrom_fast.                                    *)
THEOREM SecondNeverEarly ==
  ASSUME WaitsForAnswer, \A d \in PendingDelays : DeferredDelay < d
  PROVE  Spec => SecondAfterFirst
<1>1. Init => FirstDueFirst
  BY DEF Init, FirstDueFirst, Armed, has_pending, Slots
<1>2. IInv /\ FirstDueFirst /\ [Next]_vars => FirstDueFirst'
  BY StaysInOrder
<1>3. IInv /\ FirstDueFirst => (CDROM_PendingCallback /\ int_flag' # int_flag => ~has_deferred)
  <2> SUFFICES ASSUME IInv, FirstDueFirst, CDROM_PendingCallback, int_flag' # int_flag, has_deferred PROVE FALSE
    OBVIOUS
  <2>1. has_pending /\ timer["PENDING"] = 0
    BY DEF CDROM_PendingCallback, Fires
  <2>2. timer["DEFERRED"] \in Nat
    BY DEF IInv, BusyUntilDelivered, Armed, TypeOK, Slots
  <2> QED BY <2>1, <2>2 DEF FirstDueFirst, Armed, Off
<1> QED BY <1>1, <1>2, <1>3, Invariance, PTL DEF Spec, SecondAfterFirst
=============================================================================
