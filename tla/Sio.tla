-------------------------------- MODULE Sio --------------------------------
(***************************************************************************)
(* The controller and memory card port of src/sio.c with the part of       *)
(* src/hardware.c that acknowledges its interrupt.  The guest selects a    *)
(* port, exchanges bytes with a pad or a card, and is told of each byte's  *)
(* /ACK by a latch in the status register and by interrupt 7, which the    *)
(* scheduler delivers later.  Selects, port changes, resets, STAT reads    *)
(* and I_STAT acknowledgements may come between any two of these.          *)
(*                                                                         *)
(* A card is known by whether it is in the middle of an exchange           *)
(* (MemoryCard has the rest).  A received byte is idle or from a device.   *)
(* For a card only whether sio_state is 0 matters, so it stays at 1.  The  *)
(* interrupt's delay is left open: it may fire at any time once scheduled. *)
(***************************************************************************)
EXTENDS Integers

CONSTANTS Ports,      \* the two ports
          Loaded,     \* ports whose card was loaded
          PadLens     \* 5, or 19 with a multitap

ASSUME SioAssumption ==
  /\ Loaded \subseteq Ports
  /\ 0 \in Ports
  /\ PadLens \subseteq Nat \ {0, 1}

VARIABLES sio_selected, sio_port,
          sio_device,         \* "none", "pad" or "card"
          sio_state, sio_response_len,
          sio_data,           \* "FF" or "dev"
          sio_tx_pending, sio_ack_latch, sio_irq_pending,
          irq_armed,          \* SCHED_EVENT_SIO_IRQ is scheduled
          sio_stat9,          \* bit 9 of sio_stat
          i_stat7,            \* bit 7 of I_STAT
          card_busy,          \* the ports whose card is not in MCD_IDLE
          stale,              \* history: cards left busy by an abandoned exchange
          owed                \* history: an /ACK has not been followed by its interrupt

exchangeVars == <<sio_selected, sio_port, sio_device, sio_state, sio_response_len>>
rxVars == <<sio_data, sio_tx_pending>>
irqVars == <<sio_ack_latch, sio_irq_pending, irq_armed, sio_stat9, i_stat7, owed>>
cardVars == <<card_busy, stale>>
vars == <<exchangeVars, rxVars, irqVars, cardVars>>

Init ==
  /\ sio_selected = FALSE /\ sio_port = 0 /\ sio_device = "none"
  /\ sio_state = 0 /\ sio_response_len = 0
  /\ sio_data = "FF" /\ sio_tx_pending = FALSE
  /\ sio_ack_latch = FALSE /\ sio_irq_pending = FALSE /\ irq_armed = FALSE
  /\ sio_stat9 = FALSE /\ i_stat7 = FALSE
  /\ card_busy = {} /\ stale = {} /\ owed = FALSE

-----------------------------------------------------------------------------
(* sio_assert_ack: a pad's interrupt is also marked pending, a card's is   *)
(* only scheduled.                                                         *)
sio_assert_ack(device) ==
  /\ sio_ack_latch' = TRUE
  /\ sio_irq_pending' = (device = "pad" \/ sio_irq_pending)
  /\ irq_armed' = TRUE
  /\ owed' = TRUE
  /\ UNCHANGED <<sio_stat9, i_stat7>>

Receive(byte) == sio_data' = byte /\ sio_tx_pending' = TRUE

(* SIO_DATA written with nothing selected, by the C handler or inline.     *)
WriteDataDeselected ==
  /\ ~sio_selected
  /\ Receive("FF")
  /\ UNCHANGED <<exchangeVars, irqVars, cardVars>>

(* First byte 0x01: the pad's whole answer is built.                       *)
WriteDataPad(len) ==
  /\ sio_selected /\ sio_state = 0
  /\ sio_device' = "pad" /\ sio_state' = 1 /\ sio_response_len' = len
  /\ Receive("FF")
  /\ sio_assert_ack("pad")
  /\ UNCHANGED <<sio_selected, sio_port, cardVars>>

\* Mutant of StartCard: the card is not reset for a fresh exchange.
StartCardAsItIs ==
  /\ card_busy' = IF sio_port \in Loaded THEN card_busy \cup {sio_port} ELSE card_busy
  /\ UNCHANGED stale

(* MCD_Reset, then MCD_Tick with the access byte.                          *)
StartCard ==
  /\ card_busy' = IF sio_port \in Loaded THEN card_busy \cup {sio_port} ELSE card_busy \ {sio_port}
  /\ stale' = stale \ {sio_port}

(* First byte 0x81.                                                        *)
WriteDataCard ==
  /\ sio_selected /\ sio_state = 0
  /\ sio_device' = "card" /\ sio_state' = 1
  /\ StartCard
  /\ Receive("FF")
  /\ IF sio_port \in card_busy' THEN sio_assert_ack("card") ELSE UNCHANGED irqVars
  /\ UNCHANGED <<sio_selected, sio_port, sio_response_len>>

(* Another first byte.                                                     *)
WriteDataUnknown ==
  /\ sio_selected /\ sio_state = 0
  /\ Receive("FF")
  /\ UNCHANGED <<exchangeVars, irqVars, cardVars>>

(* A later byte to the card: MCD_Tick may end the exchange; an idle card   *)
(* starts one only on the access byte.                                     *)
WriteDataCardNext ==
  /\ sio_selected /\ sio_state > 0 /\ sio_device = "card"
  /\ card_busy' \in {card_busy, card_busy \ {sio_port}}
                      \cup (IF sio_port \in Loaded THEN {card_busy \cup {sio_port}} ELSE {})
  /\ stale' = stale \cap card_busy'
  /\ sio_data' \in {"FF", "dev"} /\ sio_tx_pending' = TRUE
  /\ IF sio_port \in card_busy' THEN sio_assert_ack("card") ELSE UNCHANGED irqVars
  /\ UNCHANGED exchangeVars

\* Mutant of WriteDataPadNext: the length of the answer is not looked at.
WriteDataPadPastEnd ==
  /\ sio_selected /\ sio_state > 0 /\ sio_device # "card"
  /\ sio_state <= sio_response_len
  /\ Receive("dev")
  /\ sio_assert_ack("pad")
  /\ sio_state' = sio_state + 1
  /\ UNCHANGED <<sio_selected, sio_port, sio_device, sio_response_len, cardVars>>

(* A later byte to the pad, acknowledged unless it is the last.            *)
WriteDataPadNext ==
  /\ sio_selected /\ sio_state > 0 /\ sio_device # "card"
  /\ sio_state < sio_response_len
  /\ Receive("dev")
  /\ IF sio_state < sio_response_len - 1 THEN sio_assert_ack("pad") ELSE UNCHANGED irqVars
  /\ sio_state' = sio_state + 1
  /\ UNCHANGED <<sio_selected, sio_port, sio_device, sio_response_len, cardVars>>

WriteDataPadDone ==
  /\ sio_selected /\ sio_state > 0 /\ sio_device # "card"
  /\ sio_state >= sio_response_len
  /\ Receive("FF")
  /\ UNCHANGED <<exchangeVars, irqVars, cardVars>>

-----------------------------------------------------------------------------
(* SIO_CTRL.                                                               *)
Abandon(reset) ==
  /\ card_busy' = card_busy \ reset
  /\ stale' = card_busy \ reset

(* Bit 6: everything but the cards is reset.                               *)
CtrlReset ==
  /\ sio_selected' = FALSE /\ sio_port' = 0 /\ sio_device' = "none"
  /\ sio_state' = 0 /\ sio_response_len' = 0
  /\ sio_data' = "FF" /\ sio_tx_pending' = FALSE
  /\ sio_irq_pending' = FALSE /\ sio_ack_latch' = FALSE /\ irq_armed' = FALSE /\ owed' = FALSE
  /\ Abandon({})
  /\ UNCHANGED <<sio_stat9, i_stat7>>

(* Bit 4 acknowledges: a pending interrupt's event is cancelled, and       *)
(* sio_irq_pending stays for the I_STAT acknowledgement to find.           *)
ArmedAfterAck(ack) == irq_armed /\ ~(ack /\ sio_irq_pending)

(* Bit 1: select.  A fresh select or another port starts anew.             *)
CtrlSelect(ack, port) ==
  LET anew == ~sio_selected \/ port # sio_port
      left == IF sio_selected /\ sio_device = "card" /\ port # sio_port THEN {sio_port} ELSE {}
  IN /\ sio_selected' = TRUE
     /\ sio_port' = port
     /\ sio_stat9' = (sio_stat9 /\ ~ack)
     /\ irq_armed' = ArmedAfterAck(ack)
     /\ IF anew
          THEN /\ sio_state' = 0 /\ sio_device' = "none" /\ sio_ack_latch' = FALSE
               /\ Abandon(left)
          ELSE UNCHANGED <<sio_state, sio_device, sio_ack_latch, cardVars>>
     /\ UNCHANGED <<sio_response_len, rxVars, sio_irq_pending, i_stat7, owed>>

\* Mutant of CtrlDeselect: the interrupt of the last byte is not cancelled.
CtrlDeselectKeepsIrq(ack, port) ==
  LET left == IF sio_selected /\ sio_device = "card" THEN {port} ELSE {} IN
  /\ sio_selected' = FALSE
  /\ sio_port' = port
  /\ sio_stat9' = (sio_stat9 /\ ~ack)
  /\ sio_state' = 0 /\ sio_device' = "none"
  /\ sio_irq_pending' = FALSE /\ sio_ack_latch' = FALSE
  /\ Abandon(left)
  /\ UNCHANGED <<sio_response_len, rxVars, i_stat7, irq_armed, owed>>

(* Deselect: the card that is reset is the one at the port just written.   *)
CtrlDeselect(ack, port) ==
  LET left == IF sio_selected /\ sio_device = "card" THEN {port} ELSE {} IN
  /\ sio_selected' = FALSE
  /\ sio_port' = port
  /\ sio_stat9' = (sio_stat9 /\ ~ack)
  /\ sio_state' = 0 /\ sio_device' = "none"
  /\ sio_irq_pending' = FALSE /\ sio_ack_latch' = FALSE /\ irq_armed' = FALSE /\ owed' = FALSE
  /\ Abandon(left)
  /\ UNCHANGED <<sio_response_len, rxVars, i_stat7>>

-----------------------------------------------------------------------------
ReadData ==
  /\ sio_data' = "FF" /\ sio_tx_pending' = FALSE
  /\ UNCHANGED <<exchangeVars, irqVars, cardVars>>

(* SIO_STAT: a card's acknowledge latch is consumed.                       *)
ReadStat ==
  /\ sio_ack_latch' = (sio_ack_latch /\ ~(sio_selected /\ sio_state > 0 /\ sio_device = "card"))
  /\ UNCHANGED <<exchangeVars, rxVars, sio_irq_pending, irq_armed, sio_stat9, i_stat7, owed, cardVars>>

Sched_SIO_IRQ_Callback ==
  /\ irq_armed
  /\ irq_armed' = FALSE
  /\ sio_irq_pending' = FALSE
  /\ sio_stat9' = TRUE
  /\ i_stat7' = TRUE
  /\ owed' = FALSE
  /\ UNCHANGED <<exchangeVars, rxVars, sio_ack_latch, cardVars>>

\* Mutant of WriteIStat: the event of the interrupt just raised stays armed.
WriteIStatTwice(keep) ==
  /\ IF sio_irq_pending /\ ~keep
       THEN sio_irq_pending' = FALSE /\ owed' = FALSE /\ i_stat7' = TRUE
       ELSE i_stat7' = (i_stat7 /\ keep) /\ UNCHANGED <<sio_irq_pending, owed>>
  /\ UNCHANGED <<exchangeVars, rxVars, sio_ack_latch, irq_armed, sio_stat9, cardVars>>

(* hardware.c: I_STAT written with bit 7 kept or cleared.  Clearing it     *)
(* while an interrupt is pending raises that interrupt at once.            *)
WriteIStat(keep) ==
  /\ IF sio_irq_pending /\ ~keep
       THEN sio_irq_pending' = FALSE /\ irq_armed' = FALSE /\ owed' = FALSE /\ i_stat7' = TRUE
       ELSE i_stat7' = (i_stat7 /\ keep) /\ UNCHANGED <<sio_irq_pending, irq_armed, owed>>
  /\ UNCHANGED <<exchangeVars, rxVars, sio_ack_latch, sio_stat9, cardVars>>

Next ==
  \/ WriteDataDeselected
  \/ \E len \in PadLens : WriteDataPad(len)
  \/ WriteDataCard
  \/ WriteDataUnknown
  \/ WriteDataCardNext
  \/ WriteDataPadNext
  \/ WriteDataPadDone
  \/ CtrlReset
  \/ \E ack \in BOOLEAN, port \in Ports : CtrlSelect(ack, port) \/ CtrlDeselect(ack, port)
  \/ ReadData
  \/ ReadStat
  \/ Sched_SIO_IRQ_Callback
  \/ \E keep \in BOOLEAN : WriteIStat(keep)

Spec == Init /\ [][Next]_vars

-----------------------------------------------------------------------------
TypeOK ==
  /\ sio_selected \in BOOLEAN
  /\ sio_port \in Ports
  /\ sio_device \in {"none", "pad", "card"}
  /\ sio_state \in Nat
  /\ sio_response_len \in PadLens \cup {0}
  /\ sio_data \in {"FF", "dev"}
  /\ sio_tx_pending \in BOOLEAN
  /\ sio_ack_latch \in BOOLEAN
  /\ sio_irq_pending \in BOOLEAN
  /\ irq_armed \in BOOLEAN
  /\ sio_stat9 \in BOOLEAN
  /\ i_stat7 \in BOOLEAN
  /\ owed \in BOOLEAN
  /\ card_busy \subseteq Ports
  /\ stale \subseteq card_busy

(* Nothing of an exchange outlives the deselect: no acknowledge latch, no  *)
(* interrupt scheduled or pending, no device in the middle of an answer.   *)
QuietWhenDeselected ==
  ~sio_selected => /\ ~irq_armed /\ ~sio_irq_pending /\ ~sio_ack_latch
                   /\ sio_state = 0 /\ sio_device = "none"

(* The bytes of an exchange never reach a card that an earlier, abandoned  *)
(* exchange left in the middle ("always reset card to IDLE for a fresh     *)
(* exchange"), although a reset or a deselect may leave one there.         *)
CardIsFresh == sio_device = "card" => sio_port \notin stale

(* Each /ACK raises interrupt 7 at most once, on the callback or on the    *)
(* early I_STAT path.                                                      *)
OneIrqPerAck == irq_armed \/ sio_irq_pending => owed

(* A pad answer is never read past its end, whichever answer was built     *)
(* for the port selected before.                                           *)
PadAnswerInRange ==
  /\ sio_device = "pad" => sio_state > 0 /\ sio_state <= sio_response_len
  /\ sio_state > 0 => sio_device # "none"

IInv ==
  /\ TypeOK
  /\ QuietWhenDeselected
  /\ CardIsFresh
  /\ OneIrqPerAck
  /\ PadAnswerInRange
=============================================================================
