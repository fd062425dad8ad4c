----------------------------- MODULE MemoryCard -----------------------------
(***************************************************************************)
(* The memory cards of src/memorycard.c: a byte-exchange state machine per *)
(* slot (MCD_Tick), backed by a card image in memory and a file on the     *)
(* host.  The guest may abandon an exchange at any byte (MCD_Reset, when   *)
(* the port is deselected) and the process may be stopped and started      *)
(* again at any byte (Restart, which runs MCD_Init).                       *)
(*                                                                         *)
(* A byte means what the phase makes of it, so Access and the command      *)
(* codes are bytes like any other.  A response is a pair of what is        *)
(* answered and its value, when it has one.                                *)
(***************************************************************************)
EXTENDS Integers, Sequences

CONSTANTS Slots,         \* card slots
          Byte,          \* the values of a byte
          Xor(_, _),     \* exclusive or of two bytes
          Access,        \* 0x81
          CmdRead, CmdWrite, CmdGetId,   \* 0x52, 0x57, 0x53
          AddrBytes,     \* bytes the guest sends as half a sector address
          DataBytes,     \* bytes the guest sends as data
          AddrBase,      \* 256: sector address = msb * AddrBase + lsb
          SectorSize,    \* MCD_SECTOR_SIZE
          NumSectors,    \* MCD_NUM_SECTORS
          IdLength,      \* the GetID answer is 4 bytes
          Formatted      \* the image mcd_format makes

Sectors == 0 .. NumSectors - 1
Addresses == 0 .. AddrBase * AddrBase - 1
BadAddress == AddrBase * AddrBase - 1   \* 0xFFFF, which no sector has
Block == [0 .. SectorSize - 1 -> Byte]
Image == [Sectors -> Block]
ZeroBlock == [i \in 0 .. SectorSize - 1 |-> 0]

ASSUME MemoryCardAssumption ==
  /\ SectorSize \in Nat \ {0}
  /\ NumSectors \in Nat \ {0}
  /\ IdLength \in Nat \ {0}
  /\ AddrBase \in Nat \ {0}
  /\ 0 \in Byte /\ Byte \subseteq 0 .. AddrBase - 1
  /\ {Access, CmdRead, CmdWrite, CmdGetId} \subseteq Byte
  /\ AddrBytes \subseteq Byte
  /\ DataBytes \subseteq Byte
  /\ \A a, b \in Byte : Xor(a, b) \in Byte
  /\ NumSectors < AddrBase * AddrBase
  /\ Formatted \in Image

VARIABLES data, phase, cmd, flag_new, flag_error, sector, checksum,
          byte_count, wr_buf, loaded,
          rx,            \* the last answer; "FF" when the line is idle
          file, exists,  \* the host file of each slot
          moved,         \* history: data bytes exchanged since the address
          matched,       \* history: the last write's checksum was right
          unsaved        \* history: sectors whose latest write never reached the file

protoVars == <<phase, cmd, sector, checksum, byte_count, wr_buf>>
fileVars == <<file, exists, unsaved>>
mcVars == <<data, protoVars, flag_new, flag_error, loaded, rx, fileVars, moved, matched>>

Phases == {"IDLE", "CMD", "ID1", "ID2", "ADDR_MSB", "ADDR_LSB", "RD_ACK1", "RD_ACK2",
           "RD_ADDR_MSB", "RD_ADDR_LSB", "RD_DATA", "RD_CHK", "RD_END", "RD_COMPLETE",
           "WR_DATA", "WR_CHK", "WR_ACK1", "WR_ACK2", "WR_END",
           "ID_ACK1", "ID_ACK2", "ID_DATA"}

Answers == {"FF", "FLAG", "5A", "5D", "5C", "00", "addr", "data", "chk", "47", "4E", "id"}

-----------------------------------------------------------------------------
(* MCD_Init on first start: the file was there, or a formatted card was    *)
(* made, with or without success in creating its file.  A slot without a   *)
(* configured path is never loaded.                                        *)
MCInit ==
  /\ exists \in [Slots -> BOOLEAN]
  /\ file = [s \in Slots |-> Formatted]
  /\ unsaved = [s \in Slots |-> IF exists[s] THEN {} ELSE Sectors]
  /\ data = [s \in Slots |-> Formatted]
  /\ phase = [s \in Slots |-> "IDLE"]
  /\ cmd = [s \in Slots |-> 0]
  /\ flag_new = [s \in Slots |-> TRUE]
  /\ flag_error = [s \in Slots |-> FALSE]
  /\ sector = [s \in Slots |-> 0]
  /\ checksum = [s \in Slots |-> 0]
  /\ byte_count = [s \in Slots |-> 0]
  /\ wr_buf = [s \in Slots |-> ZeroBlock]
  /\ loaded \in [Slots -> BOOLEAN]
  /\ rx = [s \in Slots |-> <<"FF", 0>>]
  /\ moved = [s \in Slots |-> << >>]
  /\ matched = [s \in Slots |-> FALSE]

-----------------------------------------------------------------------------
(* MCD_Tick, one action per phase.                                         *)
Answer(s, kind, val) == rx' = [rx EXCEPT ![s] = <<kind, val>>]
Flag(s) == (IF flag_new[s] THEN 8 ELSE 0) + (IF flag_error[s] THEN 4 ELSE 0)
GoTo(s, p) == phase' = [phase EXCEPT ![s] = p]

Absent(s) ==
  /\ ~loaded[s]
  /\ Answer(s, "FF", 0)
  /\ UNCHANGED <<data, protoVars, flag_new, flag_error, loaded, fileVars, moved, matched>>

TickIdle(s, tx) ==
  /\ loaded[s] /\ phase[s] = "IDLE"
  /\ Answer(s, "FF", 0)
  /\ GoTo(s, IF tx = Access THEN "CMD" ELSE "IDLE")
  /\ UNCHANGED <<data, cmd, sector, checksum, byte_count, wr_buf, flag_new, flag_error, loaded, fileVars, moved, matched>>

TickCmd(s, tx) ==
  /\ loaded[s] /\ phase[s] = "CMD"
  /\ Answer(s, "FLAG", Flag(s))
  /\ cmd' = [cmd EXCEPT ![s] = tx]
  /\ GoTo(s, IF tx \in {CmdRead, CmdWrite, CmdGetId} THEN "ID1" ELSE "IDLE")
  /\ UNCHANGED <<data, sector, checksum, byte_count, wr_buf, flag_new, flag_error, loaded, fileVars, moved, matched>>

(* The bytes whose answer and successor are fixed.                         *)
FixedSteps ==
  {<<"ID1", "5A", "ID2">>, <<"RD_ACK1", "5C", "RD_ACK2">>, <<"RD_END", "47", "RD_COMPLETE">>,
   <<"RD_COMPLETE", "FF", "IDLE">>, <<"WR_ACK1", "5C", "WR_ACK2">>, <<"WR_ACK2", "5D", "WR_END">>,
   <<"ID_ACK1", "5C", "ID_ACK2">>}

TickFixed(s) ==
  /\ loaded[s]
  /\ \E st \in FixedSteps : phase[s] = st[1] /\ Answer(s, st[2], 0) /\ GoTo(s, st[3])
  /\ UNCHANGED <<data, cmd, sector, checksum, byte_count, wr_buf, flag_new, flag_error, loaded, fileVars, moved, matched>>

TickId2(s) ==
  /\ loaded[s] /\ phase[s] = "ID2"
  /\ Answer(s, "5D", 0)
  /\ GoTo(s, IF cmd[s] = CmdGetId THEN "ID_ACK1" ELSE "ADDR_MSB")
  /\ UNCHANGED <<data, cmd, sector, checksum, byte_count, wr_buf, flag_new, flag_error, loaded, fileVars, moved, matched>>

TickAddrMsb(s, tx) ==
  /\ loaded[s] /\ phase[s] = "ADDR_MSB"
  /\ Answer(s, "00", 0)
  /\ sector' = [sector EXCEPT ![s] = tx * AddrBase]
  /\ GoTo(s, "ADDR_LSB")
  /\ UNCHANGED <<data, cmd, checksum, byte_count, wr_buf, flag_new, flag_error, loaded, fileVars, moved, matched>>

TickAddrLsb(s, tx) ==
  /\ loaded[s] /\ phase[s] = "ADDR_LSB"
  /\ Answer(s, "00", 0)
  /\ sector' = [sector EXCEPT ![s] = @ + tx]
  /\ checksum' = [checksum EXCEPT ![s] = Xor(sector[s] \div AddrBase, tx)]
  /\ byte_count' = [byte_count EXCEPT ![s] = 0]
  /\ GoTo(s, IF cmd[s] = CmdRead THEN "RD_ACK1" ELSE "WR_DATA")
  /\ moved' = [moved EXCEPT ![s] = << >>]
  /\ UNCHANGED <<data, cmd, wr_buf, flag_new, flag_error, loaded, fileVars, matched>>

TickRdAck2(s) ==
  /\ loaded[s] /\ phase[s] = "RD_ACK2"
  /\ Answer(s, "5D", 0)
  /\ sector' = [sector EXCEPT ![s] = IF @ < NumSectors THEN @ ELSE BadAddress]
  /\ GoTo(s, "RD_ADDR_MSB")
  /\ UNCHANGED <<data, cmd, checksum, byte_count, wr_buf, flag_new, flag_error, loaded, fileVars, moved, matched>>

TickRdAddr(s) ==
  /\ loaded[s]
  /\ \/ /\ phase[s] = "RD_ADDR_MSB"
        /\ Answer(s, "addr", sector[s] \div AddrBase)
        /\ GoTo(s, "RD_ADDR_LSB")
     \/ /\ phase[s] = "RD_ADDR_LSB"
        /\ Answer(s, "addr", sector[s] % AddrBase)
        /\ GoTo(s, IF sector[s] < NumSectors THEN "RD_DATA" ELSE "IDLE")
  /\ UNCHANGED <<data, cmd, sector, checksum, byte_count, wr_buf, flag_new, flag_error, loaded, fileVars, moved, matched>>

\* Mutant of TickRdData: the last byte of the sector is not sent.
TickRdDataShort(s) ==
  LET b == data[s][sector[s]][byte_count[s]] IN
  /\ loaded[s] /\ phase[s] = "RD_DATA"
  /\ Answer(s, "data", b)
  /\ checksum' = [checksum EXCEPT ![s] = Xor(@, b)]
  /\ byte_count' = [byte_count EXCEPT ![s] = @ + 1]
  /\ GoTo(s, IF byte_count[s] + 1 >= SectorSize - 1 THEN "RD_CHK" ELSE "RD_DATA")
  /\ moved' = [moved EXCEPT ![s] = Append(@, b)]
  /\ UNCHANGED <<data, cmd, sector, wr_buf, flag_new, flag_error, loaded, fileVars, matched>>

TickRdData(s) ==
  LET b == data[s][sector[s]][byte_count[s]] IN
  /\ loaded[s] /\ phase[s] = "RD_DATA"
  /\ Answer(s, "data", b)
  /\ checksum' = [checksum EXCEPT ![s] = Xor(@, b)]
  /\ byte_count' = [byte_count EXCEPT ![s] = @ + 1]
  /\ GoTo(s, IF byte_count[s] + 1 >= SectorSize THEN "RD_CHK" ELSE "RD_DATA")
  /\ moved' = [moved EXCEPT ![s] = Append(@, b)]
  /\ UNCHANGED <<data, cmd, sector, wr_buf, flag_new, flag_error, loaded, fileVars, matched>>

TickRdChk(s) ==
  /\ loaded[s] /\ phase[s] = "RD_CHK"
  /\ Answer(s, "chk", checksum[s])
  /\ GoTo(s, "RD_END")
  /\ UNCHANGED <<data, cmd, sector, checksum, byte_count, wr_buf, flag_new, flag_error, loaded, fileVars, moved, matched>>

TickWrData(s, tx) ==
  /\ loaded[s] /\ phase[s] = "WR_DATA"
  /\ Answer(s, "00", 0)
  /\ wr_buf' = [wr_buf EXCEPT ![s][byte_count[s]] = tx]
  /\ checksum' = [checksum EXCEPT ![s] = Xor(@, tx)]
  /\ byte_count' = [byte_count EXCEPT ![s] = @ + 1]
  /\ GoTo(s, IF byte_count[s] + 1 >= SectorSize THEN "WR_CHK" ELSE "WR_DATA")
  /\ moved' = [moved EXCEPT ![s] = Append(@, tx)]
  /\ UNCHANGED <<data, cmd, sector, flag_new, flag_error, loaded, fileVars, matched>>

\* Mutant of mcd_save_sector: the sector is not saved.
mcd_save_nothing(s, image) == UNCHANGED fileVars

(* mcd_save_sector: the sector is written into the file; or the whole card *)
(* into a new file; or no file can be opened.  The result of fwrite is not *)
(* looked at: any prefix may be what reached the host.                     *)
SavePrefix(s, n, new) ==
  /\ file' = [file EXCEPT ![s][sector[s]] = [i \in DOMAIN new |-> IF i < n THEN new[i] ELSE @[i]]]
  /\ unsaved' = [unsaved EXCEPT ![s] = IF n = SectorSize THEN @ \ {sector[s]} ELSE @ \cup {sector[s]}]

CardPrefix(n, image) == [k \in Sectors |-> IF k < n THEN image[k] ELSE ZeroBlock]

mcd_save_sector(s, image) ==
  \/ /\ exists[s]
     /\ \E n \in 0 .. SectorSize : SavePrefix(s, n, image[sector[s]])
     /\ UNCHANGED exists
  \/ \E n \in 0 .. NumSectors :
       /\ file' = [file EXCEPT ![s] = CardPrefix(n, image)]
       /\ exists' = [exists EXCEPT ![s] = TRUE]
       /\ unsaved' = [unsaved EXCEPT ![s] = n .. NumSectors - 1]
  \/ /\ unsaved' = [unsaved EXCEPT ![s] = @ \cup {sector[s]}]
     /\ UNCHANGED <<file, exists>>

\* Mutant of WriteCommits: the checksum is not verified.
WriteCommitsUnchecked(s, tx) == sector[s] < NumSectors

WriteCommits(s, tx) == tx = checksum[s] /\ sector[s] < NumSectors

TickWrChk(s, tx) ==
  /\ loaded[s] /\ phase[s] = "WR_CHK"
  /\ Answer(s, "00", 0)
  /\ \/ /\ WriteCommits(s, tx)
        /\ data' = [data EXCEPT ![s][sector[s]] = wr_buf[s]]
        /\ mcd_save_sector(s, data'[s])
        /\ flag_new' = [flag_new EXCEPT ![s] = FALSE]
     \/ /\ ~WriteCommits(s, tx)
        /\ UNCHANGED <<data, fileVars, flag_new>>
  /\ flag_error' = [flag_error EXCEPT ![s] = @ \/ tx # checksum[s]]
  /\ matched' = [matched EXCEPT ![s] = (tx = checksum[s])]
  /\ GoTo(s, "WR_ACK1")
  /\ UNCHANGED <<cmd, sector, checksum, byte_count, wr_buf, loaded, moved>>

\* Mutant of WriteResult: the checksum comparison is not reported.
WriteResultOptimistic(s) == IF sector[s] >= NumSectors THEN "FF" ELSE "47"

WriteResult(s) ==
  IF sector[s] >= NumSectors THEN "FF" ELSE IF flag_error[s] THEN "4E" ELSE "47"

TickWrEnd(s) ==
  /\ loaded[s] /\ phase[s] = "WR_END"
  /\ Answer(s, WriteResult(s), 0)
  /\ GoTo(s, "IDLE")
  /\ UNCHANGED <<data, cmd, sector, checksum, byte_count, wr_buf, flag_new, flag_error, loaded, fileVars, moved, matched>>

TickIdAck2(s) ==
  /\ loaded[s] /\ phase[s] = "ID_ACK2"
  /\ Answer(s, "5D", 0)
  /\ byte_count' = [byte_count EXCEPT ![s] = 0]
  /\ GoTo(s, "ID_DATA")
  /\ UNCHANGED <<data, cmd, sector, checksum, wr_buf, flag_new, flag_error, loaded, fileVars, moved, matched>>

TickIdData(s) ==
  /\ loaded[s] /\ phase[s] = "ID_DATA"
  /\ Answer(s, "id", byte_count[s])
  /\ byte_count' = [byte_count EXCEPT ![s] = @ + 1]
  /\ GoTo(s, IF byte_count[s] + 1 >= IdLength THEN "IDLE" ELSE "ID_DATA")
  /\ UNCHANGED <<data, cmd, sector, checksum, wr_buf, flag_new, flag_error, loaded, fileVars, moved, matched>>

(* Every byte the guest may send in the phase the card is in.              *)
MCD_Tick(s) ==
  \/ Absent(s)
  \/ \E tx \in Byte : TickIdle(s, tx) \/ TickCmd(s, tx) \/ TickWrChk(s, tx)
  \/ \E tx \in AddrBytes : TickAddrMsb(s, tx) \/ TickAddrLsb(s, tx)
  \/ \E tx \in DataBytes : TickWrData(s, tx)
  \/ TickFixed(s) \/ TickId2(s)
  \/ TickRdAck2(s) \/ TickRdAddr(s) \/ TickRdData(s) \/ TickRdChk(s)
  \/ TickWrEnd(s) \/ TickIdAck2(s) \/ TickIdData(s)

MCD_Reset(s) ==
  /\ GoTo(s, "IDLE")
  /\ Answer(s, "FF", 0)
  /\ moved' = [moved EXCEPT ![s] = << >>]
  /\ matched' = [matched EXCEPT ![s] = FALSE]
  /\ UNCHANGED <<data, cmd, sector, checksum, byte_count, wr_buf, flag_new, flag_error, loaded, fileVars>>

(* The process stops and starts again with the files it left behind:       *)
(* MCD_Init loads each file (a short one reads as padded with zeros), or   *)
(* formats a card and tries to create its file; made[s] sectors of it      *)
(* reach the host, none if it could not be opened.                         *)
Restart ==
  /\ \E made \in [Slots -> -1 .. NumSectors] :
       /\ exists' = [s \in Slots |-> exists[s] \/ made[s] >= 0]
       /\ file' = [s \in Slots |-> IF exists[s] THEN file[s] ELSE CardPrefix(made[s], Formatted)]
       /\ unsaved' = [s \in Slots |-> IF exists[s] THEN {} ELSE {k \in Sectors : k >= made[s]}]
  /\ data' = [s \in Slots |-> IF exists[s] THEN file[s] ELSE Formatted]
  /\ phase' = [s \in Slots |-> "IDLE"]
  /\ cmd' = [s \in Slots |-> 0]
  /\ flag_new' = [s \in Slots |-> TRUE]
  /\ flag_error' = [s \in Slots |-> FALSE]
  /\ sector' = [s \in Slots |-> 0]
  /\ checksum' = [s \in Slots |-> 0]
  /\ byte_count' = [s \in Slots |-> 0]
  /\ wr_buf' = [s \in Slots |-> ZeroBlock]
  /\ rx' = [s \in Slots |-> <<"FF", 0>>]
  /\ moved' = [s \in Slots |-> << >>]
  /\ matched' = [s \in Slots |-> FALSE]
  /\ UNCHANGED loaded

MCNext ==
  \/ \E s \in Slots : MCD_Tick(s) \/ MCD_Reset(s)
  \/ Restart

MCSpec == MCInit /\ [][MCNext]_mcVars

-----------------------------------------------------------------------------
TypeOK ==
  /\ data \in [Slots -> Image] /\ file \in [Slots -> Image]
  /\ phase \in [Slots -> Phases]
  /\ cmd \in [Slots -> Byte] /\ checksum \in [Slots -> Byte]
  /\ flag_new \in [Slots -> BOOLEAN] /\ flag_error \in [Slots -> BOOLEAN]
  /\ loaded \in [Slots -> BOOLEAN] /\ exists \in [Slots -> BOOLEAN]
  /\ matched \in [Slots -> BOOLEAN]
  /\ sector \in [Slots -> Addresses]
  /\ byte_count \in [Slots -> Nat]
  /\ wr_buf \in [Slots -> Block]
  /\ rx \in [Slots -> Answers \X Nat]
  /\ moved \in [Slots -> Seq(Byte)]
  /\ unsaved \in [Slots -> SUBSET Sectors]

Reading == {"RD_DATA", "RD_CHK", "RD_END", "RD_COMPLETE"}
Writing == {"WR_DATA", "WR_CHK", "WR_ACK1", "WR_ACK2", "WR_END"}

AsBlock(q) == [i \in 0 .. SectorSize - 1 |-> q[i + 1]]

(* What the card has done with the bytes of the current exchange, phase by *)
(* phase: the part of the invariant that makes the others inductive.       *)
ReadTracks(s) ==
  phase[s] \in Reading =>
    /\ sector[s] \in Sectors
    /\ Len(moved[s]) = byte_count[s]
    /\ IF phase[s] = "RD_DATA" THEN byte_count[s] < SectorSize ELSE byte_count[s] = SectorSize
    /\ \A i \in 0 .. byte_count[s] - 1 : moved[s][i + 1] = data[s][sector[s]][i]

WriteTracks(s) ==
  phase[s] \in Writing =>
    /\ Len(moved[s]) = byte_count[s]
    /\ IF phase[s] = "WR_DATA" THEN byte_count[s] < SectorSize ELSE byte_count[s] = SectorSize
    /\ \A i \in 0 .. byte_count[s] - 1 : moved[s][i + 1] = wr_buf[s][i]

VerdictTracks(s) ==
  phase[s] \in {"WR_ACK1", "WR_ACK2", "WR_END"} =>
    /\ ~matched[s] => flag_error[s]
    /\ matched[s] /\ sector[s] \in Sectors => data[s][sector[s]] = wr_buf[s]

CountsTrack(s) ==
  /\ phase[s] \in {"RD_ACK1", "RD_ACK2", "RD_ADDR_MSB", "RD_ADDR_LSB"} =>
       byte_count[s] = 0 /\ moved[s] = << >>
  /\ phase[s] = "ADDR_LSB" => \E b \in Byte : sector[s] = b * AddrBase

(* x is the exclusive or of both bytes of the address a and of the data    *)
(* bytes q: acc has the value of the checksum after each byte of q.        *)
IsXorOf(x, a, q) ==
  \E acc \in [0 .. Len(q) -> Byte] :
    /\ acc[0] = Xor(a \div AddrBase, a % AddrBase)
    /\ \A i \in 1 .. Len(q) : acc[i] = Xor(acc[i - 1], q[i])
    /\ x = acc[Len(q)]

Addressed == {"RD_ACK1", "RD_ACK2", "RD_ADDR_MSB", "RD_ADDR_LSB"} \cup Reading \cup Writing

(* A read of an address past the end has lost it by RD_ADDR_MSB.           *)
ChecksumTracks(s) ==
  phase[s] \in Addressed /\ (phase[s] \in {"RD_ADDR_MSB", "RD_ADDR_LSB"} => sector[s] \in Sectors) =>
    IsXorOf(checksum[s], sector[s], moved[s])

(* When the checksum is sent or compared it is the exclusive or of both    *)
(* address bytes and every data byte of this exchange.                     *)
ChecksumIsXor ==
  \A s \in Slots : phase[s] \in {"RD_CHK", "WR_CHK"} => IsXorOf(checksum[s], sector[s], moved[s])

(* A read that reaches its end byte has handed the guest exactly the       *)
(* sector, whatever exchanges were abandoned before it (the byte counter   *)
(* and the checksum start afresh with each address).                       *)
ReadIsFaithful ==
  \A s \in Slots : phase[s] \in {"RD_END", "RD_COMPLETE"} =>
    Len(moved[s]) = SectorSize /\ AsBlock(moved[s]) = data[s][sector[s]]

(* A read hands out the sector, under its checksum; so is a write's        *)
(* checksum the one of the bytes sent.                                     *)
ExchangeIsFaithful == TypeOK /\ ReadIsFaithful /\ ChecksumIsXor

(* The file holds every sector whose latest write reached it: nothing is   *)
(* lost by a restart but what mcd_save_sector failed to write.             *)
FileHoldsSaved ==
  \A s \in Slots, k \in Sectors : k \notin unsaved[s] => exists[s] /\ file[s][k] = data[s][k]

IInv ==
  /\ TypeOK
  /\ \A s \in Slots : ReadTracks(s) /\ WriteTracks(s) /\ VerdictTracks(s) /\ CountsTrack(s) /\ ChecksumTracks(s)
  /\ FileHoldsSaved

(* The card image changes only at a restart or by one whole sector, to the *)
(* bytes the guest sent in this exchange, under a matching checksum: an    *)
(* abandoned, short or corrupted write changes nothing.                    *)
WholeWrite ==
  data' # data =>
    \/ Restart
    \/ \E s \in Slots :
         /\ phase[s] = "WR_CHK" /\ matched'[s]
         /\ Len(moved[s]) = SectorSize
         /\ data' = [data EXCEPT ![s][sector[s]] = AsBlock(moved[s])]
OnlyWholeWrites == [][WholeWrite]_mcVars

(* The end byte 0x47 (Good) of a write is only ever answered when the      *)
(* sector holds the bytes the guest sent.                                  *)
GoodIsStored ==
  \A s \in Slots : phase[s] = "WR_END" /\ rx'[s][1] = "47" /\ phase'[s] = "IDLE" =>
    data[s][sector[s]] = AsBlock(moved[s])
GoodMeansStored == [][GoodIsStored]_mcVars
=============================================================================
