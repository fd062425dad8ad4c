-------------------------- MODULE MemoryCardProofs --------------------------
(***************************************************************************)
(* For any number of slots, sector size, card size and set of bytes, and   *)
(* any Xor on them: an exchange that reaches its end was faithful whatever *)
(* was abandoned before it, and the file holds what it was said to hold.   *)
(***************************************************************************)
EXTENDS MemoryCard, TLAPS

(* What the card knows of the current exchange, and where it knows nothing.*)
SlotInv(s) == ReadTracks(s) /\ WriteTracks(s) /\ VerdictTracks(s) /\ CountsTrack(s) /\ ChecksumTracks(s)
Untracked == Phases \ (Addressed \cup {"ADDR_LSB"})

LEMMA InvSplit == IInv <=> TypeOK /\ (\A s \in Slots : SlotInv(s)) /\ FileHoldsSaved
BY DEF IInv, SlotInv

LEMMA Constants ==
  /\ SectorSize \in Nat \ {0} /\ NumSectors \in Nat \ {0} /\ AddrBase \in Nat \ {0}
  /\ Byte \subseteq Nat /\ AddrBytes \subseteq Byte /\ DataBytes \subseteq Byte
  /\ \A b \in Byte : b < AddrBase
  /\ 0 \in Byte /\ \A a, b \in Byte : Xor(a, b) \in Byte
  /\ Formatted \in Image /\ ZeroBlock \in Block
BY MemoryCardAssumption DEF ZeroBlock, Block

(* Two bytes of an address, put together and taken apart again.            *)
LEMMA AddressBytes ==
  ASSUME NEW b \in Byte, NEW tx \in Byte
  PROVE  /\ (b * AddrBase) \div AddrBase = b
         /\ (b * AddrBase + tx) \div AddrBase = b
         /\ (b * AddrBase + tx) % AddrBase = tx
         /\ b * AddrBase \in Addresses /\ b * AddrBase + tx \in Addresses
<1> DEFINE A == AddrBase
<1>1. A \in Nat \ {0} /\ b \in 0 .. A - 1 /\ tx \in 0 .. A - 1
  BY Constants, MemoryCardAssumption
<1> HIDE DEF A
<1>2. (b * A) \div A = b /\ (b * A + tx) \div A = b /\ (b * A + tx) % A = tx
  BY <1>1
<1>3. b * A >= 0 /\ b * A + tx >= 0 /\ b * A + tx <= A * A - 1
  <2>1. b * A <= (A - 1) * A
    BY <1>1
  <2>2. (A - 1) * A = A * A - A
    BY <1>1
  <2>3. b * A \in Int /\ A * A \in Int /\ b * A >= 0
    BY <1>1
  <2> QED BY <1>1, <2>1, <2>2, <2>3
<1>4. b * A \in Int /\ A * A \in Int
  BY <1>1
<1> QED BY <1>1, <1>2, <1>3, <1>4 DEF A, Addresses

(* The halves of any address are answers like any other.                   *)
LEMMA AddressHalves ==
  ASSUME NEW a \in Addresses
  PROVE  a \div AddrBase \in Nat /\ a % AddrBase \in Nat
BY Constants DEF Addresses

(* One more byte.                                                          *)
LEMMA XorAppend ==
  ASSUME NEW x \in Byte, NEW a \in Addresses, NEW q \in Seq(Byte), NEW b \in Byte, IsXorOf(x, a, q)
  PROVE  IsXorOf(Xor(x, b), a, Append(q, b))
<1>1. PICK acc \in [0 .. Len(q) -> Byte] :
        /\ acc[0] = Xor(a \div AddrBase, a % AddrBase)
        /\ \A i \in 1 .. Len(q) : acc[i] = Xor(acc[i - 1], q[i])
        /\ x = acc[Len(q)]
  BY DEF IsXorOf
<1> DEFINE q2 == Append(q, b)
           acc2 == [i \in 0 .. Len(q2) |-> IF i <= Len(q) THEN acc[i] ELSE Xor(x, b)]
<1>2. q2 \in Seq(Byte) /\ Len(q2) = Len(q) + 1 /\ Len(q) \in Nat
      /\ (\A i \in 1 .. Len(q) : q2[i] = q[i]) /\ q2[Len(q) + 1] = b
  OBVIOUS
<1> HIDE DEF q2
<1>3. acc2 \in [0 .. Len(q2) -> Byte]
  BY <1>2, Constants
<1>4. acc2[0] = Xor(a \div AddrBase, a % AddrBase) /\ acc2[Len(q2)] = Xor(x, b)
  BY <1>1, <1>2
<1>5. ASSUME NEW i \in 1 .. Len(q2) PROVE acc2[i] = Xor(acc2[i - 1], q2[i])
  <2>1. CASE i <= Len(q)
    <3>1. acc2[i] = acc[i] /\ acc2[i - 1] = acc[i - 1] /\ q2[i] = q[i]
      BY <1>2, <2>1
    <3> QED BY <1>1, <1>2, <2>1, <3>1
  <2>2. CASE ~(i <= Len(q))
    <3>1. i = Len(q) + 1 /\ acc2[i] = Xor(x, b) /\ acc2[i - 1] = x /\ q2[i] = b
      BY <1>1, <1>2, <2>2
    <3> QED BY <3>1
  <2> QED BY <2>1, <2>2
<1>6. IsXorOf(Xor(x, b), a, q2)
  BY <1>3, <1>4, <1>5 DEF IsXorOf
<1> QED BY <1>6 DEF q2

(* No byte yet.                                                            *)
LEMMA XorEmpty ==
  ASSUME NEW a \in Addresses, a % AddrBase \in Byte, a \div AddrBase \in Byte
  PROVE  IsXorOf(Xor(a \div AddrBase, a % AddrBase), a, << >>)
<1> DEFINE x == Xor(a \div AddrBase, a % AddrBase)
           none == << >>
<1>1. x \in Byte
  BY Constants
<1>2. Len(none) = 0
  OBVIOUS
<1> HIDE DEF x, none
<1> DEFINE acc == [i \in 0 .. Len(none) |-> x]
<1>3. acc \in [0 .. Len(none) -> Byte] /\ acc[0] = x /\ acc[Len(none)] = x
  BY <1>1, <1>2
<1>4. \A i \in 1 .. Len(none) : acc[i] = Xor(acc[i - 1], none[i])
  BY <1>2
<1> HIDE DEF acc
<1>5. IsXorOf(x, a, none)
  BY <1>3, <1>4 DEF IsXorOf, x
<1> QED BY <1>5 DEF x, none

-----------------------------------------------------------------------------
LEMMA InitInv == MCInit => IInv
<1> SUFFICES ASSUME MCInit PROVE IInv
  OBVIOUS
<1>1. data \in [Slots -> Image] /\ file \in [Slots -> Image] /\ wr_buf \in [Slots -> Block]
  BY Constants DEF MCInit
<1>2. sector \in [Slots -> Addresses]
  <2>1. 0 * AddrBase \in Addresses
    BY AddressBytes, Constants
  <2> QED BY <2>1, Constants DEF MCInit
<1>3. phase \in [Slots -> Phases] /\ rx \in [Slots -> Answers \X Nat] /\ moved \in [Slots -> Seq(Byte)]
  BY DEF MCInit, Phases, Answers
<1>4. unsaved \in [Slots -> SUBSET Sectors]
  BY DEF MCInit
<1>5. TypeOK
  BY <1>1, <1>2, <1>3, <1>4, Constants DEF MCInit, TypeOK
<1>6. ASSUME NEW s \in Slots PROVE SlotInv(s)
  BY DEF MCInit, SlotInv, ReadTracks, WriteTracks, VerdictTracks, CountsTrack, ChecksumTracks,
         Reading, Writing, Addressed
<1>7. FileHoldsSaved
  BY DEF MCInit, FileHoldsSaved
<1> QED BY <1>5, <1>6, <1>7, InvSplit

-----------------------------------------------------------------------------
(* A slot nobody touched.                                                  *)
LEMMA SlotFrame ==
  ASSUME NEW s \in Slots, SlotInv(s),
         data'[s] = data[s], phase'[s] = phase[s], sector'[s] = sector[s], checksum'[s] = checksum[s],
         byte_count'[s] = byte_count[s], wr_buf'[s] = wr_buf[s], flag_error'[s] = flag_error[s],
         moved'[s] = moved[s], matched'[s] = matched[s]
  PROVE  SlotInv(s)'
<1>1. ReadTracks(s)'
  BY DEF SlotInv, ReadTracks
<1>2. WriteTracks(s)'
  BY DEF SlotInv, WriteTracks
<1>3. VerdictTracks(s)'
  BY DEF SlotInv, VerdictTracks
<1>4. CountsTrack(s)'
  BY DEF SlotInv, CountsTrack
<1>5. ChecksumTracks(s)'
  BY DEF SlotInv, ChecksumTracks, IsXorOf
<1> QED BY <1>1, <1>2, <1>3, <1>4, <1>5 DEF SlotInv

(* A slot that is outside an exchange, or before its address.              *)
LEMMA SlotUntracked ==
  ASSUME NEW s \in Slots, phase'[s] \in Untracked
  PROVE  SlotInv(s)'
BY DEF Untracked, SlotInv, ReadTracks, WriteTracks, VerdictTracks, CountsTrack, ChecksumTracks,
       Reading, Writing, Addressed

(* What an action of slot s leaves alone in the others.                    *)
OthersKept(s) ==
  \A t \in Slots \ {s} :
    /\ data'[t] = data[t] /\ phase'[t] = phase[t] /\ sector'[t] = sector[t] /\ checksum'[t] = checksum[t]
    /\ byte_count'[t] = byte_count[t] /\ wr_buf'[t] = wr_buf[t] /\ flag_error'[t] = flag_error[t]
    /\ moved'[t] = moved[t] /\ matched'[t] = matched[t]

LEMMA OneSlot ==
  ASSUME IInv, NEW s \in Slots, OthersKept(s), TypeOK', SlotInv(s)', FileHoldsSaved'
  PROVE  IInv'
<1>1. ASSUME NEW t \in Slots PROVE SlotInv(t)'
  <2>1. CASE t = s
    BY <2>1
  <2>2. CASE t # s
    BY <2>2, SlotFrame, InvSplit DEF OthersKept
  <2> QED BY <2>1, <2>2
<1> QED BY <1>1, InvSplit DEF IInv, SlotInv

(* Without a change of the image or of the file.                           *)
LEMMA FileFrame ==
  ASSUME FileHoldsSaved, UNCHANGED <<data, fileVars>>
  PROVE  FileHoldsSaved'
BY DEF FileHoldsSaved, fileVars

-----------------------------------------------------------------------------
LEMMA AbsentOK == ASSUME IInv, NEW s \in Slots, Absent(s) PROVE IInv'
<1>1. TypeOK'
  BY DEF Absent, IInv, TypeOK, Answer, Answers, protoVars, fileVars
<1>2. OthersKept(s)
  BY DEF Absent, OthersKept, protoVars
<1>3. SlotInv(s)'
  BY SlotFrame, InvSplit DEF Absent, protoVars
<1>4. FileHoldsSaved'
  BY FileFrame DEF Absent, IInv
<1> QED BY <1>1, <1>2, <1>3, <1>4, OneSlot

LEMMA TickIdleOK == ASSUME IInv, NEW s \in Slots, NEW tx \in Byte, TickIdle(s, tx) PROVE IInv'
<1>1. TypeOK'
  BY DEF TickIdle, IInv, TypeOK, Answer, GoTo, Answers, Phases, fileVars
<1>2. OthersKept(s)
  BY DEF TickIdle, OthersKept, GoTo, IInv, TypeOK
<1>3. SlotInv(s)'
  BY SlotUntracked DEF TickIdle, GoTo, IInv, TypeOK, Untracked, Phases, Reading, Writing, Addressed
<1>4. FileHoldsSaved'
  BY FileFrame DEF TickIdle, IInv
<1> QED BY <1>1, <1>2, <1>3, <1>4, OneSlot

LEMMA TickCmdOK == ASSUME IInv, NEW s \in Slots, NEW tx \in Byte, TickCmd(s, tx) PROVE IInv'
<1>0. Flag(s) \in Nat
  BY DEF Flag
<1>1. TypeOK'
  BY <1>0 DEF TickCmd, IInv, TypeOK, Answer, GoTo, Answers, Phases, fileVars
<1>2. OthersKept(s)
  BY DEF TickCmd, OthersKept, GoTo, IInv, TypeOK
<1>3. SlotInv(s)'
  BY SlotUntracked DEF TickCmd, GoTo, IInv, TypeOK, Untracked, Phases, Reading, Writing, Addressed
<1>4. FileHoldsSaved'
  BY FileFrame DEF TickCmd, IInv
<1> QED BY <1>1, <1>2, <1>3, <1>4, OneSlot

LEMMA TickId2OK == ASSUME IInv, NEW s \in Slots, TickId2(s) PROVE IInv'
<1>1. TypeOK'
  BY DEF TickId2, IInv, TypeOK, Answer, GoTo, Answers, Phases, fileVars
<1>2. OthersKept(s)
  BY DEF TickId2, OthersKept, GoTo, IInv, TypeOK
<1>3. SlotInv(s)'
  BY SlotUntracked DEF TickId2, GoTo, IInv, TypeOK, Untracked, Phases, Reading, Writing, Addressed
<1>4. FileHoldsSaved'
  BY FileFrame DEF TickId2, IInv
<1> QED BY <1>1, <1>2, <1>3, <1>4, OneSlot

LEMMA TickIdAck2OK == ASSUME IInv, NEW s \in Slots, TickIdAck2(s) PROVE IInv'
<1>1. TypeOK'
  BY DEF TickIdAck2, IInv, TypeOK, Answer, GoTo, Answers, Phases, fileVars
<1>2. OthersKept(s)
  BY DEF TickIdAck2, OthersKept, GoTo, IInv, TypeOK
<1>3. SlotInv(s)'
  BY SlotUntracked DEF TickIdAck2, GoTo, IInv, TypeOK, Untracked, Phases, Reading, Writing, Addressed
<1>4. FileHoldsSaved'
  BY FileFrame DEF TickIdAck2, IInv
<1> QED BY <1>1, <1>2, <1>3, <1>4, OneSlot

LEMMA TickIdDataOK == ASSUME IInv, NEW s \in Slots, TickIdData(s) PROVE IInv'
<1>1. TypeOK'
  BY DEF TickIdData, IInv, TypeOK, Answer, GoTo, Answers, Phases, fileVars
<1>2. OthersKept(s)
  BY DEF TickIdData, OthersKept, GoTo, IInv, TypeOK
<1>3. SlotInv(s)'
  BY SlotUntracked DEF TickIdData, GoTo, IInv, TypeOK, Untracked, Phases, Reading, Writing, Addressed
<1>4. FileHoldsSaved'
  BY FileFrame DEF TickIdData, IInv
<1> QED BY <1>1, <1>2, <1>3, <1>4, OneSlot

LEMMA TickWrEndOK == ASSUME IInv, NEW s \in Slots, TickWrEnd(s) PROVE IInv'
<1>0. WriteResult(s) \in Answers
  BY DEF WriteResult, Answers
<1>1. TypeOK'
  BY <1>0 DEF TickWrEnd, IInv, TypeOK, Answer, GoTo, Phases, fileVars
<1>2. OthersKept(s)
  BY DEF TickWrEnd, OthersKept, GoTo, IInv, TypeOK
<1>3. SlotInv(s)'
  BY SlotUntracked DEF TickWrEnd, GoTo, IInv, TypeOK, Untracked, Phases, Reading, Writing, Addressed
<1>4. FileHoldsSaved'
  BY FileFrame DEF TickWrEnd, IInv
<1> QED BY <1>1, <1>2, <1>3, <1>4, OneSlot

LEMMA ResetOK == ASSUME IInv, NEW s \in Slots, MCD_Reset(s) PROVE IInv'
<1>1. TypeOK'
  BY DEF MCD_Reset, IInv, TypeOK, Answer, GoTo, Answers, Phases, fileVars
<1>2. OthersKept(s)
  BY DEF MCD_Reset, OthersKept, GoTo, IInv, TypeOK
<1>3. SlotInv(s)'
  BY SlotUntracked DEF MCD_Reset, GoTo, IInv, TypeOK, Untracked, Phases, Reading, Writing, Addressed
<1>4. FileHoldsSaved'
  BY FileFrame DEF MCD_Reset, IInv
<1> QED BY <1>1, <1>2, <1>3, <1>4, OneSlot

-----------------------------------------------------------------------------
(* The address: the byte counter, the checksum and the history start       *)
(* afresh with its second byte.                                            *)
LEMMA TickAddrMsbOK == ASSUME IInv, NEW s \in Slots, NEW tx \in AddrBytes, TickAddrMsb(s, tx) PROVE IInv'
<1>0. tx \in Byte /\ tx * AddrBase \in Addresses
  BY AddressBytes, Constants
<1>1. TypeOK'
  BY <1>0 DEF TickAddrMsb, IInv, TypeOK, Answer, GoTo, Answers, Phases, fileVars
<1>2. OthersKept(s)
  BY DEF TickAddrMsb, OthersKept, GoTo, IInv, TypeOK
<1>3. phase'[s] = "ADDR_LSB" /\ sector'[s] = tx * AddrBase
  BY DEF TickAddrMsb, GoTo, IInv, TypeOK
<1>4. SlotInv(s)'
  BY <1>0, <1>3 DEF SlotInv, ReadTracks, WriteTracks, VerdictTracks, CountsTrack, ChecksumTracks,
                    Reading, Writing, Addressed
<1>5. FileHoldsSaved'
  BY FileFrame DEF TickAddrMsb, IInv
<1> QED BY <1>1, <1>2, <1>4, <1>5, OneSlot

LEMMA TickAddrLsbOK == ASSUME IInv, NEW s \in Slots, NEW tx \in AddrBytes, TickAddrLsb(s, tx) PROVE IInv'
<1>0. PICK b \in Byte : sector[s] = b * AddrBase
  BY DEF TickAddrLsb, IInv, CountsTrack
<1>1. /\ tx \in Byte /\ sector[s] + tx \in Addresses
      /\ (sector[s] + tx) \div AddrBase = b /\ (sector[s] + tx) % AddrBase = tx
      /\ sector[s] \div AddrBase = b /\ Xor(b, tx) \in Byte
  BY <1>0, AddressBytes, Constants
<1>2. TypeOK'
  BY <1>1 DEF TickAddrLsb, IInv, TypeOK, Answer, GoTo, Answers, Phases, fileVars
<1>3. OthersKept(s)
  BY DEF TickAddrLsb, OthersKept, GoTo, IInv, TypeOK
<1>4. /\ phase'[s] \in {"RD_ACK1", "WR_DATA"} /\ sector'[s] = sector[s] + tx
      /\ checksum'[s] = Xor(b, tx) /\ byte_count'[s] = 0 /\ moved'[s] = << >>
  BY <1>1 DEF TickAddrLsb, GoTo, IInv, TypeOK
<1>5. IsXorOf(checksum'[s], sector'[s], moved'[s])
  BY <1>1, <1>4, XorEmpty
<1>6. ReadTracks(s)' /\ WriteTracks(s)' /\ VerdictTracks(s)' /\ CountsTrack(s)'
  BY <1>4, Constants DEF ReadTracks, WriteTracks, VerdictTracks, CountsTrack, Reading, Writing
<1>7. ChecksumTracks(s)'
  BY <1>5 DEF ChecksumTracks, IsXorOf
<1>8. FileHoldsSaved'
  BY FileFrame DEF TickAddrLsb, IInv
<1> QED BY <1>2, <1>3, <1>6, <1>7, <1>8, OneSlot DEF SlotInv

(* The fixed bytes move from a phase to one that knows no more.            *)
LEMMA TickFixedOK == ASSUME IInv, NEW s \in Slots, TickFixed(s) PROVE IInv'
<1>0. PICK st \in FixedSteps : phase[s] = st[1] /\ Answer(s, st[2], 0) /\ GoTo(s, st[3])
  BY DEF TickFixed
<1>1. st[2] \in Answers /\ st[3] \in Phases
  BY DEF FixedSteps, Answers, Phases
<1>2. TypeOK'
  BY <1>0, <1>1 DEF TickFixed, IInv, TypeOK, Answer, GoTo, fileVars
<1>3. OthersKept(s)
  BY <1>0 DEF TickFixed, OthersKept, GoTo, IInv, TypeOK
<1>4. UNCHANGED <<data, sector, checksum, byte_count, wr_buf, flag_error, moved, matched>>
  BY DEF TickFixed
<1>5. /\ phase'[s] = st[3]
      /\ \/ phase'[s] \in Untracked
         \/ phase[s] = "RD_ACK1" /\ phase'[s] = "RD_ACK2"
         \/ phase[s] = "RD_END" /\ phase'[s] = "RD_COMPLETE"
         \/ phase[s] = "WR_ACK1" /\ phase'[s] = "WR_ACK2"
         \/ phase[s] = "WR_ACK2" /\ phase'[s] = "WR_END"
  BY <1>0 DEF FixedSteps, GoTo, IInv, TypeOK, Untracked, Phases, Addressed, Reading, Writing
<1>6. SlotInv(s)
  BY InvSplit
<1>7. SlotInv(s)'
  <2>1. CASE phase'[s] \in Untracked
    BY <2>1, SlotUntracked
  <2>2. CASE phase'[s] \notin Untracked
    <3>1. ReadTracks(s)' /\ WriteTracks(s)' /\ VerdictTracks(s)' /\ CountsTrack(s)'
      BY <1>4, <1>5, <1>6, <2>2
      DEF SlotInv, ReadTracks, WriteTracks, VerdictTracks, CountsTrack, Reading, Writing
    <3>2. ChecksumTracks(s)'
      BY <1>4, <1>5, <1>6, <2>2 DEF SlotInv, ChecksumTracks, IsXorOf, Addressed, Reading, Writing
    <3> QED BY <3>1, <3>2 DEF SlotInv
  <2> QED BY <2>1, <2>2
<1>8. FileHoldsSaved'
  BY FileFrame, <1>4 DEF TickFixed, IInv
<1> QED BY <1>2, <1>3, <1>7, <1>8, OneSlot

(* A read past the end of the card loses its address here, and the check   *)
(* at the address's second byte keeps it from the data.                    *)
LEMMA TickRdAck2OK == ASSUME IInv, NEW s \in Slots, TickRdAck2(s) PROVE IInv'
<1>0. /\ BadAddress \in Addresses /\ BadAddress \notin Sectors
      /\ \A a \in Addresses : (a < NumSectors) <=> (a \in Sectors)
  <2>1. AddrBase * AddrBase \in Int /\ NumSectors \in Nat \ {0} /\ NumSectors < AddrBase * AddrBase
    BY Constants, MemoryCardAssumption
  <2> QED BY <2>1 DEF BadAddress, Addresses, Sectors
<1>1. TypeOK'
  BY <1>0 DEF TickRdAck2, IInv, TypeOK, Answer, GoTo, Answers, Phases, fileVars
<1>2. OthersKept(s)
  BY DEF TickRdAck2, OthersKept, GoTo, IInv, TypeOK
<1>3. /\ phase[s] = "RD_ACK2" /\ phase'[s] = "RD_ADDR_MSB"
      /\ sector'[s] = (IF sector[s] < NumSectors THEN sector[s] ELSE BadAddress)
      /\ UNCHANGED <<data, checksum, byte_count, wr_buf, flag_error, moved, matched>>
  BY DEF TickRdAck2, GoTo, IInv, TypeOK
<1>4. SlotInv(s) /\ sector[s] \in Addresses
  BY InvSplit DEF TypeOK
<1>5. ReadTracks(s)' /\ WriteTracks(s)' /\ VerdictTracks(s)' /\ CountsTrack(s)'
  BY <1>3, <1>4
  DEF SlotInv, ReadTracks, WriteTracks, VerdictTracks, CountsTrack, Reading, Writing
<1>6. ChecksumTracks(s)'
  <2>1. CASE sector[s] < NumSectors
    BY <1>3, <1>4, <2>1 DEF SlotInv, ChecksumTracks, IsXorOf, Addressed
  <2>2. CASE ~(sector[s] < NumSectors)
    BY <1>0, <1>3, <2>2 DEF ChecksumTracks
  <2> QED BY <2>1, <2>2
<1>7. FileHoldsSaved'
  BY FileFrame, <1>3 DEF TickRdAck2, IInv
<1> QED BY <1>1, <1>2, <1>5, <1>6, <1>7, OneSlot DEF SlotInv

LEMMA TickRdAddrOK == ASSUME IInv, NEW s \in Slots, TickRdAddr(s) PROVE IInv'
<1>0. sector[s] \in Addresses /\ SlotInv(s)
  BY InvSplit DEF TypeOK
<1>1. TypeOK'
  <2> DEFINE hi == sector[s] \div AddrBase
             lo == sector[s] % AddrBase
  <2>1. hi \in Nat /\ lo \in Nat
    BY <1>0, AddressHalves
  <2>2. rx' = [rx EXCEPT ![s] = <<"addr", hi>>] \/ rx' = [rx EXCEPT ![s] = <<"addr", lo>>]
    BY DEF TickRdAddr, Answer
  <2> HIDE DEF hi, lo
  <2>0. rx \in [Slots -> Answers \X Nat] /\ "addr" \in Answers /\ phase \in [Slots -> Phases]
    BY DEF IInv, TypeOK, Answers
  <2>3. rx' \in [Slots -> Answers \X Nat]
    <3>1. CASE rx' = [rx EXCEPT ![s] = <<"addr", hi>>]
      BY <2>0, <2>1, <3>1
    <3>2. CASE rx' = [rx EXCEPT ![s] = <<"addr", lo>>]
      BY <2>0, <2>1, <3>2
    <3> QED BY <2>2, <3>1, <3>2
  <2>4. phase' \in [Slots -> Phases]
    <3>1. PICK p \in {"RD_ADDR_LSB", "RD_DATA", "IDLE"} : phase' = [phase EXCEPT ![s] = p]
      BY DEF TickRdAddr, GoTo
    <3> QED BY <2>0, <3>1 DEF Phases
  <2> QED BY <2>3, <2>4 DEF TickRdAddr, IInv, TypeOK, fileVars
<1>2. OthersKept(s)
  BY DEF TickRdAddr, OthersKept, GoTo, IInv, TypeOK
<1>3. /\ \/ phase[s] = "RD_ADDR_MSB" /\ phase'[s] = "RD_ADDR_LSB"
         \/ phase[s] = "RD_ADDR_LSB" /\ phase'[s] = "RD_DATA" /\ sector[s] < NumSectors
         \/ phase'[s] = "IDLE"
      /\ UNCHANGED <<data, sector, checksum, byte_count, wr_buf, flag_error, moved, matched>>
  <2>1. phase \in [Slots -> Phases]
    BY DEF IInv, TypeOK
  <2> QED BY <2>1 DEF TickRdAddr, GoTo
<1>4. ReadTracks(s)' /\ WriteTracks(s)' /\ VerdictTracks(s)' /\ CountsTrack(s)'
  <2>1. sector[s] < NumSectors => sector[s] \in Sectors
    BY <1>0, Constants DEF Addresses, Sectors
  <2>2. Len(<< >>) = 0 /\ 0 < SectorSize
    BY Constants
  <2> QED BY <1>0, <1>3, <2>1, <2>2
    DEF SlotInv, ReadTracks, WriteTracks, VerdictTracks, CountsTrack, Reading, Writing
<1>5. ChecksumTracks(s)'
  BY <1>0, <1>3, Constants DEF SlotInv, ChecksumTracks, IsXorOf, Addressed, Reading, Writing, Addresses, Sectors
<1>6. FileHoldsSaved'
  BY FileFrame, <1>3 DEF TickRdAddr, IInv
<1> QED BY <1>1, <1>2, <1>4, <1>5, <1>6, OneSlot DEF SlotInv

-----------------------------------------------------------------------------
(* One byte of the sector goes to the guest.                               *)
LEMMA TickRdDataOK == ASSUME IInv, NEW s \in Slots, TickRdData(s) PROVE IInv'
<1> DEFINE b == data[s][sector[s]][byte_count[s]]
<1>0. phase[s] = "RD_DATA" /\ SlotInv(s) /\ TypeOK
  BY InvSplit DEF TickRdData
<1>1. /\ sector[s] \in Sectors /\ byte_count[s] \in 0 .. SectorSize - 1 /\ Len(moved[s]) = byte_count[s]
      /\ moved[s] \in Seq(Byte) /\ checksum[s] \in Byte /\ sector[s] \in Addresses
      /\ data[s] \in Image
      /\ \A i \in 0 .. byte_count[s] - 1 : moved[s][i + 1] = data[s][sector[s]][i]
  BY <1>0, Constants DEF SlotInv, ReadTracks, Reading, TypeOK
<1>2. b \in Byte /\ b \in Nat /\ Xor(checksum[s], b) \in Byte
  <2>1. data[s][sector[s]] \in [0 .. SectorSize - 1 -> Byte]
    BY <1>1 DEF Image, Block
  <2>2. b \in Byte
    BY <1>1, <2>1
  <2> QED BY <1>1, <2>2, Constants
<1>3. IsXorOf(checksum[s], sector[s], moved[s])
  BY <1>0 DEF SlotInv, ChecksumTracks, Addressed, Reading
<1>4. /\ checksum' = [checksum EXCEPT ![s] = Xor(@, b)]
      /\ byte_count' = [byte_count EXCEPT ![s] = @ + 1]
      /\ phase' = [phase EXCEPT ![s] = IF byte_count[s] + 1 >= SectorSize THEN "RD_CHK" ELSE "RD_DATA"]
      /\ moved' = [moved EXCEPT ![s] = Append(@, b)]
      /\ rx' = [rx EXCEPT ![s] = <<"data", b>>]
      /\ UNCHANGED <<data, cmd, sector, wr_buf, flag_new, flag_error, loaded, fileVars, matched>>
  BY DEF TickRdData, Answer, GoTo
<1> HIDE DEF b
<1>5. TypeOK'
  BY <1>0, <1>2, <1>4 DEF TypeOK, Answers, Phases, fileVars
<1>6. OthersKept(s)
  BY <1>4 DEF OthersKept
<1>7. /\ phase'[s] \in {"RD_CHK", "RD_DATA"}
      /\ phase'[s] = "RD_DATA" <=> byte_count[s] + 1 < SectorSize
      /\ checksum'[s] = Xor(checksum[s], b) /\ byte_count'[s] = byte_count[s] + 1
      /\ moved'[s] = Append(moved[s], b) /\ sector'[s] = sector[s] /\ data'[s] = data[s]
  BY <1>0, <1>1, <1>4, Constants DEF TypeOK
<1>8. /\ Len(moved'[s]) = byte_count'[s]
      /\ \A i \in 0 .. byte_count'[s] - 1 : moved'[s][i + 1] = data'[s][sector'[s]][i]
  <2>1. Len(moved'[s]) = byte_count[s] + 1
    BY <1>1, <1>2, <1>7
  <2>2. ASSUME NEW i \in 0 .. byte_count[s] PROVE moved'[s][i + 1] = data[s][sector[s]][i]
    <3>1. CASE i = byte_count[s]
      BY <1>1, <1>2, <1>7, <3>1 DEF b
    <3>2. CASE i # byte_count[s]
      <4>1. i \in 0 .. byte_count[s] - 1 /\ i + 1 \in 1 .. Len(moved[s])
        BY <1>1, <3>2
      <4>2. Append(moved[s], b)[i + 1] = moved[s][i + 1]
        BY <1>1, <4>1
      <4> QED BY <1>1, <1>7, <4>1, <4>2
    <3> QED BY <3>1, <3>2
  <2>3. byte_count'[s] = byte_count[s] + 1 /\ 0 .. byte_count'[s] - 1 = 0 .. byte_count[s]
    BY <1>1, <1>7
  <2> QED BY <1>7, <2>1, <2>2, <2>3
<1>9. SlotInv(s)'
  <2>1. ReadTracks(s)'
    <3>1. sector'[s] \in Sectors
      BY <1>1, <1>7
    <3>2. IF phase'[s] = "RD_DATA" THEN byte_count'[s] < SectorSize ELSE byte_count'[s] = SectorSize
      BY <1>1, <1>7, Constants
    <3> QED BY <1>8, <3>1, <3>2 DEF ReadTracks
  <2>2. WriteTracks(s)' /\ VerdictTracks(s)' /\ CountsTrack(s)'
    BY <1>7 DEF WriteTracks, VerdictTracks, CountsTrack, Writing
  <2>3. IsXorOf(checksum'[s], sector'[s], moved'[s])
    BY <1>1, <1>2, <1>3, <1>7, XorAppend
  <2>4. ChecksumTracks(s)'
    BY <2>3 DEF ChecksumTracks, IsXorOf
  <2> QED BY <2>1, <2>2, <2>4 DEF SlotInv
<1>10. FileHoldsSaved'
  BY FileFrame, <1>4 DEF IInv
<1> QED BY <1>5, <1>6, <1>9, <1>10, OneSlot

LEMMA TickRdChkOK == ASSUME IInv, NEW s \in Slots, TickRdChk(s) PROVE IInv'
<1>0. checksum[s] \in Nat
  BY Constants DEF IInv, TypeOK
<1>1. TypeOK'
  BY <1>0 DEF TickRdChk, IInv, TypeOK, Answer, GoTo, Answers, Phases, fileVars
<1>2. OthersKept(s)
  BY DEF TickRdChk, OthersKept, GoTo, IInv, TypeOK
<1>3. /\ phase[s] = "RD_CHK" /\ phase'[s] = "RD_END" /\ SlotInv(s)
      /\ UNCHANGED <<data, sector, checksum, byte_count, wr_buf, flag_error, moved, matched>>
  BY InvSplit DEF TickRdChk, GoTo, IInv, TypeOK
<1>4. ReadTracks(s)' /\ WriteTracks(s)' /\ VerdictTracks(s)' /\ CountsTrack(s)'
  BY <1>3 DEF SlotInv, ReadTracks, WriteTracks, VerdictTracks, CountsTrack, Reading, Writing
<1>5. ChecksumTracks(s)'
  BY <1>3 DEF SlotInv, ChecksumTracks, IsXorOf, Addressed, Reading
<1>6. FileHoldsSaved'
  BY FileFrame, <1>3 DEF TickRdChk, IInv
<1> QED BY <1>1, <1>2, <1>4, <1>5, <1>6, OneSlot DEF SlotInv

-----------------------------------------------------------------------------
(* One byte from the guest goes to the buffer.                             *)
LEMMA TickWrDataOK == ASSUME IInv, NEW s \in Slots, NEW tx \in DataBytes, TickWrData(s, tx) PROVE IInv'
<1>0. phase[s] = "WR_DATA" /\ SlotInv(s) /\ TypeOK /\ tx \in Byte
  BY InvSplit, Constants DEF TickWrData
<1>1. /\ byte_count[s] \in 0 .. SectorSize - 1 /\ Len(moved[s]) = byte_count[s]
      /\ moved[s] \in Seq(Byte) /\ checksum[s] \in Byte /\ sector[s] \in Addresses
      /\ wr_buf[s] \in Block
      /\ \A i \in 0 .. byte_count[s] - 1 : moved[s][i + 1] = wr_buf[s][i]
  BY <1>0, Constants DEF SlotInv, WriteTracks, Writing, TypeOK
<1>2. Xor(checksum[s], tx) \in Byte
  BY <1>0, <1>1, Constants
<1>3. IsXorOf(checksum[s], sector[s], moved[s])
  BY <1>0 DEF SlotInv, ChecksumTracks, Addressed, Writing
<1>4. /\ checksum' = [checksum EXCEPT ![s] = Xor(@, tx)]
      /\ wr_buf' = [wr_buf EXCEPT ![s] = [@ EXCEPT ![byte_count[s]] = tx]]
      /\ byte_count' = [byte_count EXCEPT ![s] = @ + 1]
      /\ phase' = [phase EXCEPT ![s] = IF byte_count[s] + 1 >= SectorSize THEN "WR_CHK" ELSE "WR_DATA"]
      /\ moved' = [moved EXCEPT ![s] = Append(@, tx)]
      /\ rx' = [rx EXCEPT ![s] = <<"00", 0>>]
      /\ UNCHANGED <<data, cmd, sector, flag_new, flag_error, loaded, fileVars, matched>>
  BY DEF TickWrData, Answer, GoTo
<1>5. TypeOK'
  <2>1. wr_buf' \in [Slots -> Block]
    BY <1>0, <1>1, <1>4 DEF TypeOK, Block
  <2> QED BY <1>0, <1>2, <1>4, <2>1 DEF TypeOK, Answers, Phases, fileVars
<1>6. OthersKept(s)
  BY <1>4 DEF OthersKept
<1>7. /\ phase'[s] \in {"WR_CHK", "WR_DATA"}
      /\ phase'[s] = "WR_DATA" <=> byte_count[s] + 1 < SectorSize
      /\ checksum'[s] = Xor(checksum[s], tx) /\ byte_count'[s] = byte_count[s] + 1
      /\ moved'[s] = Append(moved[s], tx) /\ sector'[s] = sector[s]
      /\ wr_buf'[s] = [wr_buf[s] EXCEPT ![byte_count[s]] = tx]
  BY <1>0, <1>1, <1>4, Constants DEF TypeOK
<1>8. /\ Len(moved'[s]) = byte_count'[s]
      /\ \A i \in 0 .. byte_count'[s] - 1 : moved'[s][i + 1] = wr_buf'[s][i]
  <2>1. Len(moved'[s]) = byte_count[s] + 1
    BY <1>0, <1>1, <1>7
  <2>2. ASSUME NEW i \in 0 .. byte_count[s] PROVE moved'[s][i + 1] = wr_buf'[s][i]
    <3> DEFINE q == moved[s]
               w == wr_buf[s]
               n == byte_count[s]
    <3>1. /\ q \in Seq(Byte) /\ Len(q) = n /\ n \in 0 .. SectorSize - 1 /\ tx \in Byte
          /\ w \in [0 .. SectorSize - 1 -> Byte] /\ \A j \in 0 .. n - 1 : q[j + 1] = w[j]
          /\ SectorSize \in Nat
      BY <1>0, <1>1, Constants DEF Block
    <3>2. moved'[s] = Append(q, tx) /\ wr_buf'[s] = [w EXCEPT ![n] = tx] /\ i \in 0 .. n
      BY <1>7
    <3> HIDE DEF q, w, n
    <3>3. CASE i = n
      BY <3>1, <3>2, <3>3
    <3>4. CASE i # n
      BY <3>1, <3>2, <3>4
    <3> QED BY <3>3, <3>4
  <2> QED BY <1>1, <1>7, <2>1, <2>2
<1>9. SlotInv(s)'
  <2>1. WriteTracks(s)'
    <3>1. IF phase'[s] = "WR_DATA" THEN byte_count'[s] < SectorSize ELSE byte_count'[s] = SectorSize
      BY <1>1, <1>7, Constants
    <3> QED BY <1>8, <3>1 DEF WriteTracks
  <2>2. ReadTracks(s)' /\ VerdictTracks(s)' /\ CountsTrack(s)'
    BY <1>7 DEF ReadTracks, VerdictTracks, CountsTrack, Reading
  <2>3. IsXorOf(checksum'[s], sector'[s], moved'[s])
    BY <1>0, <1>1, <1>3, <1>7, XorAppend
  <2>4. ChecksumTracks(s)'
    BY <2>3 DEF ChecksumTracks, IsXorOf
  <2> QED BY <2>1, <2>2, <2>4 DEF SlotInv
<1>10. FileHoldsSaved'
  BY FileFrame, <1>4 DEF IInv
<1> QED BY <1>5, <1>6, <1>9, <1>10, OneSlot

-----------------------------------------------------------------------------
(* What reaches the file when image is saved with sector k of it new: the  *)
(* slot's file, whether it exists and what is unsaved, in each of the ways *)
(* mcd_save_sector may end.                                                *)
LEMMA SaveOK ==
  ASSUME TypeOK, NEW s \in Slots, NEW image \in Image, sector[s] \in Sectors,
         \A k \in Sectors : k \notin unsaved[s] => exists[s] /\ file[s][k] = data[s][k],
         \A k \in Sectors \ {sector[s]} : image[k] = data[s][k],
         mcd_save_sector(s, image)
  PROVE  /\ file' \in [Slots -> Image] /\ exists' \in [Slots -> BOOLEAN]
         /\ unsaved' \in [Slots -> SUBSET Sectors]
         /\ \A k \in Sectors : k \notin unsaved'[s] => exists'[s] /\ file'[s][k] = image[k]
         /\ \A t \in Slots \ {s} :
              file'[t] = file[t] /\ exists'[t] = exists[t] /\ unsaved'[t] = unsaved[t]
<1> DEFINE c == sector[s]
<1>0. /\ file \in [Slots -> Image] /\ exists \in [Slots -> BOOLEAN] /\ unsaved \in [Slots -> SUBSET Sectors]
      /\ SectorSize \in Nat \ {0} /\ NumSectors \in Nat \ {0} /\ ZeroBlock \in Block
      /\ c \in Sectors
  BY Constants DEF TypeOK
<1>1. ASSUME exists[s], NEW n \in 0 .. SectorSize, SavePrefix(s, n, image[c]), UNCHANGED exists
      PROVE  /\ file' \in [Slots -> Image] /\ exists' \in [Slots -> BOOLEAN]
             /\ unsaved' \in [Slots -> SUBSET Sectors]
             /\ \A k \in Sectors : k \notin unsaved'[s] => exists'[s] /\ file'[s][k] = image[k]
             /\ \A t \in Slots \ {s} :
                  file'[t] = file[t] /\ exists'[t] = exists[t] /\ unsaved'[t] = unsaved[t]
  <2> DEFINE new == image[c]
             old == file[s][c]
             blk == [i \in DOMAIN new |-> IF i < n THEN new[i] ELSE old[i]]
  <2>1. new \in [0 .. SectorSize - 1 -> Byte] /\ old \in [0 .. SectorSize - 1 -> Byte]
    BY <1>0 DEF Image, Block
  <2>2. file' = [file EXCEPT ![s] = [@ EXCEPT ![c] = blk]]
    BY <1>0, <1>1 DEF SavePrefix
  <2>3. unsaved' = [unsaved EXCEPT ![s] = IF n = SectorSize THEN @ \ {c} ELSE @ \cup {c}]
    BY <1>1 DEF SavePrefix
  <2> HIDE DEF new, old, c
  <2>4. blk \in Block /\ (n = SectorSize => blk = new)
    BY <1>0, <2>1 DEF Block
  <2> HIDE DEF blk
  <2>5. file' \in [Slots -> Image]
    BY <1>0, <2>2, <2>4 DEF Image
  <2>6. unsaved' \in [Slots -> SUBSET Sectors]
    BY <1>0, <2>3
  <2>7. /\ file'[s] = [file[s] EXCEPT ![c] = blk]
        /\ unsaved'[s] = IF n = SectorSize THEN unsaved[s] \ {c} ELSE unsaved[s] \cup {c}
    BY <1>0, <2>2, <2>3
  <2>8. ASSUME NEW k \in Sectors, k \notin unsaved'[s] PROVE exists'[s] /\ file'[s][k] = image[k]
    <3>1. CASE k = c
      BY <1>0, <1>1, <2>4, <2>7, <2>8, <3>1 DEF Image, new
    <3>2. CASE k # c
      BY <1>0, <1>1, <2>7, <2>8, <3>2 DEF Image, c
    <3> QED BY <3>1, <3>2
  <2>9. \A t \in Slots \ {s} : file'[t] = file[t] /\ exists'[t] = exists[t] /\ unsaved'[t] = unsaved[t]
    BY <1>0, <1>1, <2>2, <2>3
  <2> QED BY <1>0, <1>1, <2>5, <2>6, <2>8, <2>9
<1>2. ASSUME NEW n \in 0 .. NumSectors, file' = [file EXCEPT ![s] = CardPrefix(n, image)],
             exists' = [exists EXCEPT ![s] = TRUE], unsaved' = [unsaved EXCEPT ![s] = n .. NumSectors - 1]
      PROVE  /\ file' \in [Slots -> Image] /\ exists' \in [Slots -> BOOLEAN]
             /\ unsaved' \in [Slots -> SUBSET Sectors]
             /\ \A k \in Sectors : k \notin unsaved'[s] => exists'[s] /\ file'[s][k] = image[k]
             /\ \A t \in Slots \ {s} :
                  file'[t] = file[t] /\ exists'[t] = exists[t] /\ unsaved'[t] = unsaved[t]
  <2>1. CardPrefix(n, image) \in Image /\ \A k \in Sectors : k < n => CardPrefix(n, image)[k] = image[k]
    BY <1>0 DEF CardPrefix, Image
  <2>2. n .. NumSectors - 1 \in SUBSET Sectors /\ \A k \in Sectors : k \notin n .. NumSectors - 1 => k < n
    BY <1>0 DEF Sectors
  <2> QED BY <1>0, <1>2, <2>1, <2>2
<1>3. ASSUME unsaved' = [unsaved EXCEPT ![s] = @ \cup {c}], UNCHANGED <<file, exists>>
      PROVE  /\ file' \in [Slots -> Image] /\ exists' \in [Slots -> BOOLEAN]
             /\ unsaved' \in [Slots -> SUBSET Sectors]
             /\ \A k \in Sectors : k \notin unsaved'[s] => exists'[s] /\ file'[s][k] = image[k]
             /\ \A t \in Slots \ {s} :
                  file'[t] = file[t] /\ exists'[t] = exists[t] /\ unsaved'[t] = unsaved[t]
  BY <1>0, <1>3
<1> QED BY <1>1, <1>2, <1>3 DEF mcd_save_sector

(* The checksum byte: the sector is stored and saved, or nothing happens.  *)
LEMMA TickWrChkOK == ASSUME IInv, NEW s \in Slots, NEW tx \in Byte, TickWrChk(s, tx) PROVE IInv'
<1>0. phase[s] = "WR_CHK" /\ SlotInv(s) /\ TypeOK /\ FileHoldsSaved
  BY InvSplit DEF TickWrChk
<1>1. /\ rx' = [rx EXCEPT ![s] = <<"00", 0>>]
      /\ flag_error' = [flag_error EXCEPT ![s] = @ \/ tx # checksum[s]]
      /\ matched' = [matched EXCEPT ![s] = (tx = checksum[s])]
      /\ phase' = [phase EXCEPT ![s] = "WR_ACK1"]
      /\ UNCHANGED <<cmd, sector, checksum, byte_count, wr_buf, loaded, moved>>
  BY DEF TickWrChk, Answer, GoTo
<1>2. /\ phase'[s] = "WR_ACK1" /\ matched'[s] = (tx = checksum[s])
      /\ flag_error'[s] = (flag_error[s] \/ tx # checksum[s])
  BY <1>0, <1>1 DEF TypeOK
<1>3. /\ rx' \in [Slots -> Answers \X Nat] /\ flag_error' \in [Slots -> BOOLEAN]
      /\ matched' \in [Slots -> BOOLEAN] /\ phase' \in [Slots -> Phases]
  BY <1>0, <1>1 DEF TypeOK, Answers, Phases
<1>4. WriteCommits(s, tx) => sector[s] \in Sectors
  BY <1>0, Constants DEF WriteCommits, TypeOK, Addresses, Sectors
<1>5. /\ data' \in [Slots -> Image] /\ flag_new' \in [Slots -> BOOLEAN]
      /\ file' \in [Slots -> Image] /\ exists' \in [Slots -> BOOLEAN] /\ unsaved' \in [Slots -> SUBSET Sectors]
      /\ FileHoldsSaved'
      /\ \A t \in Slots \ {s} : data'[t] = data[t]
      /\ WriteCommits(s, tx) => data'[s][sector[s]] = wr_buf[s]
  <2>1. CASE WriteCommits(s, tx)
    <3>1. /\ data' = [data EXCEPT ![s] = [@ EXCEPT ![sector[s]] = wr_buf[s]]]
          /\ mcd_save_sector(s, data'[s]) /\ flag_new' = [flag_new EXCEPT ![s] = FALSE]
      BY <2>1 DEF TickWrChk
    <3>2. /\ data \in [Slots -> Image] /\ wr_buf[s] \in Block /\ sector[s] \in Sectors
          /\ flag_new \in [Slots -> BOOLEAN]
      BY <1>0, <1>4, <2>1 DEF TypeOK
    <3>3. /\ data' \in [Slots -> Image] /\ data'[s][sector[s]] = wr_buf[s]
          /\ \A k \in Sectors \ {sector[s]} : data'[s][k] = data[s][k]
          /\ \A t \in Slots \ {s} : data'[t] = data[t]
      BY <3>1, <3>2 DEF Image
    <3>4. /\ file' \in [Slots -> Image] /\ exists' \in [Slots -> BOOLEAN]
          /\ unsaved' \in [Slots -> SUBSET Sectors]
          /\ \A k \in Sectors : k \notin unsaved'[s] => exists'[s] /\ file'[s][k] = data'[s][k]
          /\ \A t \in Slots \ {s} :
               file'[t] = file[t] /\ exists'[t] = exists[t] /\ unsaved'[t] = unsaved[t]
      BY <1>0, <3>1, <3>2, <3>3, SaveOK DEF FileHoldsSaved
    <3>5. FileHoldsSaved'
      BY <1>0, <3>3, <3>4 DEF FileHoldsSaved
    <3> QED BY <3>1, <3>2, <3>3, <3>4, <3>5
  <2>2. CASE ~WriteCommits(s, tx)
    <3>1. UNCHANGED <<data, fileVars, flag_new>>
      BY <2>2 DEF TickWrChk
    <3> QED BY <1>0, <2>2, <3>1, FileFrame DEF TypeOK, fileVars
  <2> QED BY <2>1, <2>2
<1>6. TypeOK'
  BY <1>0, <1>1, <1>3, <1>5 DEF TypeOK
<1>7. OthersKept(s)
  BY <1>1, <1>5 DEF OthersKept
<1>8. SlotInv(s)'
  <2>1. ReadTracks(s)' /\ WriteTracks(s)' /\ CountsTrack(s)'
    BY <1>0, <1>1, <1>2 DEF SlotInv, ReadTracks, WriteTracks, CountsTrack, Reading, Writing
  <2>2. ChecksumTracks(s)'
    BY <1>0, <1>1, <1>2 DEF SlotInv, ChecksumTracks, IsXorOf, Addressed, Writing
  <2>3. VerdictTracks(s)'
    <3>1. ~matched'[s] => flag_error'[s]
      <4>1. CASE tx = checksum[s]
        <5>1. matched'[s] = TRUE
          BY <1>2, <4>1
        <5> QED BY <5>1
      <4>2. CASE tx # checksum[s]
        <5>1. flag_error'[s] = TRUE
          BY <1>2, <4>2
        <5> QED BY <5>1
      <4> QED BY <4>1, <4>2
    <3>2. matched'[s] /\ sector[s] \in Sectors => WriteCommits(s, tx)
      <4>1. CASE tx = checksum[s]
        BY <4>1, Constants DEF WriteCommits, Sectors
      <4>2. CASE tx # checksum[s]
        <5>1. matched'[s] = FALSE
          BY <1>2, <4>2
        <5> QED BY <5>1
      <4> QED BY <4>1, <4>2
    <3> QED BY <1>1, <1>5, <3>1, <3>2 DEF VerdictTracks
  <2> QED BY <2>1, <2>2, <2>3 DEF SlotInv
<1> QED BY <1>5, <1>6, <1>7, <1>8, OneSlot

(* A restart: the files are loaded, or cards are formatted.                *)
LEMMA RestartOK == ASSUME IInv, Restart PROVE IInv'
<1>0. PICK made \in [Slots -> -1 .. NumSectors] :
        /\ exists' = [s \in Slots |-> exists[s] \/ made[s] >= 0]
        /\ file' = [s \in Slots |-> IF exists[s] THEN file[s] ELSE CardPrefix(made[s], Formatted)]
        /\ unsaved' = [s \in Slots |-> IF exists[s] THEN {} ELSE {k \in Sectors : k >= made[s]}]
  BY DEF Restart
<1>1. data' = [s \in Slots |-> IF exists[s] THEN file[s] ELSE Formatted]
  BY DEF Restart
<1>2. TypeOK /\ Formatted \in Image /\ ZeroBlock \in Block /\ 0 \in Byte
  BY Constants DEF IInv
<1>3. ASSUME NEW s \in Slots
      PROVE  /\ CardPrefix(made[s], Formatted) \in Image
             /\ \A k \in Sectors : k < made[s] => CardPrefix(made[s], Formatted)[k] = Formatted[k]
  BY <1>2 DEF CardPrefix, Image
<1>4. data' \in [Slots -> Image] /\ file' \in [Slots -> Image] /\ unsaved' \in [Slots -> SUBSET Sectors]
      /\ exists' \in [Slots -> BOOLEAN]
  BY <1>0, <1>1, <1>2, <1>3 DEF TypeOK
<1>5. 0 \in Addresses
  <2>1. 0 * AddrBase \in Addresses
    BY AddressBytes, Constants
  <2> QED BY <2>1, Constants
<1>6. /\ phase' \in [Slots -> Phases] /\ rx' \in [Slots -> Answers \X Nat] /\ moved' \in [Slots -> Seq(Byte)]
      /\ cmd' \in [Slots -> Byte] /\ checksum' \in [Slots -> Byte] /\ wr_buf' \in [Slots -> Block]
      /\ sector' \in [Slots -> Addresses] /\ byte_count' \in [Slots -> Nat]
      /\ flag_new' \in [Slots -> BOOLEAN] /\ flag_error' \in [Slots -> BOOLEAN]
      /\ matched' \in [Slots -> BOOLEAN]
  BY <1>2, <1>5 DEF Restart, Phases, Answers
<1>7. TypeOK'
  BY <1>2, <1>4, <1>6 DEF TypeOK, Restart
<1>8. ASSUME NEW s \in Slots PROVE SlotInv(s)'
  <2>1. phase'[s] \in Untracked
    BY DEF Restart, Untracked, Phases, Addressed, Reading, Writing
  <2> QED BY <2>1, SlotUntracked
<1>9. FileHoldsSaved'
  <2> SUFFICES ASSUME NEW s \in Slots, NEW k \in Sectors, k \notin unsaved'[s]
               PROVE  exists'[s] /\ file'[s][k] = data'[s][k]
    BY DEF FileHoldsSaved
  <2>1. CASE exists[s]
    BY <1>0, <1>1, <2>1
  <2>2. CASE ~exists[s]
    <3>1. made[s] \in Int /\ k \in Nat /\ ~(k >= made[s])
      BY <1>0, <2>2, Constants DEF Sectors
    <3>2. exists'[s] = (exists[s] \/ made[s] >= 0) /\ made[s] >= 0
      BY <1>0, <3>1
    <3>3. exists'[s]
      BY <3>2
    <3>4. file'[s][k] = Formatted[k] /\ data'[s] = Formatted
      BY <1>0, <1>1, <1>3, <2>2, <3>1
    <3> QED BY <3>3, <3>4
  <2> QED BY <2>1, <2>2
<1> QED BY <1>7, <1>8, <1>9 DEF IInv, SlotInv

-----------------------------------------------------------------------------
LEMMA StepOK == ASSUME IInv, [MCNext]_mcVars PROVE IInv'
<1>1. ASSUME NEW s \in Slots, MCD_Tick(s) PROVE IInv'
  <2>1. CASE Absent(s)
    BY <2>1, AbsentOK
  <2>2. ASSUME NEW tx \in Byte, TickIdle(s, tx) \/ TickCmd(s, tx) \/ TickWrChk(s, tx) PROVE IInv'
    BY <2>2, TickIdleOK, TickCmdOK, TickWrChkOK
  <2>3. ASSUME NEW tx \in AddrBytes, TickAddrMsb(s, tx) \/ TickAddrLsb(s, tx) PROVE IInv'
    BY <2>3, TickAddrMsbOK, TickAddrLsbOK
  <2>4. ASSUME NEW tx \in DataBytes, TickWrData(s, tx) PROVE IInv'
    BY <2>4, TickWrDataOK
  <2>5. CASE TickFixed(s) \/ TickId2(s)
    BY <2>5, TickFixedOK, TickId2OK
  <2>6. CASE TickRdAck2(s) \/ TickRdAddr(s) \/ TickRdData(s) \/ TickRdChk(s)
    BY <2>6, TickRdAck2OK, TickRdAddrOK, TickRdDataOK, TickRdChkOK
  <2>7. CASE TickWrEnd(s) \/ TickIdAck2(s) \/ TickIdData(s)
    BY <2>7, TickWrEndOK, TickIdAck2OK, TickIdDataOK
  <2> QED BY <1>1, <2>1, <2>2, <2>3, <2>4, <2>5, <2>6, <2>7 DEF MCD_Tick
<1>2. ASSUME NEW s \in Slots, MCD_Reset(s) PROVE IInv'
  BY <1>2, ResetOK
<1>3. CASE Restart
  BY <1>3, RestartOK
<1>4. CASE UNCHANGED mcVars
  <2>1. TypeOK' /\ FileHoldsSaved'
    BY <1>4, FileFrame DEF mcVars, protoVars, fileVars, IInv, TypeOK
  <2>2. ASSUME NEW s \in Slots PROVE SlotInv(s)'
    BY <1>4, SlotFrame, InvSplit DEF mcVars, protoVars
  <2> QED BY <2>1, <2>2 DEF IInv, SlotInv
<1> QED BY <1>1, <1>2, <1>3, <1>4 DEF MCNext

(* The invariant of the card holds in every reachable state.               *)
THEOREM CardInvariant == MCSpec => []IInv
<1>1. MCInit => IInv
  BY InitInv
<1>2. IInv /\ [MCNext]_mcVars => IInv'
  BY StepOK
<1> QED BY <1>1, <1>2, PTL DEF MCSpec

(* A read that reaches its end byte handed out exactly the sector, and the *)
(* checksum sent or compared is that of the address and the data bytes of  *)
(* this exchange alone (MCD_Tick), whatever was abandoned before.          *)
THEOREM ExchangesAreFaithful == MCSpec => []ExchangeIsFaithful
<1>1. IInv => ExchangeIsFaithful
  <2> SUFFICES ASSUME IInv PROVE ExchangeIsFaithful
    OBVIOUS
  <2>1. ASSUME NEW s \in Slots, phase[s] \in {"RD_END", "RD_COMPLETE"}
        PROVE  Len(moved[s]) = SectorSize /\ AsBlock(moved[s]) = data[s][sector[s]]
    <3>1. /\ Len(moved[s]) = SectorSize /\ sector[s] \in Sectors /\ data[s] \in Image
          /\ \A i \in 0 .. SectorSize - 1 : moved[s][i + 1] = data[s][sector[s]][i]
      BY <2>1 DEF IInv, TypeOK, ReadTracks, Reading
    <3>2. data[s][sector[s]] \in [0 .. SectorSize - 1 -> Byte]
      BY <3>1 DEF Image, Block
    <3> QED BY <3>1, <3>2 DEF AsBlock
  <2>2. ASSUME NEW s \in Slots, phase[s] \in {"RD_CHK", "WR_CHK"}
        PROVE  IsXorOf(checksum[s], sector[s], moved[s])
    BY <2>2 DEF IInv, ChecksumTracks, Addressed, Reading, Writing
  <2> QED BY <2>1, <2>2 DEF IInv, ExchangeIsFaithful, ReadIsFaithful, ChecksumIsXor
<1> QED BY <1>1, CardInvariant, PTL

(* Through failed and short writes and restarts at any byte, the file      *)
(* holds every sector whose save is not known to have failed.              *)
THEOREM FileAlwaysHoldsSaved == MCSpec => []FileHoldsSaved
<1>1. IInv => FileHoldsSaved
  BY DEF IInv
<1> QED BY <1>1, CardInvariant, PTL

-----------------------------------------------------------------------------
(* The bytes a finished write has gathered are the buffer.                 *)
LEMMA BufferIsMoved ==
  ASSUME IInv, NEW s \in Slots, phase[s] \in {"WR_CHK", "WR_ACK1", "WR_ACK2", "WR_END"}
  PROVE  Len(moved[s]) = SectorSize /\ AsBlock(moved[s]) = wr_buf[s]
<1>1. /\ Len(moved[s]) = SectorSize /\ wr_buf[s] \in [0 .. SectorSize - 1 -> Byte]
      /\ \A i \in 0 .. SectorSize - 1 : moved[s][i + 1] = wr_buf[s][i]
  BY DEF IInv, TypeOK, WriteTracks, Writing, Block
<1> QED BY <1>1 DEF AsBlock

(* The image changes at a restart or by one whole sector that the guest    *)
(* sent under a matching checksum (the commit in MCD_Tick's WR_CHK phase). *)
THEOREM WritesAreWhole == MCSpec => OnlyWholeWrites
<1>1. ASSUME IInv, [MCNext]_mcVars PROVE [WholeWrite]_mcVars
  <2> SUFFICES ASSUME MCNext, data' # data, ~Restart
               PROVE  \E s \in Slots :
                        /\ phase[s] = "WR_CHK" /\ matched'[s]
                        /\ Len(moved[s]) = SectorSize
                        /\ data' = [data EXCEPT ![s][sector[s]] = AsBlock(moved[s])]
    BY <1>1 DEF WholeWrite
  <2>1. PICK s \in Slots : MCD_Tick(s)
    BY DEF MCNext, MCD_Reset
  <2>2. PICK tx \in Byte : TickWrChk(s, tx)
    BY <2>1 DEF MCD_Tick, Absent, TickIdle, TickCmd, TickAddrMsb, TickAddrLsb, TickWrData, TickFixed, TickId2,
                TickRdAck2, TickRdAddr, TickRdData, TickRdChk, TickWrEnd, TickIdAck2, TickIdData
  <2>3. WriteCommits(s, tx) /\ phase[s] = "WR_CHK" /\ data' = [data EXCEPT ![s][sector[s]] = wr_buf[s]]
    BY <2>2 DEF TickWrChk
  <2>4. matched'[s] = TRUE
    BY <1>1, <2>2, <2>3 DEF TickWrChk, WriteCommits, IInv, TypeOK
  <2>5. Len(moved[s]) = SectorSize /\ AsBlock(moved[s]) = wr_buf[s]
    BY <1>1, <2>3, BufferIsMoved
  <2> QED BY <2>3, <2>4, <2>5
<1>2. IInv /\ [MCNext]_mcVars => [WholeWrite]_mcVars
  BY <1>1
<1> QED BY <1>2, CardInvariant, PTL DEF MCSpec, OnlyWholeWrites

(* 0x47 ends a write only when the sector holds what the guest sent.       *)
THEOREM GoodAlwaysMeansStored == MCSpec => GoodMeansStored
<1>1. ASSUME IInv, [MCNext]_mcVars PROVE [GoodIsStored]_mcVars
  <2> SUFFICES ASSUME MCNext, NEW s \in Slots,
                      phase[s] = "WR_END", rx'[s][1] = "47", phase'[s] = "IDLE"
               PROVE  data[s][sector[s]] = AsBlock(moved[s])
    BY <1>1 DEF GoodIsStored
  <2>0. TypeOK
    BY <1>1 DEF IInv
  <2>1. ~Restart
    BY DEF Restart
  <2>2. PICK t \in Slots : MCD_Tick(t) \/ MCD_Reset(t)
    BY <2>1 DEF MCNext
  <2>3. t = s
    <3>1. \A u \in Slots \ {t} : phase'[u] = phase[u]
      BY <2>0, <2>2
      DEF MCD_Tick, MCD_Reset, Absent, TickIdle, TickCmd, TickAddrMsb, TickAddrLsb, TickWrData, TickFixed, TickId2,
          TickRdAck2, TickRdAddr, TickRdData, TickRdChk, TickWrEnd, TickIdAck2, TickIdData, TickWrChk,
          TypeOK, GoTo, protoVars
    <3> QED BY <3>1
  <2>4. ~MCD_Reset(s)
    BY <2>0 DEF MCD_Reset, Answer, TypeOK
  <2>5. MCD_Tick(s) /\ ~Absent(s)
    BY <2>2, <2>3, <2>4 DEF Absent, protoVars
  <2>6. TickWrEnd(s)
    BY <2>5
    DEF MCD_Tick, TickIdle, TickCmd, TickAddrMsb, TickAddrLsb, TickWrData, TickFixed, FixedSteps, TickId2,
        TickRdAck2, TickRdAddr, TickRdData, TickRdChk, TickIdAck2, TickIdData, TickWrChk
  <2>7. WriteResult(s) = "47"
    BY <2>0, <2>6 DEF TickWrEnd, Answer, TypeOK
  <2>8. sector[s] \in Sectors /\ ~flag_error[s]
    BY <2>0, <2>7, Constants DEF WriteResult, TypeOK, Addresses, Sectors
  <2>9. data[s][sector[s]] = wr_buf[s]
    BY <1>1, <2>8 DEF IInv, VerdictTracks
  <2> QED BY <1>1, <2>9, BufferIsMoved
<1>2. IInv /\ [MCNext]_mcVars => [GoodIsStored]_mcVars
  BY <1>1
<1> QED BY <1>2, CardInvariant, PTL DEF MCSpec, GoodMeansStored
=============================================================================
