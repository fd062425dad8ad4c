---------------------------- MODULE MCMemoryCard ----------------------------
(* One card with two-byte sectors and two-bit bytes.                       *)
EXTENDS MemoryCard

Bits(b) == <<b \div 2, b % 2>>
MCXor(a, b) == 2 * ((Bits(a)[1] + Bits(b)[1]) % 2) + ((Bits(a)[2] + Bits(b)[2]) % 2)
\* A card whose sectors, and whose bytes in a sector, differ.
MCFormatted == [k \in Sectors |-> [i \in 0 .. SectorSize - 1 |-> IF i = 0 THEN k ELSE 2]]
=============================================================================
