------------------------------ MODULE MCCdrom ------------------------------
(* Small instances of Cdrom: what the guest does, and the scaled delays.   *)
EXTENDS Cdrom

AllInts == {IntTypes}
=============================================================================
