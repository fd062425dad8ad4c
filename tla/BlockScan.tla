----------------------------- MODULE BlockScan -----------------------------
(***************************************************************************)
(* The analyses that src/dynarec_compile.c makes of a block before it is   *)
(* compiled: its end, the registers written before they are read, dead     *)
(* instructions, constants left by a LUI before the block, and the stalls  *)
(* of the geometry coprocessor.                                            *)
(*                                                                         *)
(* A program is chosen at the start and run twice, with and without its    *)
(* dead instructions.  The value of a register is the position of the      *)
(* instruction that produced it, 0 for a value from before.                *)
(***************************************************************************)
EXTENDS Integers, Sequences

CONSTANTS Programs,      \* sequences of [kind, d, s]: destination and sources
          ScanRegs,
          MaxBack,       \* 8: how far scan_backwards_for_lui looks
          GtePipeline    \* cycles of a GTE command

ScanKinds == {"alu", "lui", "mfhi", "mult", "load", "lwx", "store", "branch", "jump", "jal", "jr",
              "syscall", "mfc", "mtc", "cfc", "cop2", "lwc2"}
NoSources == {"lui", "mfhi", "jump", "jal", "syscall", "mfc", "cfc", "cop2"}
ScanInsns ==
  {i \in [kind : ScanKinds, d : ScanRegs \cup {0}, s : SUBSET (ScanRegs \cup {0})] :
     i.kind \in NoSources => i.s = {}}

ASSUME ScanAssumption ==
  /\ 0 \notin ScanRegs /\ Programs \subseteq Seq(ScanInsns)
  /\ MaxBack \in Nat /\ GtePipeline \in Nat \ {0}

VARIABLES code, start,   \* the program, and where the block begins
          pos,           \* the next instruction
          full, lean,    \* registers and the loads in flight, dead code kept and dropped
          cycles, stall, \* block_cycle_count, gte_stall_remaining
          gteDone        \* when the GTE will really have finished

scanVars == <<code, start, pos, full, lean, cycles, stall, gteDone>>

-----------------------------------------------------------------------------
IsJump(i) == i.kind \in {"jump", "jal", "jr"}
EndsBlock(i) == IsJump(i) \/ i.kind = "branch"

\* Mutant of dce_dest_gpr: a load kills the old value at once.
dce_dest_gpr_loads(i) == IF i.kind \in {"alu", "lui", "mfhi", "jal", "load"} THEN {i.d} \ {0} ELSE {}
(* Loads are not listed: their delay slot still reads the old value.       *)
dce_dest_gpr(i) == IF i.kind \in {"alu", "lui", "mfhi", "jal"} THEN {i.d} \ {0} ELSE {}

dce_read_mask(i) ==
  CASE i.kind \in {"alu", "mult", "store", "mtc", "branch", "jr", "load", "lwc2"} -> i.s \ {0}
    [] i.kind = "lwx" -> (i.s \cup {i.d}) \ {0}
    [] OTHER -> {}
dce_is_pure(i) == i.kind \in {"alu", "lui", "mfhi"}
scan_write_mask(i) ==
  IF i.kind \in {"alu", "lui", "mfhi", "jal", "load", "lwx", "mfc", "cfc"} THEN {i.d} \ {0} ELSE {}

(* block_scan: up to a delay slot, a SYSCALL or the end.                   *)
LastInsn ==
  LET Stops(n) == (n > start /\ EndsBlock(code[n - 1])) \/ code[n].kind = "syscall" \/ n = Len(code)
  IN  CHOOSE n \in start .. Len(code) : Stops(n) /\ \A m \in start .. n - 1 : ~Stops(m)
Block == start .. LastInsn

write_first ==
  {r \in ScanRegs : \E n \in Block :
     /\ r \in scan_write_mask(code[n]) \ dce_read_mask(code[n])
     /\ \A m \in start .. n - 1 : r \notin scan_write_mask(code[m]) \cup dce_read_mask(code[m])}

(* Backwards from the end, where everything is live.                       *)
Dead(n, after) ==
  /\ dce_dest_gpr(code[n]) # {} /\ dce_dest_gpr(code[n]) \cap after = {}
  /\ dce_is_pure(code[n])
live[n \in start .. LastInsn + 1] ==
  IF n = LastInsn + 1 THEN [live |-> ScanRegs, dead |-> {}]
  ELSE LET after == live[n + 1]
       IN  IF Dead(n, after.live)
             THEN [after EXCEPT !.dead = @ \cup {n}]
             ELSE [after EXCEPT !.live = (@ \ dce_dest_gpr(code[n])) \cup dce_read_mask(code[n])]
dce_dead_mask == live[start].dead

(* scan_backwards_for_lui.  What it sees an instruction write: not what    *)
(* CFC2 writes.                                                            *)
BackWrites(i) == IF i.kind \in {"alu", "lui", "mfhi", "load", "lwx", "mfc"} THEN {i.d} \ {0} ELSE {}
BackStops(i) == EndsBlock(i) \/ i.kind = "syscall"
Seeds ==
  {n \in 1 .. start - 1 :
     /\ n >= start - MaxBack /\ code[n].kind = "lui" /\ code[n].d # 0
     /\ \A m \in n + 1 .. start - 1 : ~BackStops(code[m]) /\ code[n].d \notin BackWrites(code[m])
     /\ \A m \in Block : code[n].d \notin scan_write_mask(code[m])}

-----------------------------------------------------------------------------
NoLoad == [d |-> 0, at |-> 0]
Start == [regs |-> [r \in ScanRegs |-> 0], delay |-> NoLoad, commit |-> NoLoad]

(* The delay slot before the block belongs to a branch, not a jump: the    *)
(* block is entered from above.                                            *)
ScanInit ==
  /\ code \in Programs /\ start \in 1 .. Len(code)
  /\ \A n \in 1 .. start - 1 : ~IsJump(code[n]) /\ code[n].kind \notin {"syscall", "cfc"}
  /\ pos = 1 /\ full = Start /\ lean = Start
  /\ cycles = 0 /\ stall = 0 /\ gteDone = 0

(* The guest processor: a load lands after the next instruction, unless    *)
(* that one writes the register.                                           *)
Arrive(m) ==
  [regs |-> IF m.commit.d \notin {0, m.delay.d} THEN [m.regs EXCEPT ![m.commit.d] = m.commit.at] ELSE m.regs,
   commit |-> m.delay, delay |-> NoLoad]
Run(m, n) ==
  LET i == code[n]
      a == Arrive(m)
  IN  CASE i.d # 0 /\ i.kind \in {"alu", "lui", "mfhi", "jal", "mfc", "cfc"} ->
             [a EXCEPT !.regs[i.d] = n, !.commit = IF @.d = i.d THEN NoLoad ELSE @]
        [] i.d # 0 /\ i.kind \in {"load", "lwx"} -> [a EXCEPT !.delay = [d |-> i.d, at |-> n]]
        [] OTHER -> a
Needs(i) == (i.s \cup (IF i.kind = "lwx" THEN {i.d} ELSE {})) \ {0}
Settle(m) == Arrive(Arrive(m)).regs

(* compile_block's cycle count.                                            *)
r3000a_cycle_cost(i) ==
  CASE i.kind = "mult" -> 6 [] i.kind \in {"load", "lwx", "lwc2"} -> 2 [] OTHER -> 1
GteAccess(i) == i.kind \in {"cop2", "cfc", "mtc", "lwc2"}
\* Mutant of StallCycles: an access does not wait.
StallCyclesNone(i) == 0
StallCycles(i) == IF GteAccess(i) /\ stall > 0 THEN stall + 1 ELSE 0
StallAfter(i) ==
  LET s == CASE i.kind = "cop2" -> GtePipeline [] GteAccess(i) /\ i.kind # "cop2" -> 0 [] OTHER -> stall
  IN  IF s > 0 THEN s - 1 ELSE 0

(* An instruction before the block, then one of it.                        *)
RunBefore ==
  /\ pos < start
  /\ full' = Run(full, pos) /\ lean' = Run(lean, pos) /\ pos' = pos + 1
  /\ UNCHANGED <<code, start, cycles, stall, gteDone>>

(* A dead instruction is not emitted; it still cancels a load in flight.   *)
Skipped(m, n) == LET a == Arrive(m) IN [a EXCEPT !.commit = IF @.d = code[n].d THEN NoLoad ELSE @]

RunBlock ==
  /\ pos \in Block
  /\ full' = Run(full, pos)
  /\ lean' = IF pos \in dce_dead_mask THEN Skipped(lean, pos) ELSE Run(lean, pos)
  /\ cycles' = cycles + StallCycles(code[pos]) + r3000a_cycle_cost(code[pos])
  /\ stall' = StallAfter(code[pos])
  /\ gteDone' = IF code[pos].kind = "cop2" THEN cycles + StallCycles(code[pos]) + GtePipeline ELSE gteDone
  /\ pos' = pos + 1
  /\ UNCHANGED <<code, start>>

ScanNext == RunBefore \/ RunBlock
ScanSpec == ScanInit /\ [][ScanNext]_scanVars

-----------------------------------------------------------------------------
ScanTypeOK ==
  /\ pos \in 1 .. Len(code) + 1 /\ start \in 1 .. Len(code)
  /\ \A m \in {full, lean} : m.regs \in [ScanRegs -> 0 .. Len(code)] /\ m.commit.d \in ScanRegs \cup {0}
  /\ stall \in 0 .. GtePipeline

(* Without its dead instructions a block reads the same values and leaves  *)
(* the same registers behind, loads in flight included.                    *)
DeadCodeIsDead ==
  /\ pos \in Block \ dce_dead_mask => \A r \in Needs(code[pos]) : Arrive(lean).regs[r] = Arrive(full).regs[r]
  /\ pos > LastInsn => Settle(lean) = Settle(full)

(* A register said to be written first is not read before that, except in  *)
(* the delay slot of the load that writes it.                              *)
WriteFirstIsFirst ==
  pos \in Block =>
    \A r \in Needs(code[pos]) \cap write_first :
      \/ Arrive(full).regs[r] >= start
      \/ Arrive(full).commit.d = r /\ Arrive(full).commit.at >= start

(* "If a register is set by LUI and not modified between the LUI and the   *)
(* block entry": a seeded constant is what the register holds on entry.    *)
SeedsHold == pos = start => \A n \in Seeds : Settle(full)[code[n].d] = n

(* What the scans conclude of a block holds in every run of it.            *)
AnalysesSound == ScanTypeOK /\ DeadCodeIsDead /\ WriteFirstIsFirst /\ SeedsHold

(* The cycles charged to an access of the GTE cover what it has to wait.   *)
StallCovers ==
  RunBlock /\ GteAccess(code[pos]) => cycles' - r3000a_cycle_cost(code[pos]) >= gteDone
StallsSuffice == [][StallCovers]_scanVars
=============================================================================
