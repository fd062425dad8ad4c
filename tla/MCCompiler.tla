----------------------------- MODULE MCCompiler -----------------------------
(***************************************************************************)
(* The recompiler: its block cache, its code generator and the analyses    *)
(* made before a block is compiled.  As in MCDevices one part is chosen    *)
(* and the others rest.                                                    *)
(***************************************************************************)
EXTENDS JitCache, BlockCompiler, BlockScan

CONSTANT Parts
VARIABLE part

CompilerVars == <<jitVars, bcVars, scanVars, part>>

(* Two blocks on a page and one on another, in a chain.                    *)
ThreePages == <<1, 1, 2>>
ChainOfLinks == <<{2}, {3}, {}>>

(* Register 1 is the stack pointer, 2 has a slot, 3 has neither.           *)
I(op, rd, rs, rt, v) == [op |-> op, rd |-> rd, rs |-> rs, rt |-> rt, v |-> v]
SomeInstructions ==
  { I("lui", 2, 0, 0, 1), I("lui", 3, 0, 0, 1), I("mult", 0, 2, 3, 0),
    I("addu", 2, 1, 3, 0), I("addiu", 3, 2, 0, 1), I("addiu", 1, 3, 0, 1),
    I("add", 2, 2, 3, 0), I("mthi", 0, 2, 0, 0), I("mfhi", 3, 0, 0, 0), I("mtc0", 0, 0, 3, 0),
    I("cop", 0, 0, 0, 0), I("syscall", 0, 0, 0, 0),
    I("lw", 0, 3, 2, 0), I("lw", 0, 1, 3, 0), I("lwx", 0, 3, 2, 0),
    I("sw", 0, 3, 2, 0), I("sw", 0, 2, 3, 0), I("swx", 0, 3, 2, 0),
    I("beq", 0, 3, 2, 0), I("jr", 0, 2, 0, 0), I("jal", 1, 0, 0, 0) }

K(kind, d, s) == [kind |-> kind, d |-> d, s |-> s]
Kinds ==
  { K("alu", 1, {2}), K("alu", 2, {1, 2}), K("lui", 1, {}), K("load", 1, {2}), K("lwx", 1, {2}),
    K("store", 0, {1, 2}), K("branch", 0, {1}), K("jal", 2, {}), K("cop2", 0, {}), K("cfc", 1, {}), K("mtc", 0, {2}) }
Resting == <<K("lui", 1, {})>>
SomePrograms == [1 .. 4 -> Kinds] \cup {Resting}

CompilerInit ==
  /\ part \in Parts
  /\ JitInit /\ BcInit /\ (part # "generator" => blk = Entry(itp.regs, 0, itp.mem, {}))
  /\ ScanInit /\ (part # "scan" => code = Resting)

CacheStep == part = "cache" /\ JitNext /\ UNCHANGED <<bcVars, scanVars, part>>
GeneratorStep == part = "generator" /\ BcNext /\ UNCHANGED <<jitVars, scanVars, part>>
ScanStep == part = "scan" /\ ScanNext /\ UNCHANGED <<jitVars, bcVars, part>>

CompilerSpec == CompilerInit /\ [][CacheStep \/ GeneratorStep \/ ScanStep]_CompilerVars
=============================================================================
