--------------------------- MODULE BlockCompiler ---------------------------
(***************************************************************************)
(* The code generator of src/dynarec_compile.c, dynarec_emit.c,            *)
(* dynarec_insn.c and dynarec_memory.c against the interpreter of          *)
(* interpreter.c.  One step compiles a guest instruction, runs the code it *)
(* emits, and interprets the same instruction.                             *)
(*                                                                         *)
(* A guest register lives in cpu.regs[] and, if it is pinned or has a      *)
(* dynamic slot, in a host register; T8 and T9 may hold a copy of one that *)
(* has neither; a constant may be known and not yet be anywhere (lazy).    *)
(* What the compiler believes (k, lazy, dirty, loaded, cached, hb, known,  *)
(* pend) and what the host holds (home, regs, cached values) are fields of *)
(* one record, since code is emitted and run along the same path.          *)
(*                                                                         *)
(* A word is a number below V: the addresses in Ram are RAM, Io is every   *)
(* device register, and the others are misaligned.                         *)
(***************************************************************************)
EXTENDS Integers, FiniteSets

CONSTANTS Pinned, Slotted, Plain,  \* guest registers by where they live
          Sp,                      \* the stack pointer, taken for a RAM address
          V, Ram, Io,
          Instructions,            \* [op, rd, rs, rt, v], those of this instance
          IoVals,                  \* what a device register may read as
          Shown,                   \* defects of the code that may happen here
          MaxContinuations,
          MaxInsns                 \* bound: instructions per block

ASSUME CompilerAssumption ==
  /\ V \in Nat \ {0} /\ 0 \in Ram /\ Ram \subseteq 0 .. V - 1 /\ Io \in (0 .. V - 1) \ Ram
  /\ 0 \notin Pinned \cup Slotted \cup Plain /\ Sp \in Pinned
  /\ Pinned \cap Slotted = {} /\ Pinned \cap Plain = {} /\ Slotted \cap Plain = {}
  /\ IoVals \subseteq 0 .. V - 1
  /\ \A i \in Instructions :
       /\ i.op \in {"addu", "addiu", "lui", "add", "mthi", "mfhi", "mult", "mtc0", "cop",
                   "lw", "lwx", "sw", "swx", "beq", "jr", "jal", "syscall"}
       /\ {i.rd, i.rs, i.rt} \subseteq Pinned \cup Slotted \cup Plain \cup {0} /\ i.v \in 0 .. V - 1

VARIABLES blk,      \* compiler and host
          itp,      \* interpreter
          phase,    \* "run", delay slot of a "jump" or "branch", then "leave" or "fork"; "out"
          hint,     \* what the load before this instruction saw of it
          insns, continuations

bcVars == <<blk, itp, phase, hint, insns, continuations>>

Regs == Pinned \cup Slotted \cup Plain
Homed == Pinned \cup Slotted
Words == 0 .. V - 1
Junk == V                          \* no value, or one nobody wrote
Src == Regs \cup {0}
Nothing == [reg |-> 0, val |-> Junk]
Scratch == {8, 9}
NoScratch == [s \in Scratch |-> Nothing]
NoHint == [reg |-> 0, uses |-> FALSE]

(* How two operands combine, and when ADD traps.                           *)
Sum(a, b) == (a + b) % V
Overflows(a, b) == a + b >= V

Entry(regs, hi, mem, loaded) ==
  [k |-> [r \in Regs |-> Junk], lazy |-> {}, known |-> {Sp},
   home |-> [r \in Homed |-> IF r \in Pinned \cup loaded THEN regs[r] ELSE Junk],
   dirty |-> {}, loaded |-> loaded,
   sc |-> NoScratch, hb |-> Nothing, pend |-> [reg |-> 0, now |-> FALSE],
   regs |-> regs, hi |-> hi, v0 |-> 0, ldv |-> 0, mem |-> mem, cond |-> 0, trap |-> FALSE]

BcInit ==
  /\ itp = [regs |-> [r \in Regs |-> 0], hi |-> 0, mem |-> [a \in Ram |-> 1],
            delay |-> Nothing, commit |-> Nothing, cond |-> 0, trap |-> FALSE]
  /\ \E ls \in SUBSET Slotted : blk = Entry(itp.regs, 0, itp.mem, ls)
  /\ phase = "run" /\ hint = NoHint /\ insns = 0 /\ continuations = 0

-----------------------------------------------------------------------------
(* dynarec_emit.c                                                          *)
Holds(m, r) == m.lazy \cap {r} # {}
Settled(m, r) == IF r \in Pinned \cup (Slotted \cap m.loaded) THEN m.home[r] ELSE m.regs[r]

(* SCRATCH_INVALIDATE_PSX.                                                 *)
Forget(m, rs) == [m EXCEPT !.sc = [s \in Scratch |-> IF @[s].reg \in rs THEN Nothing ELSE @[s]]]
reg_cache_invalidate(m) == [m EXCEPT !.sc = NoScratch]

(* A value put where the register lives; a plain one goes to cpu.regs[].   *)
Put(m, r, v) ==
  IF r \in Homed
    THEN [m EXCEPT !.home[r] = v, !.dirty = @ \cup ({r} \cap Slotted), !.loaded = @ \cup ({r} \cap Slotted)]
    ELSE [m EXCEPT !.regs[r] = v]
PutAndForget(m, r, v) == IF r = 0 THEN m ELSE Forget(Put(m, r, v), {r} \cap Plain)

flush_dirty_consts(m) ==
  LET f == [m EXCEPT !.lazy = {}, !.dirty = @ \cup (m.lazy \cap Slotted), !.loaded = @ \cup (m.lazy \cap Slotted),
                     !.home = [r \in Homed |-> IF Holds(m, r) THEN m.k[r] ELSE @[r]],
                     !.regs = [r \in Regs |-> IF Holds(m, r) /\ r \in Plain THEN m.k[r] ELSE @[r]]]
  IN  Forget(f, m.lazy \cap Plain)

Stored(m, rs) == [m EXCEPT !.regs = [r \in Regs |-> IF r \in rs THEN m.home[r] ELSE @[r]]]
dyn_flush_dirty_slots(m) == [Stored(m, m.dirty) EXCEPT !.dirty = {}]
dyn_reload_slots(m) ==
  [m EXCEPT !.home = [r \in Homed |-> IF r \in Slotted THEN m.regs[r] ELSE @[r]],
            !.dirty = {}, !.loaded = Slotted]

(* What emit_use_reg and emit_load_psx_reg find, and what they leave.      *)
Value(m, r, s) ==
  CASE r = 0 -> 0
    [] Holds(m, r) -> m.k[r]
    [] r \in Plain /\ ~Holds(m, r) /\ m.sc[s].reg = r -> m.sc[s].val
    [] OTHER -> Settled(m, r)

\* The scratch register s now holds c; over T9, the cached host base is lost.
SetScratch(m, s, c) ==
  [m EXCEPT !.sc[s] = c, !.hb.val = IF s = 9 /\ ~(c.reg # 0 /\ c = m.sc[9]) THEN Junk ELSE @]

emit_use_reg(m, r, s) ==
  CASE r = 0 -> m
    [] Holds(m, r) /\ r \in Homed -> [Put(m, r, m.k[r]) EXCEPT !.lazy = @ \ {r}]
    [] Holds(m, r) /\ r \in Plain -> SetScratch([Put(m, r, m.k[r]) EXCEPT !.lazy = @ \ {r}], s, Nothing)
    [] ~Holds(m, r) /\ r \in Pinned -> m
    [] ~Holds(m, r) /\ r \in Slotted -> [m EXCEPT !.home[r] = Settled(m, r), !.loaded = @ \cup {r}]
    [] OTHER -> SetScratch(m, s, [reg |-> r, val |-> Value(m, r, s)])

emit_load_psx_reg(m, r, s) ==
  IF r \in Plain THEN emit_use_reg(m, r, s) ELSE SetScratch(emit_use_reg(m, r, s), s, Nothing)

(* emit_dst_reg with scratch T8, the operation, emit_sync_reg.  The result *)
(* of an operation on $0 lands in T8.                                      *)
emit_sync_reg(m, r, v) ==
  CASE r = 0 -> [m EXCEPT !.sc[8].val = IF m.sc[8].reg = 0 THEN Junk ELSE v]
    [] r \in Homed -> Put(m, r, v)
    [] OTHER -> SetScratch(Forget(Put(m, r, v), {r}), 8, [reg |-> r, val |-> v])
emit_store_psx_reg(m, r, v) == IF r = 0 THEN m ELSE Put(m, r, v)

\* Mutant of DropBase: the host base of a changed register stays.
DropBaseNever(m, r) == m
DropBase(m, r) == IF m.hb.reg = r THEN [m EXCEPT !.hb = Nothing] ELSE m

\* Mutant of mark_vreg_var: the lazy value is dropped.
mark_vreg_var_drops(m, r) ==
  IF r = 0 THEN m ELSE [DropBase(m, r) EXCEPT !.k[r] = Junk, !.lazy = @ \ {r}, !.known = @ \ {r}]
mark_vreg_var(m, r) ==
  IF r = 0 THEN m
  ELSE LET p == IF Holds(m, r) THEN PutAndForget(m, r, m.k[r]) ELSE m
       IN  [DropBase(p, r) EXCEPT !.k[r] = Junk, !.lazy = @ \ {r}, !.known = @ \ {r}]

mark_vreg_const_lazy(m, r, v) ==
  IF r = 0 THEN m
  ELSE [DropBase(m, r) EXCEPT !.k[r] = v, !.lazy = @ \cup {r},
                              !.known = IF v \in Ram THEN @ \cup {r} ELSE @ \ {r}]
mark_vreg_const(m, r, v) ==
  IF r = 0 THEN m ELSE [DropBase(m, r) EXCEPT !.k[r] = v, !.lazy = @ \ {r}]

emit_cpu_field_to_psx_reg(m, r, v) == PutAndForget(mark_vreg_var(m, r), r, v)

is_vreg_const(m, r) == r = 0 \/ m.k[r] # Junk
get_vreg_const(m, r) == IF r = 0 THEN 0 ELSE m.k[r]

emit_call_c(m) ==
  [reg_cache_invalidate(dyn_reload_slots(dyn_flush_dirty_slots(flush_dirty_consts(m))))
     EXCEPT !.hb = Nothing, !.known = {Sp}]
emit_call_c_lite(m) == [reg_cache_invalidate(dyn_flush_dirty_slots(flush_dirty_consts(m))) EXCEPT !.hb = Nothing]

-----------------------------------------------------------------------------
(* dynarec_insn.c.  An instruction is [op, rd, rs, rt, v].                 *)
\* smrv_known_ram and align_known_mask carried from a source to the result.
Aligned(v) == v \in Ram \cup {Io}
KeepsRam(m, i) ==
  LET By(r, c) == r \in m.known /\ is_vreg_const(m, c) /\ Aligned(get_vreg_const(m, c))
  IN  \/ i.op = "addiu" /\ i.rs \in m.known /\ Aligned(i.v)
      \/ i.op = "addu" /\ (By(i.rs, i.rt) \/ By(i.rt, i.rs))
Knowing(m, i, q) == IF KeepsRam(m, i) /\ i.rd # 0 THEN [q EXCEPT !.known = @ \cup {i.rd}] ELSE q

TwoSources(m, i) == emit_use_reg(emit_use_reg(m, i.rs, 8), i.rt, 9)
Result(m, i) == Sum(Value(m, i.rs, 8), Value(emit_use_reg(m, i.rs, 8), i.rt, 9))

EmitAlu(m, i) ==
  IF is_vreg_const(m, i.rs) /\ is_vreg_const(m, i.rt)
    THEN mark_vreg_const_lazy(m, i.rd, Sum(get_vreg_const(m, i.rs), get_vreg_const(m, i.rt)))
    ELSE LET p == [mark_vreg_var(m, i.rd) EXCEPT !.hb = Nothing]
         IN  Knowing(m, i, emit_sync_reg(TwoSources(p, i), i.rd, Result(p, i)))

EmitImm(m, i) ==
  IF is_vreg_const(m, i.rs)
    THEN mark_vreg_const_lazy(m, i.rd, Sum(get_vreg_const(m, i.rs), i.v))
    ELSE LET p == mark_vreg_var(m, i.rd)
         IN  Knowing(m, i, emit_sync_reg(emit_use_reg(p, i.rs, 8), i.rd, Sum(Value(p, i.rs, 8), i.v)))

(* ADD and SUB: rd's old value is stored first, for the cold path that     *)
(* restores it.                                                            *)
EmitAdd(m, i) ==
  IF is_vreg_const(m, i.rs) /\ is_vreg_const(m, i.rt) THEN EmitAlu(m, i)
  ELSE LET p == [mark_vreg_var(m, i.rd) EXCEPT !.hb = Nothing]
           q == TwoSources(p, i)
       IN  emit_sync_reg(reg_cache_invalidate(Stored(q, {i.rd} \cap (Pinned \cup q.dirty))), i.rd, Result(p, i))

EmitMthi(m, i) == [emit_load_psx_reg(m, i.rs, 8) EXCEPT !.hi = Value(m, i.rs, 8)]
EmitMfhi(m, i) == emit_cpu_field_to_psx_reg(m, i.rd, m.hi)
EmitMult(m, i) ==
  LET p == emit_load_psx_reg([m EXCEPT !.hb = Nothing], i.rs, 8)
  IN  [reg_cache_invalidate(emit_load_psx_reg(p, i.rt, 9))
         EXCEPT !.hi = Sum(Value(m, i.rs, 8), Value(p, i.rt, 9))]
EmitMtc0(m, i) == emit_call_c(emit_load_psx_reg(m, i.rt, 8))
emit_cu_check(m) == reg_cache_invalidate(flush_dirty_consts(m))

-----------------------------------------------------------------------------
(* dynarec_memory.c.  e is what the compiler and the machine meet: d, the  *)
(* load is deferred; dev, the kind of device register; code, the stored-to *)
(* page has code; slow, a split path takes its C call; io, the value read. *)
NoBase(m) == [m EXCEPT !.hb = Nothing]
SetBase(m, r, v) == [SetScratch(m, 9, Nothing) EXCEPT !.hb = [reg |-> r, val |-> v]]
At(m, a) == IF a \in Ram THEN m.mem[a] ELSE Junk
Keep(m, i, v, d) == [IF d THEN m ELSE emit_store_psx_reg(m, i.rt, v) EXCEPT !.v0 = v]

(* Both sides of a split are emitted, one runs: the slots that the call's  *)
(* side stores count as clean on both.                                     *)
Split(m, slow) ==
  LET f == flush_dirty_consts(NoBase(m))
      g == emit_call_c_lite(f)
  IN  IF slow THEN g ELSE [g EXCEPT !.regs = f.regs]

(* The paths of an access, by what is known of its base.                   *)
ConstTo(m, i, as) == is_vreg_const(m, i.rs) /\ get_vreg_const(m, i.rs) \in as
KnownPath(m, i) == ~is_vreg_const(m, i.rs) /\ i.rs \in m.known
GenericPath(m, i, e) ==
  ~ConstTo(m, i, Ram) /\ ~(ConstTo(m, i, {Io}) /\ e.dev # "other") /\ ~KnownPath(m, i)

(* The generic path, its fast side and the out-of-line one that calls C,   *)
(* leaves the same in registers: flushed first, nothing cached after.      *)
ReadDevice(m, i, e) ==
  CASE e.dev \in {"field", "mask"} -> Keep(NoBase(m), i, e.io, e.d)
    [] e.dev = "split" -> Keep(Split(m, e.slow), i, e.io, e.d)
    [] e.dev = "call" -> Keep(emit_call_c_lite(m), i, e.io, e.d)
ReadKnown(m, i, e) ==
  LET base == IF m.hb.reg = i.rs THEN m ELSE SetBase(emit_use_reg(m, i.rs, 8), i.rs, Value(m, i.rs, 8))
      got == Keep(base, i, At(base, base.hb.val), e.d)
  IN  IF i.rs = i.rt THEN NoBase(got) ELSE got
ReadGeneric(m, i, e) ==
  LET a == Value(m, i.rs, 8)
      gen == flush_dirty_consts(emit_use_reg(NoBase(m), i.rs, 8))
  IN  reg_cache_invalidate(Keep(gen, i, IF a = Io THEN e.io ELSE At(gen, a), e.d))
emit_memory_read(m0, i, e) ==
  LET m == reg_cache_invalidate(mark_vreg_var(m0, i.rt))
  IN  CASE ConstTo(m, i, Ram) -> Keep(NoBase(m), i, m.mem[get_vreg_const(m, i.rs)], e.d)
        [] ConstTo(m, i, {Io}) /\ e.dev # "other" -> ReadDevice(m, i, e)
        [] KnownPath(m, i) -> ReadKnown(m, i, e)
        [] OTHER -> ReadGeneric(m, i, e)

emit_memory_lwx(m0, i, e) ==
  LET m == NoBase(reg_cache_invalidate(mark_vreg_var(m0, i.rt)))
      p == IF i.rt \in Slotted /\ m.pend.reg # i.rt THEN emit_use_reg(m, i.rt, 8) ELSE m
      old == IF m.pend.reg = i.rt THEN m.ldv ELSE Value(p, i.rt, 8)
      a == Value(p, i.rs, 8)
      q == flush_dirty_consts(emit_load_psx_reg(p, i.rs, 8))
  IN  reg_cache_invalidate(Keep(q, i, Sum(old, IF a = Io THEN e.io ELSE At(q, a)), e.d))

Poke(m, a, v) == IF a \in Ram THEN [m EXCEPT !.mem[a] = v] ELSE m

\* jit_smc_handler is C code: it leaves nothing in T9.
WriteConstRam(m, i, e) ==
  LET cst == emit_load_psx_reg(NoBase(m), i.rt, 9)
      smc == [flush_dirty_consts(cst) EXCEPT !.sc[9].val = IF e.slow THEN Junk ELSE @]
  IN  Poke(IF e.code THEN smc ELSE cst, get_vreg_const(m, i.rs), Value(m, i.rt, 9))
\* SIO_Write takes its data in A1.
WriteDevice(m, i, e) ==
  CASE e.dev = "field" -> NoBase(emit_use_reg(m, i.rt, 9))
    [] e.dev = "mask" -> [emit_load_psx_reg(NoBase(m), i.rt, 9) EXCEPT !.sc[9].val = Junk]
    [] e.dev = "split" ->
         [Split(m, e.slow) EXCEPT !.loaded = @ \cup ({i.rt} \cap Slotted),
            !.home = [r \in Homed |-> IF r = i.rt /\ e.slow THEN Settled(flush_dirty_consts(m), r) ELSE @[r]]]
    [] e.dev = "call" -> emit_call_c_lite(IF i.rt \in Slotted THEN emit_use_reg(m, i.rt, 8) ELSE m)
WriteKnown(m, i, e) ==
  LET data == emit_use_reg(m, i.rt, 9)
      base == IF i.rt \notin Plain /\ data.hb.reg = i.rs THEN data
              ELSE IF i.rt \notin Plain THEN SetBase(emit_use_reg(data, i.rs, 8), i.rs, Value(data, i.rs, 8))
              ELSE NoBase(emit_use_reg(data, i.rs, 8))
  IN  Poke(base, IF base.hb.reg = i.rs THEN base.hb.val ELSE Value(m, i.rs, 8), Value(m, i.rt, 9))
WriteGeneric(m, i, e) ==
  LET gen == emit_use_reg(NoBase(m), i.rs, 8)
  IN  Poke(reg_cache_invalidate(flush_dirty_consts(emit_load_psx_reg(gen, i.rt, 9))),
           Value(m, i.rs, 8), Value(gen, i.rt, 9))
emit_memory_write(m0, i, e) ==
  LET m == reg_cache_invalidate(m0)
  IN  CASE ConstTo(m, i, Ram) -> WriteConstRam(m, i, e)
        [] ConstTo(m, i, {Io}) /\ e.dev # "other" -> WriteDevice(m, i, e)
        [] KnownPath(m, i) -> WriteKnown(m, i, e)
        [] OTHER -> WriteGeneric(m, i, e)

emit_memory_swx(m0, i, e) ==
  LET m == NoBase(reg_cache_invalidate(m0))
      a == Value(m, i.rs, 8)
      p == emit_load_psx_reg(m, i.rs, 8)
  IN  Poke(reg_cache_invalidate(flush_dirty_consts(emit_load_psx_reg(p, i.rt, 9))),
           a, Sum(At(m, a), Value(p, i.rt, 9)))

(* An aligned address only: the helpers of LWL and SWL do not trap.        *)
Traps(m, i, e) ==
  CASE i.op = "lw" -> GenericPath(mark_vreg_var(m, i.rt), i, e) /\ ~Aligned(Value(reg_cache_invalidate(mark_vreg_var(m, i.rt)), i.rs, 8))
    [] i.op = "sw" -> GenericPath(m, i, e) /\ ~Aligned(Value(reg_cache_invalidate(m), i.rs, 8))
    [] i.op = "add" -> Overflows(Value(m, i.rs, 8), Value(emit_use_reg(m, i.rs, 8), i.rt, 9))
    [] OTHER -> FALSE

emit_instruction(m, i, e) ==
  CASE i.op = "addu" -> EmitAlu(m, i)
    [] i.op = "addiu" -> EmitImm(m, i)
    [] i.op = "lui" -> mark_vreg_const_lazy(m, i.rd, i.v)
    [] i.op = "add" -> EmitAdd(m, i)
    [] i.op = "mthi" -> EmitMthi(m, i)
    [] i.op = "mfhi" -> EmitMfhi(m, i)
    [] i.op = "mult" -> EmitMult(m, i)
    [] i.op = "mtc0" -> EmitMtc0(m, i)
    [] i.op = "cop" -> emit_cu_check(m)
    [] i.op = "lw" -> emit_memory_read(m, i, e)
    [] i.op = "lwx" -> emit_memory_lwx(m, i, e)
    [] i.op = "sw" -> emit_memory_write(m, i, e)
    [] i.op = "swx" -> emit_memory_swx(m, i, e)

-----------------------------------------------------------------------------
(* interpreter.c                                                           *)
IsLoad(i) == i.op \in {"lw", "lwx"}
Pipeline(it) ==
  [it EXCEPT !.regs = IF it.commit.reg \notin {0, it.delay.reg}
                        THEN [@ EXCEPT ![it.commit.reg] = it.commit.val] ELSE @,
             !.commit = it.delay, !.delay = Nothing]
Drained(it) == Pipeline(Pipeline(it))

IVal(it, r) == IF r = 0 THEN 0 ELSE it.regs[r]
IWrite(it, r, v) ==
  IF r = 0 THEN it ELSE [it EXCEPT !.regs[r] = v, !.commit = IF @.reg = r THEN Nothing ELSE @]
ILoad(it, r, v) == IF r = 0 THEN it ELSE [it EXCEPT !.delay = [reg |-> r, val |-> v]]
ITraps(it, i) ==
  \/ i.op \in {"lw", "sw"} /\ ~Aligned(IVal(it, i.rs))
  \/ i.op = "add" /\ Overflows(IVal(it, i.rs), IVal(it, i.rt))

Exec(it, i, e) ==
  LET a == IVal(it, i.rs)
      b == IVal(it, i.rt)
      got == IF a = Io THEN e.io ELSE At(it, a)
  IN  CASE ITraps(it, i) -> [it EXCEPT !.trap = TRUE]
        [] i.op \in {"addu", "add"} /\ ~ITraps(it, i) -> IWrite(it, i.rd, Sum(a, b))
        [] i.op = "addiu" -> IWrite(it, i.rd, Sum(a, i.v))
        [] i.op = "lui" -> IWrite(it, i.rd, i.v)
        [] i.op = "mthi" -> [it EXCEPT !.hi = a]
        [] i.op = "mult" -> [it EXCEPT !.hi = Sum(a, b)]
        [] i.op = "mfhi" -> IWrite(it, i.rd, it.hi)
        [] i.op \in {"mtc0", "cop", "syscall"} -> it
        [] i.op = "lw" /\ ~ITraps(it, i) -> ILoad(it, i.rt, got)
        [] i.op = "lwx" -> ILoad(it, i.rt, Sum(IF it.commit.reg = i.rt THEN it.commit.val ELSE b, got))
        [] i.op = "sw" /\ ~ITraps(it, i) -> Poke(it, a, b)
        [] i.op = "swx" -> Poke(it, a, Sum(At(it, a), b))
        [] i.op = "beq" -> [it EXCEPT !.cond = IF a = b THEN 1 ELSE 0]
        [] i.op = "jr" -> [it EXCEPT !.cond = a]
        [] i.op = "jal" -> [IWrite(it, i.rd, i.v) EXCEPT !.cond = 1]

-----------------------------------------------------------------------------
(* dynarec_compile.c: load delays and the ends of a block.                 *)
Reads(i) ==
  CASE i.op \in {"addu", "add", "mult", "beq", "sw", "swx", "lwx"} -> {i.rs, i.rt} \ {0}
    [] i.op \in {"addiu", "mthi", "lw", "jr"} -> {i.rs} \ {0}
    [] OTHER -> {}
Writes(i) ==
  CASE i.op \in {"addu", "add", "addiu", "lui", "mfhi", "jal"} -> {i.rd} \ {0}
    [] IsLoad(i) -> {i.rt} \ {0}
    [] OTHER -> {}

(* A load looked at the instruction after it, and this is that one.        *)
Fits(i) ==
  hint.reg # 0 =>
    (hint.uses <=> (hint.reg \in Reads(i) \/ (IsLoad(i) /\ i.rt = hint.reg)))

Applied(m) ==
  IF m.pend.reg = 0 THEN m
  ELSE [emit_cpu_field_to_psx_reg(m, m.pend.reg, m.ldv) EXCEPT !.pend = [reg |-> 0, now |-> FALSE], !.ldv = 0]
Unpended(m) == [m EXCEPT !.pend = [reg |-> 0, now |-> FALSE], !.ldv = 0]

Before(m, i, d) ==
  CASE m.pend.reg # 0 /\ m.pend.now /\ d /\ i.rt = m.pend.reg -> Unpended(m)
    [] m.pend.reg # 0 /\ m.pend.now /\ ~(d /\ i.rt = m.pend.reg) -> Applied(m)
    [] m.pend.reg # 0 /\ ~m.pend.now -> [m EXCEPT !.pend.now = TRUE]
    [] OTHER -> m

After(m, i, d) ==
  CASE d -> [(IF m.pend.reg # i.rt THEN Applied(m) ELSE m)
               EXCEPT !.ldv = m.v0, !.pend = [reg |-> i.rt, now |-> FALSE], !.v0 = 0]
    [] ~d /\ m.pend.reg \in Writes(i) -> [Unpended(m) EXCEPT !.v0 = 0]
    [] OTHER -> [m EXCEPT !.v0 = 0]

(* What the compiler and the machine may meet at an instruction.  A load   *)
(* in the last place or in a delay slot is not deferred.                   *)
Meets(i) ==
  LET plain == [d |-> FALSE, dev |-> "other", code |-> FALSE, slow |-> FALSE, io |-> 0]
      dev == IF ConstTo(blk, i, {Io}) THEN {"field", "mask", "split", "call", "other"} ELSE {"other"}
      either == IF is_vreg_const(blk, i.rs) THEN BOOLEAN ELSE {FALSE}
      defer == IF phase = "run" /\ insns + 1 < MaxInsns /\ i.rt # 0 THEN BOOLEAN ELSE {FALSE}
  IN  CASE IsLoad(i) -> [d : defer, dev : dev, code : {FALSE}, slow : either, io : IoVals]
        [] i.op = "sw" -> [d : {FALSE}, dev : dev, code : either, slow : either, io : {0}]
        [] OTHER -> {plain}

(* The pointer speculation holds, the stack pointer's after a C call too,  *)
(* and LWL and SWL have an aligned address.                                *)
Speculated(m, i, e) ==
  /\ KeepsRam(m, i) /\ i.rd # 0 => Exec(Pipeline(itp), i, e).regs[i.rd] \in Ram
  /\ i.op = "mtc0" => Drained(itp).regs[Sp] \in Ram
  /\ i.op \in {"lwx", "swx"} => Aligned(IVal(Pipeline(itp), i.rs))

(* Where the code is known to go wrong; an instance shows some of these.   *)
Wrong(m, i, e, what) ==
  CASE what = "split" ->
         /\ e.dev = "split" /\ i.op \in {"lw", "sw"} /\ ConstTo(m, i, {Io})
         /\ \/ flush_dirty_consts(m).dirty # {}
            \/ i.op = "sw" /\ i.rt \in Slotted \ m.loaded
    [] what = "mask" -> i.op = "sw" /\ e.dev = "mask" /\ ConstTo(m, i, {Io}) /\ i.rt \in Plain
    [] what = "smc" -> i.op = "sw" /\ e.code /\ e.slow /\ ConstTo(m, i, Ram) /\ i.rt \in Plain
    [] what = "lazy" -> \E r \in {i.rs, i.rt} \cap Plain \cap m.lazy : \E s \in Scratch : m.sc[s].reg = r
    [] what = "zero" -> i.op \in {"addu", "add", "addiu"} /\ i.rd = 0 /\ {i.rs, i.rt} # {0}
    [] what = "late" -> m.pend.now /\ (m.pend.reg \in Reads(i) \cup Writes(i)) /\ i.op \in {"beq", "jr", "jal"}
    [] what = "link" -> /\ i.op = "jal" /\ i.rd # 0
                        /\ m.pend.reg = i.rd \/ (i.rd \in m.known /\ i.v \notin Ram)
    [] what = "drop" -> m.pend.now /\ e.d /\ i.rt = m.pend.reg
Hazards == {"split", "mask", "smc", "lazy", "zero", "late", "link", "drop"}
Allowed(m, i, e) == \A what \in Hazards \ Shown : ~Wrong(m, i, e, what)

-----------------------------------------------------------------------------
InSlot == phase \in {"jump", "branch"}
Straight(i) == i.op \notin {"beq", "jr", "jal", "syscall"}

(* An instruction that is not a branch, in line or in a delay slot.        *)
Insn(i) ==
  /\ Straight(i) /\ Fits(i)
  /\ InSlot \/ (phase = "run" /\ insns < MaxInsns)
  /\ \E e \in Meets(i) :
       LET m == Before(blk, i, e.d)
       IN  /\ ~Traps(m, i, e) /\ Speculated(m, i, e) /\ Allowed(blk, i, e) /\ Allowed(m, i, e)
           /\ blk' = After(emit_instruction(m, i, e), i, e.d)
           /\ itp' = Exec(Pipeline(itp), i, e)
           /\ hint' = IF IsLoad(i) THEN [reg |-> i.rt, uses |-> e.d] ELSE NoHint
  /\ phase' = CASE phase = "run" -> "run" [] phase = "jump" -> "leave" [] phase = "branch" -> "fork"
  /\ insns' = IF InSlot THEN insns ELSE insns + 1
  /\ UNCHANGED continuations

(* A branch or jump, up to its delay slot; two known operands fold it.     *)
Folds(i) == i.op = "beq" /\ is_vreg_const(blk, i.rs) /\ is_vreg_const(blk, i.rt)
BranchCode(m, i) ==
  LET p == emit_load_psx_reg(m, i.rs, 8)
  IN  CASE i.op = "beq" /\ Folds(i) ->
             [m EXCEPT !.cond = IF get_vreg_const(m, i.rs) = get_vreg_const(m, i.rt) THEN 1 ELSE 0]
        [] i.op = "beq" /\ ~Folds(i) ->
             [NoBase(emit_load_psx_reg(p, i.rt, 9))
                EXCEPT !.cond = IF Value(m, i.rs, 8) = Value(p, i.rt, 9) THEN 1 ELSE 0]
        [] i.op = "jr" -> [p EXCEPT !.cond = Value(m, i.rs, 8)]
        [] i.op = "jal" -> [PutAndForget(mark_vreg_const(m, i.rd, i.v), i.rd, i.v) EXCEPT !.cond = 1]
Branch(i) ==
  /\ i.op \in {"beq", "jr", "jal"} /\ Fits(i)
  /\ phase = "run" /\ insns < MaxInsns
  /\ \E e \in Meets(i) : Allowed(blk, i, e) /\ itp' = Exec(Pipeline(itp), i, e)
  /\ blk' = LET m == BranchCode(blk, i)
            IN  IF m.pend.now THEN Applied(m) ELSE [m EXCEPT !.pend.now = m.pend.reg # 0]
  /\ phase' = IF i.op = "beq" /\ ~Folds(i) THEN "branch" ELSE "jump"
  /\ hint' = NoHint /\ insns' = insns + 1
  /\ UNCHANGED continuations

(* emit_branch_epilogue, the deferred taken paths, and the jump dispatch.  *)
Exited(m) == Stored(dyn_flush_dirty_slots(flush_dirty_consts(m)), Pinned)

Continue ==
  /\ phase = "fork" /\ blk.cond = 0 /\ continuations < MaxContinuations
  /\ phase' = "run" /\ continuations' = continuations + 1
  /\ UNCHANGED <<blk, itp, hint, insns>>
Leave ==
  /\ phase = "leave" \/ (phase = "fork" /\ (blk.cond = 1 \/ continuations = MaxContinuations))
  /\ blk' = Exited(blk) /\ phase' = "out"
  /\ UNCHANGED <<itp, hint, insns, continuations>>
(* The block is as long as it may be.                                      *)
SplitBlock ==
  /\ phase = "run" /\ insns = MaxInsns
  /\ blk' = Exited(Applied(blk)) /\ phase' = "out"
  /\ UNCHANGED <<itp, hint, insns, continuations>>

(* The ways out through an exception; a load still pending is lost.        *)
Syscall(i) ==
  /\ phase = "run" /\ i.op = "syscall" /\ Fits(i)
  /\ LET m == Before(blk, i, FALSE)
     IN  m.pend.reg = 0 /\ blk' = Exited(emit_call_c(m))
  /\ itp' = Pipeline(itp)
  /\ phase' = "out" /\ hint' = NoHint
  /\ UNCHANGED <<insns, continuations>>

AbortState(m, i) ==
  IF i.op = "add"
    THEN LET q == TwoSources([mark_vreg_var(m, i.rd) EXCEPT !.hb = Nothing], i)
         IN  Stored(q, {i.rd} \cap (Pinned \cup q.dirty))
    ELSE flush_dirty_consts(emit_use_reg(IF i.op = "lw" THEN mark_vreg_var(m, i.rt) ELSE m, i.rs, 8))
(* All slots are stored, loaded or not; the overflow stub knows no lazy    *)
(* constants.                                                              *)
Fault(i) ==
  /\ Fits(i) /\ phase = "run" /\ insns < MaxInsns
  /\ \E e \in Meets(i) :
       LET m == Before(blk, i, FALSE)
           x == AbortState(m, i)
       IN  /\ ~e.d /\ Traps(m, i, e) /\ Allowed(m, i, e)
           /\ m.pend.reg = 0 /\ x.lazy = {} /\ Slotted \subseteq x.loaded
           /\ blk' = [Stored(x, Homed) EXCEPT !.trap = TRUE]
           /\ itp' = Exec(Pipeline(itp), i, e)
  /\ phase' = "out" /\ hint' = NoHint
  /\ UNCHANGED <<insns, continuations>>

(* The next block, on a stack in RAM: any of its slots may be written      *)
(* before they are read.                                                   *)
NewBlock ==
  /\ phase = "out" /\ blk.regs[Sp] \in Ram
  /\ \E ls \in SUBSET Slotted : blk' = Entry(blk.regs, blk.hi, blk.mem, ls)
  /\ itp' = [Drained(itp) EXCEPT !.trap = FALSE, !.cond = 0]
  /\ phase' = "run" /\ hint' = NoHint /\ insns' = 0 /\ continuations' = 0

BcNext ==
  \/ \E i \in Instructions : Insn(i) \/ Branch(i) \/ Syscall(i) \/ Fault(i)
  \/ Continue \/ Leave \/ SplitBlock \/ NewBlock

BcSpec == BcInit /\ [][BcNext]_bcVars

-----------------------------------------------------------------------------
BcTypeOK ==
  /\ blk.home \in [Homed -> 0 .. V] /\ blk.regs \in [Regs -> Words]
  /\ blk.k \in [Regs -> 0 .. V] /\ blk.mem \in [Ram -> Words]
  /\ blk.lazy \subseteq Regs /\ blk.known \subseteq Regs
  /\ blk.dirty \subseteq blk.loaded /\ blk.loaded \subseteq Slotted
  /\ itp.regs \in [Regs -> Words] /\ hint.reg \in Src

(* What compiled code would find in a register.                            *)
View(r) == IF Holds(blk, r) THEN blk.k[r] ELSE Settled(blk, r)

(* Whatever the way out of a block, cpu.regs[] is the guest's state.       *)
ExitsExact == phase = "out" => blk.regs = Drained(itp).regs

(* After every instruction, loads in flight counted, compiled code and the *)
(* interpreter agree on registers, memory, branch conditions and traps,    *)
(* and so do they whatever the way out of the block.                       *)
Agrees ==
  /\ phase # "out" =>
       \A r \in Regs : (IF blk.pend.reg = r THEN blk.ldv ELSE View(r)) = Drained(itp).regs[r]
  /\ blk.mem = itp.mem /\ blk.hi = itp.hi /\ blk.cond = itp.cond /\ blk.trap = itp.trap
  /\ ExitsExact

ScratchTrue == \A s \in Scratch : blk.sc[s].reg \notin blk.lazy \cup {0} => blk.sc[s].val = View(blk.sc[s].reg)
ConstantsTrue ==
  phase # "out" =>
    /\ \A r \in Regs : blk.k[r] # Junk => View(r) = blk.k[r]
    /\ blk.hb.reg # 0 => blk.hb.val = View(blk.hb.reg)
    /\ \A r \in blk.known : View(r) \in Ram

(* What the compiler believes is so: a scratch register holds the register *)
(* it is said to cache, a constant is the value, the cached host base is   *)
(* its register's, and a register taken for a pointer to RAM is one.       *)
BeliefsTrue == BcTypeOK /\ ScratchTrue /\ ConstantsTrue
=============================================================================
