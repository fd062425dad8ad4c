------------------------- MODULE BlockCompilerProofs -------------------------
(***************************************************************************)
(* For any registers, words, RAM and instructions of the kinds modelled,   *)
(* and blocks of any length: where none of the code's known defects is met *)
(* (Shown = {}), what the compiler believes is true and compiled code does *)
(* what the interpreter does.                                              *)
(*                                                                         *)
(* Everything is stated of what code would find in a register, Sees(m, r), *)
(* whatever the place it is kept in.  First the places: what moves a value *)
(* changes no register (Kept), what writes one changes that one (Wrote).   *)
(* Then the code of each instruction (Did, Got) and its interpretation     *)
(* (IDid, IGot), the two together with the load in flight (Delayed), the   *)
(* ends of a block, and the inductive invariant CompilerInv.               *)
(***************************************************************************)
EXTENDS BlockCompiler, TLAPS

-----------------------------------------------------------------------------
(* What code finds in a register, of any state of compiler and host.       *)
Sees(m, r) == IF Holds(m, r) THEN m.k[r] ELSE Settled(m, r)
Operand(m, r) == IF r = 0 THEN 0 ELSE Sees(m, r)

Machines ==
  [k : [Regs -> 0 .. V], lazy : SUBSET Regs, known : SUBSET Regs, home : [Homed -> 0 .. V],
   dirty : SUBSET Slotted, loaded : SUBSET Slotted, sc : [Scratch -> [reg : Plain \cup {0}, val : 0 .. V]],
   hb : [reg : Src, val : 0 .. V], pend : [reg : Src, now : BOOLEAN], regs : [Regs -> Words], hi : Words,
   v0 : Words, ldv : Words, mem : [Ram -> Words], cond : 0 .. V, trap : BOOLEAN]

(* A clean slot is what cpu.regs[] is; a lazy constant has a value.        *)
HostOK(m) ==
  /\ m \in Machines /\ m.dirty \subseteq m.loaded
  /\ \A r \in m.loaded \ m.dirty : m.home[r] = m.regs[r]
  /\ \A r \in Pinned \cup m.loaded : m.home[r] # Junk
  /\ \A r \in m.lazy : m.k[r] # Junk

(* The beliefs of BeliefsTrue, of any state.                               *)
CopiesOK(m) == \A s \in Scratch : m.sc[s].reg \notin m.lazy \cup {0} => m.sc[s].val = Sees(m, m.sc[s].reg)
ConstsOK(m) == \A r \in Regs : m.k[r] # Junk => Sees(m, r) = m.k[r]
BaseOK(m) == m.hb.reg # 0 => m.hb.val = Sees(m, m.hb.reg)
KnownOK(m) == \A r \in m.known : Sees(m, r) \in Ram

(* What no register is part of.                                            *)
Rest(m) == <<m.hi, m.mem, m.pend, m.ldv, m.cond, m.trap>>

(* From m to q no register changes and no belief is added; a register with *)
(* a lazy constant that T8 or T9 is said to cache was cached there before. *)
Kept(m, q) ==
  /\ HostOK(q) /\ Rest(q) = Rest(m) /\ q.v0 = m.v0
  /\ \A r \in Regs : Sees(q, r) = Sees(m, r) /\ q.k[r] \in {m.k[r], Junk}
  /\ q.lazy \subseteq m.lazy /\ q.known \subseteq m.known
  /\ \A s \in Scratch : q.sc[s].reg \in q.lazy => q.sc[s].reg = m.sc[s].reg

(* No stale copy of r's value will outlive the constant being settled.     *)
NoStale(m, r) == r \in m.lazy \cap Plain => \A s \in Scratch : m.sc[s].reg # r

(* What the assumption on the constants gives.                             *)
LEMMA CompilerConstants ==
  /\ V \in Nat \ {0} /\ Junk = V /\ 0 \in Ram /\ Ram \subseteq Words /\ Words \subseteq 0 .. V /\ Junk \in 0 .. V
  /\ 0 \in Words /\ Junk \notin Words /\ Io \in Words /\ Io \notin Ram
  /\ 0 \notin Regs /\ Sp \in Pinned /\ IoVals \subseteq Words
  /\ Homed \subseteq Regs /\ Pinned \subseteq Homed /\ Slotted \subseteq Homed /\ Plain \subseteq Regs
  /\ Homed \cap Plain = {} /\ Pinned \cap Slotted = {} /\ \A r \in Regs : r \in Homed \/ r \in Plain
  /\ \A r \in Homed : r \in Pinned \/ r \in Slotted
  /\ \A i \in Instructions : i.rd \in Src /\ i.rs \in Src /\ i.rt \in Src /\ i.v \in Words
BY CompilerAssumption DEF Junk, Words, Regs, Homed, Src

(* Arithmetic stays within a word.                                         *)
LEMMA SumWord == \A a, b \in Words : Sum(a, b) \in Words
BY CompilerAssumption DEF Sum, Words

(* A value that somebody wrote is a word.                                  *)
LEMMA NotJunk == \A x \in 0 .. V : x # Junk => x \in Words
BY CompilerAssumption DEF Words, Junk

(* Every register has a value, wherever it is kept.                        *)
LEMMA SeesWord ==
  ASSUME NEW m, HostOK(m), NEW r \in Regs
  PROVE  Sees(m, r) \in Words /\ Settled(m, r) \in Words
<1>1. m.home \in [Homed -> 0 .. V] /\ m.regs \in [Regs -> Words] /\ m.k \in [Regs -> 0 .. V] /\ m.loaded \subseteq Slotted
      /\ m.lazy \subseteq Regs
  BY DEF HostOK, Machines
<1>3. Settled(m, r) \in Words
  BY <1>1, NotJunk, CompilerConstants DEF Settled, HostOK
<1> QED BY <1>1, <1>3, NotJunk DEF Sees, Holds, HostOK

(* And so has every operand, $0 included.                                  *)
LEMMA OperandWord ==
  ASSUME NEW m, HostOK(m), NEW r \in Src
  PROVE  Operand(m, r) \in Words
BY SeesWord, CompilerConstants DEF Operand, Src

(* Kept is reflexive, and transitive.                                      *)
LEMMA KeptSelf == ASSUME NEW m, HostOK(m) PROVE Kept(m, m)
BY DEF Kept

LEMMA KeptTwice ==
  ASSUME NEW m, NEW p, NEW q, Kept(m, p), Kept(p, q)
  PROVE  Kept(m, q)
<1>1. ASSUME NEW r \in Regs PROVE Sees(q, r) = Sees(m, r) /\ q.k[r] \in {m.k[r], Junk}
  BY DEF Kept
<1>2. ASSUME NEW s \in Scratch, q.sc[s].reg \in q.lazy PROVE q.sc[s].reg = m.sc[s].reg
  BY <1>2 DEF Kept
<1> QED BY <1>1, <1>2 DEF Kept

(* True beliefs stay true when no register changes.                        *)
LEMMA KeptBeliefs ==
  ASSUME NEW m, NEW q, HostOK(m), Kept(m, q)
  PROVE  /\ ConstsOK(m) => ConstsOK(q)
         /\ KnownOK(m) => KnownOK(q)
         /\ \A r : NoStale(m, r) => NoStale(q, r)
         /\ \A r \in Src : Operand(q, r) = Operand(m, r)
<1>1. ConstsOK(m) => ConstsOK(q)
  BY DEF ConstsOK, Kept
<1>2. KnownOK(m) => KnownOK(q)
  BY DEF KnownOK, Kept, HostOK, Machines
<1>3. ASSUME NEW r, NoStale(m, r) PROVE NoStale(q, r)
  BY <1>3 DEF NoStale, Kept
<1>4. \A r \in Src : Operand(q, r) = Operand(m, r)
  BY CompilerConstants DEF Operand, Src, Kept
<1> QED BY <1>1, <1>2, <1>3, <1>4

-----------------------------------------------------------------------------
(* dynarec_emit.c, operator by operator: the fields each one changes.      *)
LEMMA MachineFields ==
  ASSUME NEW m \in Machines
  PROVE  /\ m.k \in [Regs -> 0 .. V] /\ m.lazy \subseteq Regs /\ m.known \subseteq Regs
         /\ m.home \in [Homed -> 0 .. V] /\ m.dirty \subseteq Slotted /\ m.loaded \subseteq Slotted
         /\ m.sc \in [Scratch -> [reg : Plain \cup {0}, val : 0 .. V]]
         /\ m.hb \in [reg : Src, val : 0 .. V] /\ m.pend \in [reg : Src, now : BOOLEAN]
         /\ m.regs \in [Regs -> Words] /\ m.hi \in Words /\ m.v0 \in Words /\ m.ldv \in Words
         /\ m.mem \in [Ram -> Words] /\ m.cond \in 0 .. V /\ m.trap \in BOOLEAN
BY DEF Machines

(* The copies in T8 and T9 and their types.                                *)
LEMMA ScratchFields ==
  ASSUME NEW m \in Machines, NEW s \in Scratch
  PROVE  m.sc[s] \in [reg : Plain \cup {0}, val : 0 .. V] /\ m.sc[s].reg \in Plain \cup {0} /\ m.sc[s].val \in 0 .. V
<1>1. m.sc[s] \in [reg : Plain \cup {0}, val : 0 .. V]
  BY MachineFields
<1> QED BY <1>1

(* The fields Put leaves alone.                                            *)
Beside(m, q) ==
  /\ Rest(q) = Rest(m) /\ q.v0 = m.v0 /\ q.k = m.k /\ q.lazy = m.lazy /\ q.known = m.known
  /\ q.sc = m.sc /\ q.hb = m.hb

(* Put writes one register, where it lives.                                *)
LEMMA PutFields ==
  ASSUME NEW m, HostOK(m), NEW r \in Regs, NEW v \in Words
  PROVE  LET q == Put(m, r, v) IN
         /\ HostOK(q) /\ Beside(m, q)
         /\ Settled(q, r) = v /\ \A x \in Regs \ {r} : Settled(q, x) = Settled(m, x)
<1> DEFINE q == Put(m, r, v)
<1>m. m \in Machines
  BY DEF HostOK
<1>v. v \in 0 .. V /\ v # Junk
  BY CompilerConstants DEF Words, Junk
<1>1. CASE r \in Homed
  <2>1. q = [m EXCEPT !.home = [m.home EXCEPT ![r] = v], !.dirty = m.dirty \cup ({r} \cap Slotted),
                      !.loaded = m.loaded \cup ({r} \cap Slotted)]
    BY <1>1 DEF Put
  <2>2. q \in Machines /\ q.home = [m.home EXCEPT ![r] = v] /\ q.dirty = m.dirty \cup ({r} \cap Slotted)
        /\ q.loaded = m.loaded \cup ({r} \cap Slotted) /\ q.regs = m.regs /\ Beside(m, q)
    <3>1. [m.home EXCEPT ![r] = v] \in [Homed -> 0 .. V]
      BY MachineFields, <1>m, <1>v
    <3>2. m.dirty \cup ({r} \cap Slotted) \in SUBSET Slotted /\ m.loaded \cup ({r} \cap Slotted) \in SUBSET Slotted
      BY MachineFields, <1>m
    <3>3. q \in Machines
      BY <2>1, <3>1, <3>2, <1>m, ZenonT(60) DEF Machines
    <3> QED BY <2>1, <1>m, <3>3 DEF Machines, Beside, Rest
  <2> HIDE DEF q
  <2>3. \A x \in Homed : q.home[x] = IF x = r THEN v ELSE m.home[x]
    BY <2>2, MachineFields, <1>m
  <2>4. HostOK(q)
    <3>1. \A x \in q.loaded \ q.dirty : q.home[x] = q.regs[x]
      BY <2>2, <2>3, <1>m, MachineFields, CompilerConstants DEF HostOK
    <3>2. \A x \in Pinned \cup q.loaded : q.home[x] # Junk
      BY <2>2, <2>3, <1>v, <1>m, MachineFields, CompilerConstants DEF HostOK
    <3>3. \A x \in q.lazy : q.k[x] # Junk
      BY <2>2 DEF HostOK, Beside
    <3> QED BY <2>2, <3>1, <3>2, <3>3 DEF HostOK
  <2>5. Settled(q, r) = v
    BY <1>1, <2>2, <2>3, CompilerConstants DEF Settled
  <2>6. \A x \in Regs \ {r} : Settled(q, x) = Settled(m, x)
    BY <2>2, <2>3, <1>m, MachineFields, CompilerConstants DEF Settled
  <2> QED BY <2>2, <2>4, <2>5, <2>6 DEF q
<1>2. CASE r \notin Homed
  <2>1. q = [m EXCEPT !.regs = [m.regs EXCEPT ![r] = v]]
    BY <1>2 DEF Put
  <2>2. q \in Machines /\ q.home = m.home /\ q.dirty = m.dirty /\ q.loaded = m.loaded
        /\ q.regs = [m.regs EXCEPT ![r] = v] /\ Beside(m, q)
    <3>1. [m.regs EXCEPT ![r] = v] \in [Regs -> Words]
      BY MachineFields, <1>m
    <3> QED BY <2>1, <3>1, <1>m DEF Machines, Beside, Rest
  <2> HIDE DEF q
  <2>3. \A x \in Regs : q.regs[x] = IF x = r THEN v ELSE m.regs[x]
    BY <2>2, MachineFields, <1>m
  <2>4. HostOK(q)
    BY <1>2, <2>2, <2>3, <1>m, MachineFields, CompilerConstants DEF HostOK, Beside
  <2>5. Settled(q, r) = v /\ \A x \in Regs \ {r} : Settled(q, x) = Settled(m, x)
    BY <1>2, <2>2, <2>3, <1>m, MachineFields, CompilerConstants DEF Settled
  <2> QED BY <2>2, <2>4, <2>5 DEF q
<1> QED BY <1>1, <1>2

(* Only what is cached in T8 and T9 changes.                               *)
SameHost(m, q) ==
  /\ HostOK(q) /\ Rest(q) = Rest(m) /\ q.v0 = m.v0 /\ q.k = m.k /\ q.lazy = m.lazy /\ q.known = m.known
  /\ q.home = m.home /\ q.dirty = m.dirty /\ q.loaded = m.loaded /\ q.regs = m.regs

(* T8 and T9 are copies: no register depends on them.                      *)
LEMMA SameHostSees ==
  ASSUME NEW m, NEW q, SameHost(m, q)
  PROVE  \A r : Settled(q, r) = Settled(m, r) /\ Sees(q, r) = Sees(m, r)
BY DEF SameHost, Settled, Sees, Holds

(* The empty copy and the empty base.                                      *)
LEMMA NothingIsACopy == Nothing \in [reg : Plain \cup {0}, val : 0 .. V] /\ Nothing.reg = 0 /\ Nothing.val = Junk
                        /\ Nothing \in [reg : Src, val : 0 .. V]
BY CompilerConstants DEF Nothing, Src

(* SCRATCH_INVALIDATE_PSX drops the copies of some registers only.         *)
LEMMA ForgetFields ==
  ASSUME NEW m, HostOK(m), NEW rs
  PROVE  LET q == Forget(m, rs) IN
         /\ SameHost(m, q) /\ q.hb = m.hb
         /\ \A s \in Scratch : q.sc[s] = IF m.sc[s].reg \in rs THEN Nothing ELSE m.sc[s]
<1> DEFINE q == Forget(m, rs)
           sc == [s \in Scratch |-> IF m.sc[s].reg \in rs THEN Nothing ELSE m.sc[s]]
<1>m. m \in Machines
  BY DEF HostOK
<1>1. q = [m EXCEPT !.sc = sc]
  BY DEF Forget
<1>2. sc \in [Scratch -> [reg : Plain \cup {0}, val : 0 .. V]]
  BY <1>m, ScratchFields, NothingIsACopy
<1>3. q \in Machines
  BY <1>1, <1>2, <1>m DEF Machines
<1>4. q.sc = sc /\ q.hb = m.hb /\ Rest(q) = Rest(m) /\ q.v0 = m.v0 /\ q.k = m.k /\ q.lazy = m.lazy
      /\ q.known = m.known /\ q.home = m.home /\ q.dirty = m.dirty /\ q.loaded = m.loaded /\ q.regs = m.regs
  BY <1>1, <1>m DEF Machines, Rest
<1> HIDE DEF q
<1>5. HostOK(q)
  BY <1>3, <1>4 DEF HostOK
<1> QED BY <1>4, <1>5 DEF SameHost, q

(* reg_cache_invalidate drops all copies.                                  *)
LEMMA InvalidateFields ==
  ASSUME NEW m, HostOK(m)
  PROVE  LET q == reg_cache_invalidate(m) IN
         /\ SameHost(m, q) /\ q.hb = m.hb /\ \A s \in Scratch : q.sc[s] = Nothing
         /\ Kept(m, q) /\ CopiesOK(q) /\ \A r : NoStale(q, r)
<1> DEFINE q == reg_cache_invalidate(m)
<1>m. m \in Machines
  BY DEF HostOK
<1>1. q = [m EXCEPT !.sc = NoScratch]
  BY DEF reg_cache_invalidate
<1>2. NoScratch \in [Scratch -> [reg : Plain \cup {0}, val : 0 .. V]] /\ \A s \in Scratch : NoScratch[s] = Nothing
  BY NothingIsACopy DEF NoScratch
<1>3. q \in Machines
  BY <1>1, <1>2, <1>m DEF Machines
<1>4. q.sc = NoScratch /\ q.hb = m.hb /\ Rest(q) = Rest(m) /\ q.v0 = m.v0 /\ q.k = m.k /\ q.lazy = m.lazy
      /\ q.known = m.known /\ q.home = m.home /\ q.dirty = m.dirty /\ q.loaded = m.loaded /\ q.regs = m.regs
  BY <1>1, <1>m DEF Machines, Rest
<1> HIDE DEF q
<1>5. SameHost(m, q)
  BY <1>3, <1>4 DEF HostOK, SameHost
<1>6. \A s \in Scratch : q.sc[s] = Nothing /\ q.sc[s].reg = 0
  BY <1>2, <1>4, NothingIsACopy
<1>7. 0 \notin q.lazy
  BY <1>3, MachineFields, CompilerConstants
<1>8. Kept(m, q)
  BY <1>5, <1>6, <1>7, SameHostSees DEF Kept, SameHost
<1>9. CopiesOK(q) /\ \A r : NoStale(q, r)
  BY <1>6, CompilerConstants DEF CopiesOK, NoStale
<1> QED BY <1>4, <1>5, <1>6, <1>8, <1>9 DEF q

(* Dropping the cached host base.                                          *)
LEMMA NoBaseFields ==
  ASSUME NEW m, HostOK(m)
  PROVE  LET q == NoBase(m) IN
         /\ SameHost(m, q) /\ q.hb = Nothing /\ q.sc = m.sc /\ Kept(m, q) /\ BaseOK(q)
         /\ CopiesOK(m) => CopiesOK(q)
<1> DEFINE q == NoBase(m)
<1>m. m \in Machines
  BY DEF HostOK
<1>1. q = [m EXCEPT !.hb = Nothing]
  BY DEF NoBase
<1>3. q \in Machines
  BY <1>1, NothingIsACopy, <1>m DEF Machines
<1>4. q.hb = Nothing /\ q.sc = m.sc /\ Rest(q) = Rest(m) /\ q.v0 = m.v0 /\ q.k = m.k /\ q.lazy = m.lazy
      /\ q.known = m.known /\ q.home = m.home /\ q.dirty = m.dirty /\ q.loaded = m.loaded /\ q.regs = m.regs
  BY <1>1, <1>m DEF Machines, Rest
<1> HIDE DEF q
<1>5. SameHost(m, q)
  BY <1>3, <1>4 DEF HostOK, SameHost
<1>8. Kept(m, q)
  BY <1>4, <1>5, SameHostSees DEF Kept, SameHost
<1>9. BaseOK(q) /\ (CopiesOK(m) => CopiesOK(q))
  BY <1>4, <1>5, SameHostSees, NothingIsACopy DEF CopiesOK, BaseOK
<1> QED BY <1>4, <1>5, <1>8, <1>9 DEF q

(* Caching another register in T8 or T9.                                   *)
LEMMA SetScratchFields ==
  ASSUME NEW m, HostOK(m), NEW s \in Scratch, NEW c \in [reg : Plain \cup {0}, val : 0 .. V]
  PROVE  LET q == SetScratch(m, s, c) IN
         /\ SameHost(m, q) /\ q.hb.reg = m.hb.reg /\ (s = 8 => q.hb = m.hb)
         /\ \A x \in Scratch : q.sc[x] = IF x = s THEN c ELSE m.sc[x]
<1> DEFINE q == SetScratch(m, s, c)
           sc == [m.sc EXCEPT ![s] = c]
           hb == [m.hb EXCEPT !.val = IF s = 9 /\ ~(c.reg # 0 /\ c = m.sc[9]) THEN Junk ELSE m.hb.val]
<1>m. m \in Machines
  BY DEF HostOK
<1>f. m.hb \in [reg : Src, val : 0 .. V] /\ m.sc \in [Scratch -> [reg : Plain \cup {0}, val : 0 .. V]]
  BY <1>m, MachineFields
<1>1. q = [m EXCEPT !.sc = sc, !.hb = hb]
  BY <1>m, <1>f DEF SetScratch, Machines
<1>2. sc \in [Scratch -> [reg : Plain \cup {0}, val : 0 .. V]] /\ \A x \in Scratch : sc[x] = IF x = s THEN c ELSE m.sc[x]
  BY <1>f
<1>h. hb \in [reg : Src, val : 0 .. V] /\ hb.reg = m.hb.reg /\ (s = 8 => hb = m.hb)
  BY <1>f, CompilerConstants
<1> HIDE DEF sc, hb
<1>3. q \in Machines
  BY <1>1, <1>2, <1>h, <1>m, ZenonT(60) DEF Machines
<1>4. q.sc = sc /\ q.hb = hb /\ Rest(q) = Rest(m) /\ q.v0 = m.v0 /\ q.k = m.k /\ q.lazy = m.lazy
      /\ q.known = m.known /\ q.home = m.home /\ q.dirty = m.dirty /\ q.loaded = m.loaded /\ q.regs = m.regs
  BY <1>1, <1>m DEF Machines, Rest
<1> HIDE DEF q
<1>5. SameHost(m, q)
  BY <1>3, <1>4 DEF HostOK, SameHost
<1> QED BY <1>2, <1>h, <1>4, <1>5 DEF q

(* A lazy constant is put where its register lives.                        *)
LEMMA Materialised ==
  ASSUME NEW m, HostOK(m), NEW r \in m.lazy
  PROVE  LET q == [Put(m, r, m.k[r]) EXCEPT !.lazy = @ \ {r}] IN
         /\ Kept(m, q) /\ q.sc = m.sc /\ q.hb = m.hb /\ q.k = m.k /\ q.known = m.known
         /\ q.lazy = m.lazy \ {r}
<1> DEFINE p == Put(m, r, m.k[r])
           q == [p EXCEPT !.lazy = p.lazy \ {r}]
<1>m. m \in Machines /\ r \in Regs /\ m.k[r] \in Words
  BY MachineFields, SeesWord DEF HostOK, Sees, Holds
<1>1. HostOK(p) /\ Beside(m, p) /\ Settled(p, r) = m.k[r] /\ \A x \in Regs \ {r} : Settled(p, x) = Settled(m, x)
  BY <1>m, PutFields
<1>p. p \in Machines
  BY <1>1 DEF HostOK
<1> HIDE DEF p
<1>2. q \in Machines
  BY <1>p DEF Machines
<1>3. /\ q.sc = p.sc /\ q.hb = p.hb /\ Rest(q) = Rest(p) /\ q.v0 = p.v0 /\ q.k = p.k /\ q.lazy = p.lazy \ {r}
      /\ q.known = p.known /\ q.home = p.home /\ q.dirty = p.dirty /\ q.loaded = p.loaded /\ q.regs = p.regs
  BY <1>p DEF Machines, Rest
<1> HIDE DEF q
<1>4. HostOK(q)
  BY <1>1, <1>2, <1>3 DEF HostOK
<1>5. \A x : Settled(q, x) = Settled(p, x)
  BY <1>3 DEF Settled
<1>6. ASSUME NEW x \in Regs PROVE Sees(q, x) = Sees(m, x)
  <2>1. CASE x = r
    <3>1. Sees(q, x) = Settled(p, r) /\ Sees(m, x) = m.k[r]
      BY <2>1, <1>3, <1>5 DEF Sees, Holds
    <3> QED BY <3>1, <1>1
  <2>2. CASE x # r
    <3>1. Holds(q, x) <=> Holds(m, x)
      BY <2>2, <1>1, <1>3 DEF Holds, Beside
    <3>2. Settled(q, x) = Settled(m, x) /\ q.k = m.k
      BY <2>2, <1>1, <1>3, <1>5 DEF Beside
    <3> QED BY <3>1, <3>2 DEF Sees
  <2> QED BY <2>1, <2>2
<1>7. /\ q.sc = m.sc /\ q.hb = m.hb /\ q.k = m.k /\ q.known = m.known /\ q.lazy = m.lazy \ {r}
      /\ Rest(q) = Rest(m) /\ q.v0 = m.v0
  BY <1>1, <1>3 DEF Beside
<1>8. Kept(m, q)
  BY <1>4, <1>6, <1>7 DEF Kept
<1> QED BY <1>7, <1>8 DEF p, q

(* An operand is read right, whatever the place it is found in.            *)
LEMMA ValueIs ==
  ASSUME NEW m, HostOK(m), CopiesOK(m), NEW r \in Src, NEW s \in Scratch
  PROVE  Value(m, r, s) = Operand(m, r)
<1>1. CASE r = 0
  <2>1. ~Holds(m, 0) /\ 0 \notin Plain
    BY MachineFields, CompilerConstants DEF HostOK, Holds
  <2> QED BY <1>1, <2>1 DEF Value, Operand
<1>2. CASE r # 0 /\ Holds(m, r)
  BY <1>2 DEF Value, Operand, Sees
<1>3. CASE r # 0 /\ ~Holds(m, r)
  <2>1. Operand(m, r) = Settled(m, r)
    BY <1>3 DEF Operand, Sees
  <2>2. ASSUME r \in Plain, m.sc[s].reg = r PROVE m.sc[s].val = Settled(m, r)
    <3>1. r \notin m.lazy
      BY <1>3 DEF Holds
    <3> QED BY <1>3, <2>2, <3>1 DEF CopiesOK, Sees
  <2> QED BY <1>3, <2>1, <2>2 DEF Value
<1> QED BY <1>1, <1>2, <1>3

(* emit_use_reg changes no register, if no stale copy outlives a constant. *)
LEMMA UseReg ==
  ASSUME NEW m, HostOK(m), CopiesOK(m), NEW r \in Src, NEW s \in Scratch, NoStale(m, r)
  PROVE  LET q == emit_use_reg(m, r, s) IN
         /\ Kept(m, q) /\ CopiesOK(q) /\ q.k = m.k /\ q.known = m.known
         /\ q.hb.reg = m.hb.reg /\ (s = 8 \/ r \notin Plain => q.hb = m.hb) /\ (r \notin Plain => q.sc = m.sc)
         /\ \A x \in Scratch \ {s} : q.sc[x] = m.sc[x]
         /\ r \notin q.lazy
<1> DEFINE q == emit_use_reg(m, r, s)
<1>m. m \in Machines /\ 0 \notin m.lazy /\ m.lazy \subseteq Regs
  BY MachineFields, CompilerConstants DEF HostOK
<1>1. CASE r = 0
  <2>0. ~Holds(m, 0) /\ 0 \notin Pinned /\ 0 \notin Slotted
    BY <1>m, CompilerConstants DEF Holds
  <2>1. q = m
    BY <1>1, <2>0 DEF emit_use_reg
  <2> QED BY <2>1, <1>1, <1>m, KeptSelf
<1>2. CASE r # 0 /\ Holds(m, r)
  <2> DEFINE p == [Put(m, r, m.k[r]) EXCEPT !.lazy = @ \ {r}]
  <2>1. r \in m.lazy
    BY <1>2 DEF Holds
  <2>2. Kept(m, p) /\ p.sc = m.sc /\ p.hb = m.hb /\ p.k = m.k /\ p.known = m.known /\ p.lazy = m.lazy \ {r}
    BY <2>1, Materialised
  <2>3. q = IF r \in Homed THEN p ELSE SetScratch(p, s, Nothing)
    BY <1>2, <1>m, <2>1, CompilerConstants DEF emit_use_reg
  <2> HIDE DEF p
  <2>4. HostOK(p) /\ \A x \in Regs : Sees(p, x) = Sees(m, x)
    BY <2>2 DEF Kept
  <2>5. \A x \in Scratch : m.sc[x].reg # r
    BY <2>1, <1>m, CompilerConstants, ScratchFields DEF NoStale
  <2>6. CopiesOK(p)
    <3> SUFFICES ASSUME NEW x \in Scratch, p.sc[x].reg \notin p.lazy \cup {0} PROVE p.sc[x].val = Sees(p, p.sc[x].reg)
      BY DEF CopiesOK
    <3>1. m.sc[x].reg \notin m.lazy \cup {0} /\ m.sc[x].reg \in Regs
      BY <2>2, <2>5, <1>m, ScratchFields, CompilerConstants
    <3> QED BY <3>1, <2>2, <2>4 DEF CopiesOK
  <2>7. CASE r \in Homed
    BY <2>2, <2>3, <2>6, <2>7, CompilerConstants
  <2>8. CASE r \notin Homed
    <3>1. r \in Plain
      BY <2>8, <2>1, <1>m, CompilerConstants
    <3>2. q = SetScratch(p, s, Nothing)
      BY <2>3, <2>8
    <3>3. SameHost(p, q) /\ q.hb.reg = p.hb.reg /\ (s = 8 => q.hb = p.hb)
          /\ \A x \in Scratch : q.sc[x] = IF x = s THEN Nothing ELSE p.sc[x]
      BY <3>2, <2>4, SetScratchFields, NothingIsACopy
    <3> HIDE DEF q
    <3>4. Kept(m, q) /\ q.k = m.k /\ q.known = m.known /\ r \notin q.lazy
      <4>1. q.k = m.k /\ q.known = m.known /\ q.lazy = m.lazy \ {r} /\ HostOK(q) /\ Rest(q) = Rest(m) /\ q.v0 = m.v0
        BY <2>2, <3>3 DEF SameHost, Kept
      <4>2. \A x \in Regs : Sees(q, x) = Sees(m, x)
        BY <2>4, <3>3, SameHostSees
      <4>3. \A x \in Scratch : q.sc[x].reg \in q.lazy => q.sc[x].reg = m.sc[x].reg
        BY <3>3, <4>1, <1>m, <2>2, NothingIsACopy
      <4> QED BY <4>1, <4>2, <4>3 DEF Kept
    <3>5. CopiesOK(q)
      <4> SUFFICES ASSUME NEW x \in Scratch, q.sc[x].reg \notin q.lazy \cup {0} PROVE q.sc[x].val = Sees(q, q.sc[x].reg)
        BY DEF CopiesOK
      <4>1. x # s /\ q.sc[x] = p.sc[x] /\ q.lazy = p.lazy
        BY <3>3, NothingIsACopy DEF SameHost
      <4>2. Sees(q, p.sc[x].reg) = Sees(p, p.sc[x].reg)
        BY <3>3, SameHostSees
      <4> QED BY <4>1, <4>2, <2>6 DEF CopiesOK
    <3> QED BY <3>1, <3>3, <3>4, <3>5, <2>2 DEF q
  <2> QED BY <2>7, <2>8
<1>3. CASE r # 0 /\ ~Holds(m, r) /\ r \in Pinned
  <2>1. q = m /\ r \notin m.lazy
    BY <1>3, CompilerConstants DEF emit_use_reg, Holds
  <2> QED BY <2>1, <1>m, KeptSelf
<1>4. CASE r # 0 /\ ~Holds(m, r) /\ r \in Slotted
  <2> DEFINE home == [m.home EXCEPT ![r] = Settled(m, r)]
  <2>1. q = [m EXCEPT !.home = home, !.loaded = m.loaded \cup {r}]
    BY <1>4, CompilerConstants DEF emit_use_reg
  <2>2. r \in Homed /\ r \in Regs /\ r \notin Pinned /\ r \notin Plain /\ r \notin m.lazy
    BY <1>4, CompilerConstants DEF Holds
  <2>3. Settled(m, r) \in Words /\ Settled(m, r) \in 0 .. V /\ Settled(m, r) # Junk
    BY <2>2, SeesWord, CompilerConstants
  <2>4. home \in [Homed -> 0 .. V] /\ \A x \in Homed : home[x] = IF x = r THEN Settled(m, r) ELSE m.home[x]
    BY <2>2, <2>3, <1>m, MachineFields
  <2>l. m.loaded \cup {r} \in SUBSET Slotted
    BY <1>4, <1>m, MachineFields
  <2> HIDE DEF home
  <2>5. q \in Machines
    BY <2>1, <2>4, <2>l, <1>m, ZenonT(60) DEF Machines
  <2>6. /\ q.sc = m.sc /\ q.hb = m.hb /\ Rest(q) = Rest(m) /\ q.v0 = m.v0 /\ q.k = m.k /\ q.lazy = m.lazy
        /\ q.known = m.known /\ q.home = home /\ q.dirty = m.dirty /\ q.loaded = m.loaded \cup {r} /\ q.regs = m.regs
    BY <2>1, <1>m DEF Machines, Rest
  <2> HIDE DEF q
  <2>7. \A x \in Regs : Settled(q, x) = Settled(m, x)
    BY <2>2, <2>4, <2>6, <1>m, MachineFields, CompilerConstants DEF Settled
  <2>8. HostOK(q)
    <3>1. \A x \in q.loaded \ q.dirty : q.home[x] = q.regs[x]
      <4>1. ASSUME r \notin m.dirty PROVE Settled(m, r) = m.regs[r]
        BY <4>1, <2>2, <1>4 DEF Settled, HostOK
      <4> QED BY <4>1, <2>4, <2>6, <2>l, CompilerConstants DEF HostOK
    <3>2. \A x \in Pinned \cup q.loaded : q.home[x] # Junk
      BY <2>3, <2>4, <2>6, <2>l, CompilerConstants DEF HostOK
    <3> QED BY <2>5, <2>6, <3>1, <3>2 DEF HostOK
  <2>9. \A x \in Regs : Sees(q, x) = Sees(m, x)
    BY <2>6, <2>7 DEF Sees, Holds
  <2>10. Kept(m, q)
    BY <2>6, <2>8, <2>9 DEF Kept
  <2>11. CopiesOK(q)
    <3>1. \A x \in Scratch : m.sc[x].reg # 0 => m.sc[x].reg \in Regs
      BY <1>m, ScratchFields, CompilerConstants
    <3> QED BY <2>6, <2>9, <3>1 DEF CopiesOK
  <2> QED BY <2>2, <2>6, <2>10, <2>11 DEF q
<1>5. CASE r # 0 /\ ~Holds(m, r) /\ r \notin Homed
  <2> DEFINE c == [reg |-> r, val |-> Value(m, r, s)]
  <2>1. r \in Plain /\ r \in Regs /\ r \notin Pinned /\ r \notin Slotted /\ r \notin m.lazy
    BY <1>5, CompilerConstants DEF Src, Holds
  <2>2. q = SetScratch(m, s, c)
    BY <1>5, <2>1 DEF emit_use_reg
  <2>3. Value(m, r, s) = Sees(m, r) /\ Sees(m, r) \in 0 .. V
    BY <1>5, <2>1, ValueIs, SeesWord, CompilerConstants DEF Operand
  <2>4. c \in [reg : Plain \cup {0}, val : 0 .. V] /\ c.reg = r /\ c.val = Sees(m, r)
    BY <2>1, <2>3
  <2> HIDE DEF c
  <2>5. SameHost(m, q) /\ q.hb.reg = m.hb.reg /\ (s = 8 => q.hb = m.hb)
        /\ \A x \in Scratch : q.sc[x] = IF x = s THEN c ELSE m.sc[x]
    BY <2>2, <2>4, SetScratchFields
  <2> HIDE DEF q
  <2>6. \A x : Sees(q, x) = Sees(m, x)
    BY <2>5, SameHostSees
  <2>7. Kept(m, q)
    BY <2>1, <2>4, <2>5, <2>6 DEF Kept, SameHost
  <2>8. CopiesOK(q)
    BY <2>4, <2>5, <2>6 DEF CopiesOK, SameHost
  <2> QED BY <2>1, <2>5, <2>7, <2>8 DEF q, SameHost
<1> QED BY <1>1, <1>2, <1>3, <1>4, <1>5 DEF Homed

(* Nor does emit_load_psx_reg.                                             *)
LEMMA LoadReg ==
  ASSUME NEW m, HostOK(m), CopiesOK(m), NEW r \in Src, NEW s \in Scratch, NoStale(m, r)
  PROVE  LET q == emit_load_psx_reg(m, r, s) IN
         /\ Kept(m, q) /\ CopiesOK(q) /\ q.k = m.k /\ q.known = m.known
         /\ q.hb.reg = m.hb.reg /\ (s = 8 => q.hb = m.hb) /\ (r \notin Plain => q.sc[s] = Nothing)
<1> DEFINE p == emit_use_reg(m, r, s)
           q == emit_load_psx_reg(m, r, s)
<1>1. Kept(m, p) /\ CopiesOK(p) /\ p.k = m.k /\ p.known = m.known /\ p.hb.reg = m.hb.reg
      /\ (s = 8 => p.hb = m.hb) /\ HostOK(p)
  BY UseReg DEF Kept
<1>2. CASE r \in Plain
  BY <1>1, <1>2 DEF emit_load_psx_reg
<1>3. CASE r \notin Plain
  <2>1. q = SetScratch(p, s, Nothing)
    BY <1>3 DEF emit_load_psx_reg
  <2> HIDE DEF p
  <2>2. SameHost(p, q) /\ q.hb.reg = p.hb.reg /\ (s = 8 => q.hb = p.hb)
        /\ \A x \in Scratch : q.sc[x] = IF x = s THEN Nothing ELSE p.sc[x]
    BY <2>1, <1>1, SetScratchFields, NothingIsACopy
  <2> HIDE DEF q
  <2>3. \A x : Sees(q, x) = Sees(p, x)
    BY <2>2, SameHostSees
  <2>4. 0 \notin q.lazy
    BY <2>2, MachineFields, CompilerConstants DEF SameHost, HostOK
  <2>5. Kept(p, q)
    BY <2>2, <2>3, <2>4, NothingIsACopy DEF Kept, SameHost
  <2>6. Kept(m, q)
    BY <1>1, <2>5, KeptTwice
  <2>7. CopiesOK(q)
    BY <1>1, <2>2, <2>3, NothingIsACopy DEF CopiesOK, SameHost
  <2>8. q.k = m.k /\ q.known = m.known /\ q.hb.reg = m.hb.reg /\ (s = 8 => q.hb = m.hb) /\ q.sc[s] = Nothing
    BY <1>1, <2>2 DEF SameHost
  <2> QED BY <2>6, <2>7, <2>8 DEF q
<1> QED BY <1>2, <1>3

(* flush_dirty_consts leaves no lazy constant and changes no register.     *)
LEMMA FlushConsts ==
  ASSUME NEW m, HostOK(m)
  PROVE  LET q == flush_dirty_consts(m) IN
         /\ Kept(m, q) /\ (CopiesOK(m) => CopiesOK(q)) /\ q.k = m.k /\ q.known = m.known
         /\ q.lazy = {} /\ q.hb = m.hb /\ \A s \in Scratch : q.sc[s] \in {Nothing, m.sc[s]}
         /\ q.dirty = m.dirty \cup (m.lazy \cap Slotted) /\ q.loaded = m.loaded \cup (m.lazy \cap Slotted)
<1> DEFINE home == [r \in Homed |-> IF Holds(m, r) THEN m.k[r] ELSE m.home[r]]
           regs == [r \in Regs |-> IF Holds(m, r) /\ r \in Plain THEN m.k[r] ELSE m.regs[r]]
           dirty == m.dirty \cup (m.lazy \cap Slotted)
           loaded == m.loaded \cup (m.lazy \cap Slotted)
           f == [m EXCEPT !.lazy = {}, !.dirty = dirty, !.loaded = loaded, !.home = home, !.regs = regs]
           q == flush_dirty_consts(m)
<1>m. m \in Machines /\ \A r : Holds(m, r) <=> r \in m.lazy
  BY DEF HostOK, Holds
<1>1. q = Forget(f, m.lazy \cap Plain)
  BY DEF flush_dirty_consts
<1>2. \A r \in m.lazy : m.k[r] \in Words /\ m.k[r] \in 0 .. V /\ m.k[r] # Junk
  BY <1>m, SeesWord, MachineFields, CompilerConstants DEF Sees, HostOK
<1>3. /\ home \in [Homed -> 0 .. V] /\ \A r \in Homed : home[r] = IF r \in m.lazy THEN m.k[r] ELSE m.home[r]
      /\ regs \in [Regs -> Words] /\ \A r \in Regs : regs[r] = IF r \in m.lazy /\ r \in Plain THEN m.k[r] ELSE m.regs[r]
      /\ dirty \in SUBSET Slotted /\ loaded \in SUBSET Slotted
  BY <1>m, <1>2, MachineFields
<1> HIDE DEF home, regs
<1>4. f \in Machines
  BY <1>3, <1>m DEF Machines
<1>5. /\ f.sc = m.sc /\ f.hb = m.hb /\ Rest(f) = Rest(m) /\ f.v0 = m.v0 /\ f.k = m.k /\ f.lazy = {}
      /\ f.known = m.known /\ f.home = home /\ f.dirty = dirty /\ f.loaded = loaded /\ f.regs = regs
  BY <1>m DEF Machines, Rest
<1> HIDE DEF f
<1>6. HostOK(f)
  <2>1. \A r \in f.loaded \ f.dirty : f.home[r] = f.regs[r]
    BY <1>3, <1>5, MachineFields, <1>m, CompilerConstants DEF HostOK
  <2>2. \A r \in Pinned \cup f.loaded : f.home[r] # Junk
    BY <1>2, <1>3, <1>5, MachineFields, <1>m, CompilerConstants DEF HostOK
  <2>3. f.dirty \subseteq f.loaded
    BY <1>5 DEF HostOK
  <2> QED BY <1>4, <1>5, <2>1, <2>2, <2>3 DEF HostOK
<1>7. \A r \in Regs : Sees(f, r) = Sees(m, r)
  <2> SUFFICES ASSUME NEW r \in Regs PROVE Sees(f, r) = Sees(m, r)
    OBVIOUS
  <2>1. Sees(f, r) = Settled(f, r)
    BY <1>5 DEF Sees, Holds
  <2>2. CASE r \in m.lazy
    <3>1. Settled(f, r) = m.k[r]
      BY <2>2, <1>3, <1>5, CompilerConstants DEF Settled
    <3> QED BY <2>1, <2>2, <3>1, <1>m DEF Sees
  <2>3. CASE r \notin m.lazy
    <3>1. Settled(f, r) = Settled(m, r)
      BY <2>3, <1>3, <1>5, CompilerConstants DEF Settled
    <3> QED BY <2>1, <2>3, <3>1, <1>m DEF Sees
  <2> QED BY <2>2, <2>3
<1>8. SameHost(f, q) /\ q.hb = f.hb
      /\ \A s \in Scratch : q.sc[s] = IF f.sc[s].reg \in m.lazy \cap Plain THEN Nothing ELSE f.sc[s]
  BY <1>1, <1>6, ForgetFields
<1> HIDE DEF q
<1>9. \A r : Sees(q, r) = Sees(f, r)
  BY <1>8, SameHostSees
<1>10. Kept(m, q)
  BY <1>5, <1>7, <1>8, <1>9 DEF Kept, SameHost
<1>11. ASSUME CopiesOK(m) PROVE CopiesOK(q)
  <2> SUFFICES ASSUME NEW s \in Scratch, q.sc[s].reg # 0 PROVE q.sc[s].val = Sees(q, q.sc[s].reg)
    BY DEF CopiesOK
  <2>1. m.sc[s].reg \in Plain \cup {0}
    BY <1>m, ScratchFields
  <2>2. q.sc[s] = m.sc[s] /\ m.sc[s].reg \notin m.lazy
    BY <1>5, <1>8, <2>1, NothingIsACopy, CompilerConstants
  <2>3. m.sc[s].reg \in Regs
    BY <2>1, <2>2, CompilerConstants
  <2> QED BY <2>2, <2>3, <1>11, <1>7, <1>9 DEF CopiesOK
<1>12. /\ q.k = m.k /\ q.known = m.known /\ q.lazy = {} /\ q.hb = m.hb /\ q.dirty = dirty /\ q.loaded = loaded
       /\ \A s \in Scratch : q.sc[s] \in {Nothing, m.sc[s]}
  BY <1>5, <1>8 DEF SameHost
<1> QED BY <1>10, <1>11, <1>12 DEF q, f

(* What is stored is where cpu.regs[] already or no longer counts.         *)
LEMMA StoredFields ==
  ASSUME NEW m, HostOK(m), NEW rs \in SUBSET (Pinned \cup m.loaded)
  PROVE  LET q == Stored(m, rs) IN
         /\ Kept(m, q) /\ (CopiesOK(m) => CopiesOK(q)) /\ q.k = m.k /\ q.known = m.known /\ q.lazy = m.lazy
         /\ q.hb = m.hb /\ q.sc = m.sc /\ q.home = m.home /\ q.dirty = m.dirty /\ q.loaded = m.loaded
         /\ \A r \in Regs : q.regs[r] = IF r \in rs THEN m.home[r] ELSE m.regs[r]
<1> DEFINE regs == [r \in Regs |-> IF r \in rs THEN m.home[r] ELSE m.regs[r]]
           q == Stored(m, rs)
<1>m. m \in Machines
  BY DEF HostOK
<1>1. q = [m EXCEPT !.regs = regs]
  BY DEF Stored
<1>2. \A r \in rs : m.home[r] \in Words /\ r \in Regs
  <2>1. \A r \in rs : r \in Homed /\ m.home[r] # Junk
    BY <1>m, MachineFields, CompilerConstants DEF HostOK
  <2>2. \A r \in rs : m.home[r] \in 0 .. V
    BY <2>1, <1>m, MachineFields
  <2> QED BY <2>1, <2>2, NotJunk, CompilerConstants
<1>3. regs \in [Regs -> Words] /\ \A r \in Regs : regs[r] = IF r \in rs THEN m.home[r] ELSE m.regs[r]
  BY <1>2, <1>m, MachineFields
<1> HIDE DEF regs
<1>4. q \in Machines
  BY <1>1, <1>3, <1>m DEF Machines
<1>5. /\ q.sc = m.sc /\ q.hb = m.hb /\ Rest(q) = Rest(m) /\ q.v0 = m.v0 /\ q.k = m.k /\ q.lazy = m.lazy
      /\ q.known = m.known /\ q.home = m.home /\ q.dirty = m.dirty /\ q.loaded = m.loaded /\ q.regs = regs
  BY <1>1, <1>m DEF Machines, Rest
<1> HIDE DEF q
<1>6. HostOK(q)
  <2>1. \A r \in q.loaded \ q.dirty : q.home[r] = q.regs[r]
    BY <1>3, <1>5, MachineFields, <1>m, CompilerConstants DEF HostOK
  <2> QED BY <1>4, <1>5, <2>1 DEF HostOK
<1>7. \A r \in Regs : Sees(q, r) = Sees(m, r)
  <2>1. \A r \in Regs : Settled(q, r) = Settled(m, r)
    BY <1>3, <1>5, MachineFields, <1>m, CompilerConstants DEF Settled
  <2> QED BY <2>1, <1>5 DEF Sees, Holds
<1>8. Kept(m, q)
  BY <1>5, <1>6, <1>7 DEF Kept
<1>9. CopiesOK(m) => CopiesOK(q)
  <2>1. \A x \in Scratch : m.sc[x].reg # 0 => m.sc[x].reg \in Regs
    BY <1>m, ScratchFields, CompilerConstants
  <2> QED BY <1>5, <1>7, <2>1 DEF CopiesOK
<1> QED BY <1>3, <1>5, <1>8, <1>9 DEF q

(* dyn_flush_dirty_slots leaves no dirty slot and changes no register.     *)
LEMMA FlushSlots ==
  ASSUME NEW m, HostOK(m)
  PROVE  LET q == dyn_flush_dirty_slots(m) IN
         /\ Kept(m, q) /\ (CopiesOK(m) => CopiesOK(q)) /\ q.k = m.k /\ q.known = m.known /\ q.lazy = m.lazy
         /\ q.hb = m.hb /\ q.sc = m.sc /\ q.home = m.home /\ q.dirty = {} /\ q.loaded = m.loaded
         /\ \A r \in Regs : q.regs[r] = IF r \in m.dirty THEN m.home[r] ELSE m.regs[r]
<1> DEFINE p == Stored(m, m.dirty)
           q == dyn_flush_dirty_slots(m)
<1>1. /\ Kept(m, p) /\ (CopiesOK(m) => CopiesOK(p)) /\ p.k = m.k /\ p.known = m.known /\ p.lazy = m.lazy
      /\ p.hb = m.hb /\ p.sc = m.sc /\ p.home = m.home /\ p.dirty = m.dirty /\ p.loaded = m.loaded
      /\ \A r \in Regs : p.regs[r] = IF r \in m.dirty THEN m.home[r] ELSE m.regs[r]
  BY StoredFields DEF HostOK
<1>2. q = [p EXCEPT !.dirty = {}]
  BY DEF dyn_flush_dirty_slots
<1> HIDE DEF p
<1>p. HostOK(p) /\ p \in Machines
  BY <1>1 DEF Kept, HostOK
<1>3. q \in Machines
  BY <1>2, <1>p DEF Machines
<1>4. /\ q.sc = p.sc /\ q.hb = p.hb /\ Rest(q) = Rest(p) /\ q.v0 = p.v0 /\ q.k = p.k /\ q.lazy = p.lazy
      /\ q.known = p.known /\ q.home = p.home /\ q.dirty = {} /\ q.loaded = p.loaded /\ q.regs = p.regs
  BY <1>2, <1>p DEF Machines, Rest
<1> HIDE DEF q
<1>5. HostOK(q)
  <2>1. \A r \in q.loaded : q.home[r] = q.regs[r]
    BY <1>1, <1>4, <1>p, MachineFields, CompilerConstants DEF HostOK
  <2> QED BY <1>3, <1>4, <1>p, <2>1 DEF HostOK
<1>6. \A r : Sees(q, r) = Sees(p, r)
  BY <1>4 DEF Sees, Holds, Settled
<1>7. Kept(p, q)
  BY <1>4, <1>5, <1>6 DEF Kept
<1>8. Kept(m, q)
  BY <1>1, <1>7, KeptTwice
<1>9. CopiesOK(m) => CopiesOK(q)
  BY <1>1, <1>4, <1>6 DEF CopiesOK
<1> QED BY <1>1, <1>4, <1>8, <1>9 DEF q

(* dyn_reload_slots changes no register when no slot is dirty.             *)
LEMMA ReloadSlots ==
  ASSUME NEW m, HostOK(m), m.dirty = {}
  PROVE  LET q == dyn_reload_slots(m) IN
         /\ Kept(m, q) /\ q.k = m.k /\ q.known = m.known /\ q.lazy = m.lazy /\ q.hb = m.hb /\ q.sc = m.sc
<1> DEFINE home == [r \in Homed |-> IF r \in Slotted THEN m.regs[r] ELSE m.home[r]]
           q == dyn_reload_slots(m)
<1>m. m \in Machines
  BY DEF HostOK
<1>1. q = [m EXCEPT !.home = home, !.dirty = {}, !.loaded = Slotted]
  BY DEF dyn_reload_slots
<1>2. home \in [Homed -> 0 .. V] /\ \A r \in Homed : home[r] = IF r \in Slotted THEN m.regs[r] ELSE m.home[r]
  BY <1>m, MachineFields, CompilerConstants
<1> HIDE DEF home
<1>3. q \in Machines
  BY <1>1, <1>2, <1>m, ZenonT(60) DEF Machines
<1>4. /\ q.sc = m.sc /\ q.hb = m.hb /\ Rest(q) = Rest(m) /\ q.v0 = m.v0 /\ q.k = m.k /\ q.lazy = m.lazy
      /\ q.known = m.known /\ q.home = home /\ q.dirty = {} /\ q.loaded = Slotted /\ q.regs = m.regs
  BY <1>1, <1>m DEF Machines, Rest
<1> HIDE DEF q
<1>w. \A r \in Slotted : m.regs[r] \in Words /\ m.regs[r] # Junk
  BY <1>m, MachineFields, CompilerConstants
<1>5. HostOK(q)
  BY <1>2, <1>3, <1>4, <1>w, CompilerConstants DEF HostOK
<1>6. \A r \in Regs : Settled(q, r) = Settled(m, r)
  BY <1>2, <1>4, <1>m, MachineFields, CompilerConstants DEF Settled, HostOK
<1>7. \A r \in Regs : Sees(q, r) = Sees(m, r)
  BY <1>4, <1>6 DEF Sees, Holds
<1>8. Kept(m, q)
  BY <1>4, <1>5, <1>7 DEF Kept
<1> QED BY <1>4, <1>8 DEF q

(* The call of a C function, which finds and leaves everything in cpu.     *)
LEMMA CallLite ==
  ASSUME NEW m, HostOK(m)
  PROVE  LET q == emit_call_c_lite(m) IN
         /\ Kept(m, q) /\ CopiesOK(q) /\ q.lazy = {} /\ q.hb = Nothing /\ q.k = m.k /\ q.known = m.known
         /\ \A s \in Scratch : q.sc[s] = Nothing
         /\ q.loaded = m.loaded \cup (m.lazy \cap Slotted)
         /\ flush_dirty_consts(m).dirty = {} => q.regs = flush_dirty_consts(m).regs
<1> DEFINE f == flush_dirty_consts(m)
           g == dyn_flush_dirty_slots(f)
           h == reg_cache_invalidate(g)
           q == emit_call_c_lite(m)
<1>1. Kept(m, f) /\ HostOK(f) /\ f.lazy = {} /\ f.k = m.k /\ f.known = m.known
      /\ f.loaded = m.loaded \cup (m.lazy \cap Slotted)
  BY FlushConsts DEF Kept
<1> HIDE DEF f
<1>2. Kept(f, g) /\ HostOK(g) /\ g.lazy = {} /\ g.k = m.k /\ g.known = m.known /\ g.loaded = f.loaded
      /\ \A r \in Regs : g.regs[r] = IF r \in f.dirty THEN f.home[r] ELSE f.regs[r]
  BY <1>1, FlushSlots DEF Kept
<1> HIDE DEF g
<1>3. Kept(g, h) /\ SameHost(g, h) /\ HostOK(h) /\ CopiesOK(h) /\ \A s \in Scratch : h.sc[s] = Nothing
  BY <1>2, InvalidateFields DEF Kept
<1> HIDE DEF h
<1>4. q = NoBase(h)
  BY DEF emit_call_c_lite, NoBase, f, g, h
<1>5. SameHost(h, q) /\ q.hb = Nothing /\ q.sc = h.sc /\ Kept(h, q) /\ CopiesOK(q)
  BY <1>3, <1>4, NoBaseFields
<1> HIDE DEF q
<1>6. Kept(m, q)
  BY <1>1, <1>2, <1>3, <1>5, KeptTwice
<1>7. q.lazy = {} /\ q.k = m.k /\ q.known = m.known /\ q.loaded = f.loaded /\ q.regs = g.regs
  BY <1>1, <1>2, <1>3, <1>5 DEF SameHost
<1>8. f.dirty = {} => g.regs = f.regs
  <2>1. g.regs \in [Regs -> Words] /\ f.regs \in [Regs -> Words]
    BY <1>1, <1>2, MachineFields DEF HostOK
  <2> QED BY <1>2, <2>1
<1> QED BY <1>1, <1>3, <1>5, <1>6, <1>7, <1>8 DEF q, f

(* emit_call_c: beliefs survive, but for pointers other than the stack's.  *)
LEMMA CallC ==
  ASSUME NEW m, HostOK(m), ConstsOK(m)
  PROVE  LET q == emit_call_c(m) IN
         /\ HostOK(q) /\ CopiesOK(q) /\ ConstsOK(q) /\ BaseOK(q) /\ (Sees(m, Sp) \in Ram => KnownOK(q))
         /\ Rest(q) = Rest(m) /\ q.lazy = {} /\ \A r \in Regs : Sees(q, r) = Sees(m, r)
<1> DEFINE f == flush_dirty_consts(m)
           g == dyn_flush_dirty_slots(f)
           l == dyn_reload_slots(g)
           h == reg_cache_invalidate(l)
           q == emit_call_c(m)
<1>1. Kept(m, f) /\ HostOK(f) /\ f.lazy = {}
  BY FlushConsts DEF Kept
<1> HIDE DEF f
<1>2. Kept(f, g) /\ HostOK(g) /\ g.lazy = {} /\ g.dirty = {}
  BY <1>1, FlushSlots DEF Kept
<1> HIDE DEF g
<1>3. Kept(g, l) /\ HostOK(l) /\ l.lazy = {}
  BY <1>2, ReloadSlots DEF Kept
<1> HIDE DEF l
<1>4. Kept(l, h) /\ HostOK(h) /\ CopiesOK(h) /\ h.lazy = {} /\ \A s \in Scratch : h.sc[s] = Nothing
  BY <1>3, InvalidateFields DEF Kept, SameHost
<1> HIDE DEF h
<1>5. Kept(m, h) /\ ConstsOK(h)
  <2>1. Kept(m, h)
    BY <1>1, <1>2, <1>3, <1>4, KeptTwice
  <2> QED BY <2>1, KeptBeliefs
<1>6. q = [h EXCEPT !.hb = Nothing, !.known = {Sp}]
  BY DEF emit_call_c, f, g, l, h
<1>7. h \in Machines /\ {Sp} \in SUBSET Regs
  BY <1>4, CompilerConstants DEF HostOK
<1>8. q \in Machines
  BY <1>6, <1>7, NothingIsACopy, ZenonT(60) DEF Machines
<1>9. /\ q.sc = h.sc /\ q.hb = Nothing /\ Rest(q) = Rest(h) /\ q.v0 = h.v0 /\ q.k = h.k /\ q.lazy = h.lazy
      /\ q.known = {Sp} /\ q.home = h.home /\ q.dirty = h.dirty /\ q.loaded = h.loaded /\ q.regs = h.regs
  BY <1>6, <1>7 DEF Machines, Rest
<1> HIDE DEF q
<1>10. HostOK(q) /\ \A r : Sees(q, r) = Sees(h, r)
  BY <1>4, <1>8, <1>9 DEF HostOK, Sees, Settled, Holds
<1>11. CopiesOK(q) /\ ConstsOK(q) /\ BaseOK(q)
  BY <1>4, <1>5, <1>9, <1>10, NothingIsACopy DEF CopiesOK, ConstsOK, BaseOK
<1>12. \A r \in Regs : Sees(q, r) = Sees(m, r)
  BY <1>5, <1>10 DEF Kept
<1>13. Sees(m, Sp) \in Ram => KnownOK(q)
  BY <1>9, <1>12, CompilerConstants DEF KnownOK
<1>14. Rest(q) = Rest(m)
  BY <1>5, <1>9 DEF Kept
<1> QED BY <1>4, <1>9, <1>10, <1>11, <1>12, <1>13, <1>14 DEF q

(* The host base stays right when no register changes.                     *)
LEMMA BaseKept ==
  ASSUME NEW m, NEW q, HostOK(m), Kept(m, q), BaseOK(m), q.hb \in {m.hb, Nothing}
  PROVE  BaseOK(q)
<1>1. m.hb.reg # 0 => m.hb.reg \in Regs
  <2>1. m.hb \in [reg : Src, val : 0 .. V]
    BY MachineFields DEF HostOK
  <2> QED BY <2>1 DEF Src
<1>2. CASE q.hb = m.hb
  BY <1>1, <1>2 DEF BaseOK, Kept
<1>3. CASE q.hb = Nothing
  BY <1>3, NothingIsACopy DEF BaseOK
<1> QED BY <1>2, <1>3

(* Both sides of a split leave the same when no slot is dirty.             *)
LEMMA SplitKept ==
  ASSUME NEW m, HostOK(m), NEW slow \in BOOLEAN, flush_dirty_consts(m).dirty = {}
  PROVE  LET q == Split(m, slow) IN
         /\ Kept(m, q) /\ CopiesOK(q) /\ q.lazy = {} /\ q.hb = Nothing
         /\ q.loaded = m.loaded \cup (m.lazy \cap Slotted)
<1> DEFINE n == NoBase(m)
           f == flush_dirty_consts(n)
           g == emit_call_c_lite(f)
           q == Split(m, slow)
<1>1. SameHost(m, n) /\ Kept(m, n) /\ HostOK(n)
  BY NoBaseFields DEF SameHost
<1> HIDE DEF n
<1>2. /\ Kept(n, f) /\ HostOK(f) /\ f.lazy = {} /\ f.dirty = n.dirty \cup (n.lazy \cap Slotted)
      /\ f.loaded = n.loaded \cup (n.lazy \cap Slotted)
  BY <1>1, FlushConsts DEF Kept
<1>3. m.dirty \cup (m.lazy \cap Slotted) = {}
  BY FlushConsts
<1>4. f.dirty = {} /\ f.loaded = m.loaded \cup (m.lazy \cap Slotted)
  BY <1>1, <1>2, <1>3 DEF SameHost
<1> HIDE DEF f
<1>5. LET h == flush_dirty_consts(f) IN Kept(f, h) /\ h.dirty = f.dirty \cup (f.lazy \cap Slotted) /\ h.lazy = {}
  BY <1>2, FlushConsts
<1>6. /\ Kept(f, g) /\ CopiesOK(g) /\ g.lazy = {} /\ g.hb = Nothing /\ g.loaded = f.loaded \cup (f.lazy \cap Slotted)
      /\ HostOK(g) /\ (flush_dirty_consts(f).dirty = {} => g.regs = flush_dirty_consts(f).regs)
  BY <1>2, CallLite DEF Kept
<1>7. flush_dirty_consts(f).regs = f.regs
  <2>1. f \in Machines /\ f.regs \in [Regs -> Words] /\ \A r : ~Holds(f, r)
    BY <1>2, MachineFields DEF HostOK, Holds
  <2> DEFINE w == [f EXCEPT !.lazy = {}, !.dirty = @ \cup (f.lazy \cap Slotted), !.loaded = @ \cup (f.lazy \cap Slotted),
                     !.home = [r \in Homed |-> IF Holds(f, r) THEN f.k[r] ELSE @[r]],
                     !.regs = [r \in Regs |-> IF Holds(f, r) /\ r \in Plain THEN f.k[r] ELSE @[r]]]
  <2>2. flush_dirty_consts(f) = [w EXCEPT !.sc = [s \in Scratch |-> IF w.sc[s].reg \in f.lazy \cap Plain THEN Nothing ELSE w.sc[s]]]
    BY DEF flush_dirty_consts, Forget
  <2>3. DOMAIN w = DOMAIN f /\ w.regs = [r \in Regs |-> IF Holds(f, r) /\ r \in Plain THEN f.k[r] ELSE f.regs[r]]
    BY <2>1 DEF Machines
  <2>4. [r \in Regs |-> IF Holds(f, r) /\ r \in Plain THEN f.k[r] ELSE f.regs[r]] = f.regs
    BY <2>1
  <2> HIDE DEF w
  <2>5. flush_dirty_consts(f).regs = w.regs
    BY <2>2
  <2> QED BY <2>3, <2>4, <2>5
<1>8. g.regs = f.regs
  BY <1>2, <1>4, <1>5, <1>6, <1>7
<1>9. q = g
  <2>1. CASE slow
    BY <2>1 DEF Split, n, f, g
  <2>2. CASE ~slow
    <3>1. q = [g EXCEPT !.regs = f.regs]
      BY <2>2 DEF Split, n, f, g
    <3>2. g \in Machines
      BY <1>6 DEF HostOK
    <3> HIDE DEF g, q
    <3>3. [g EXCEPT !.regs = g.regs] = g
      BY <3>2 DEF Machines
    <3> QED BY <3>1, <3>3, <1>8
  <2> QED BY <2>1, <2>2
<1>10. Kept(m, g)
  BY <1>1, <1>2, <1>6, KeptTwice
<1> QED BY <1>2, <1>4, <1>6, <1>9, <1>10

-----------------------------------------------------------------------------
(* From m to q register r becomes v, and nothing else; no belief is added  *)
(* but of r, and those are true.                                           *)
Wrote(m, q, r, v) ==
  /\ HostOK(q) /\ Rest(q) = Rest(m)
  /\ \A x \in Regs : Sees(q, x) = IF x = r THEN v ELSE Sees(m, x)
  /\ \A x \in Regs : q.k[x] \in (IF x = r THEN {v, Junk} ELSE {m.k[x], Junk})
  /\ q.lazy \subseteq m.lazy \cup {r}
  /\ q.known \subseteq m.known \cup {r} /\ (r \in q.known => v \in Ram)

(* Nothing is believed of r, which is about to be written.                 *)
Unknown(m, r) == r # 0 => m.k[r] = Junk /\ r \notin m.lazy /\ r \notin m.known

(* A write leaves true beliefs.                                            *)
LEMMA WroteBeliefs ==
  ASSUME NEW m, NEW q, NEW r, NEW v, HostOK(m), Wrote(m, q, r, v)
  PROVE  /\ ConstsOK(m) => ConstsOK(q)
         /\ KnownOK(m) => KnownOK(q)
<1>1. ConstsOK(m) => ConstsOK(q)
  BY DEF ConstsOK, Wrote
<1>2. q.known \subseteq Regs
  BY MachineFields DEF Wrote, HostOK
<1>3. KnownOK(m) => KnownOK(q)
  BY <1>2 DEF KnownOK, Wrote
<1> QED BY <1>1, <1>3

(* A write may come after or before what changes no register.              *)
LEMMA KeptThenWrote ==
  ASSUME NEW m, NEW p, NEW q, NEW r, NEW v, Kept(m, p), Wrote(p, q, r, v)
  PROVE  Wrote(m, q, r, v)
<1>1. ASSUME NEW x \in Regs
      PROVE  Sees(q, x) = (IF x = r THEN v ELSE Sees(m, x)) /\ q.k[x] \in (IF x = r THEN {v, Junk} ELSE {m.k[x], Junk})
  BY DEF Kept, Wrote
<1>2. HostOK(q) /\ Rest(q) = Rest(m) /\ q.lazy \subseteq m.lazy \cup {r}
      /\ q.known \subseteq m.known \cup {r} /\ (r \in q.known => v \in Ram)
  BY DEF Kept, Wrote
<1> QED BY <1>1, <1>2 DEF Wrote

LEMMA WroteThenKept ==
  ASSUME NEW m, NEW p, NEW q, NEW r, NEW v, Wrote(m, p, r, v), Kept(p, q)
  PROVE  Wrote(m, q, r, v)
<1>1. ASSUME NEW x \in Regs
      PROVE  Sees(q, x) = (IF x = r THEN v ELSE Sees(m, x)) /\ q.k[x] \in (IF x = r THEN {v, Junk} ELSE {m.k[x], Junk})
  BY DEF Kept, Wrote
<1>2. HostOK(q) /\ Rest(q) = Rest(m) /\ q.lazy \subseteq m.lazy \cup {r}
      /\ q.known \subseteq m.known \cup {r} /\ (r \in q.known => v \in Ram)
  BY DEF Kept, Wrote
<1> QED BY <1>1, <1>2 DEF Wrote

(* Nothing is written to $0.                                               *)
LEMMA KeptIsWrote ==
  ASSUME NEW m, NEW q, NEW v, Kept(m, q)
  PROVE  Wrote(m, q, 0, v)
<1>1. q.known \subseteq Regs
  BY MachineFields DEF Kept, HostOK
<1> QED BY <1>1, CompilerConstants DEF Kept, Wrote

(* What is not believed is not believed later.                             *)
LEMMA UnknownKept ==
  ASSUME NEW m, NEW q, NEW r \in Src, Unknown(m, r), Kept(m, q)
  PROVE  Unknown(q, r)
BY DEF Unknown, Kept, Src

(* Put, as a write.                                                        *)
LEMMA PutWrites ==
  ASSUME NEW m, HostOK(m), NEW r \in Regs, NEW v \in Words, Unknown(m, r)
  PROVE  LET q == Put(m, r, v) IN
         Wrote(m, q, r, v) /\ q.sc = m.sc /\ q.hb = m.hb /\ q.lazy = m.lazy /\ q.v0 = m.v0
<1> DEFINE q == Put(m, r, v)
<1>1. HostOK(q) /\ Beside(m, q) /\ Settled(q, r) = v /\ \A x \in Regs \ {r} : Settled(q, x) = Settled(m, x)
  BY PutFields
<1> HIDE DEF q
<1>2. r \notin q.lazy /\ r \notin q.known /\ q.k[r] = Junk
  BY <1>1, CompilerConstants DEF Beside, Unknown
<1>3. Sees(q, r) = v
  BY <1>1, <1>2 DEF Sees, Holds
<1>4. \A x \in Regs \ {r} : Sees(q, x) = Sees(m, x)
  BY <1>1 DEF Sees, Holds, Beside
<1>5. Wrote(m, q, r, v)
  BY <1>1, <1>2, <1>3, <1>4 DEF Wrote, Beside
<1> QED BY <1>1, <1>5 DEF Beside, q

(* DropBase drops the base of one register.                                *)
LEMMA DropBaseFields ==
  ASSUME NEW m, HostOK(m), BaseOK(m), NEW r
  PROVE  LET q == DropBase(m, r) IN
         /\ SameHost(m, q) /\ q.hb \in {m.hb, Nothing} /\ q.sc = m.sc /\ (r # 0 => q.hb.reg # r) /\ BaseOK(q)
<1>1. CASE m.hb.reg = r
  <2>1. DropBase(m, r) = NoBase(m)
    BY <1>1 DEF DropBase, NoBase
  <2> QED BY <2>1, NoBaseFields, NothingIsACopy
<1>2. CASE m.hb.reg # r
  <2>1. DropBase(m, r) = m
    BY <1>2 DEF DropBase
  <2> QED BY <2>1, <1>2 DEF SameHost
<1> QED BY <1>1, <1>2

(* A write that also drops the copies of a plain register.                 *)
LEMMA PutAndForgetWrites ==
  ASSUME NEW m, HostOK(m), CopiesOK(m), NEW r \in Src, NEW v \in Words, Unknown(m, r)
  PROVE  LET q == PutAndForget(m, r, v) IN
         Wrote(m, q, r, v) /\ CopiesOK(q) /\ q.hb = m.hb /\ q.lazy = m.lazy /\ q.v0 = m.v0
<1> DEFINE p == Put(m, r, v)
           q == PutAndForget(m, r, v)
<1>m. m \in Machines
  BY DEF HostOK
<1>1. CASE r = 0
  <2>1. q = m
    BY <1>1 DEF PutAndForget
  <2> QED BY <2>1, <1>1, KeptSelf, KeptIsWrote
<1>2. CASE r # 0
  <2>1. r \in Regs
    BY <1>2 DEF Src
  <2>w. Wrote(m, p, r, v) /\ p.sc = m.sc /\ p.hb = m.hb /\ p.lazy = m.lazy /\ p.v0 = m.v0
    BY <2>1, PutWrites
  <2>2. Wrote(m, p, r, v) /\ p.sc = m.sc /\ p.hb = m.hb /\ p.lazy = m.lazy /\ HostOK(p) /\ p.v0 = m.v0
    BY <2>w DEF Wrote
  <2>3. q = Forget(p, {r} \cap Plain)
    BY <1>2 DEF PutAndForget
  <2> HIDE DEF p
  <2>4. SameHost(p, q) /\ q.hb = p.hb
        /\ \A s \in Scratch : q.sc[s] = IF p.sc[s].reg \in {r} \cap Plain THEN Nothing ELSE p.sc[s]
    BY <2>2, <2>3, ForgetFields
  <2> HIDE DEF q
  <2>5. \A x : Sees(q, x) = Sees(p, x)
    BY <2>4, SameHostSees
  <2>6. Wrote(m, q, r, v)
    BY <2>2, <2>4, <2>5 DEF Wrote, SameHost
  <2>7. CopiesOK(q)
    <3> SUFFICES ASSUME NEW s \in Scratch, q.sc[s].reg \notin q.lazy \cup {0} PROVE q.sc[s].val = Sees(q, q.sc[s].reg)
      BY DEF CopiesOK
    <3>1. m.sc[s].reg \in Plain \cup {0}
      BY <1>m, ScratchFields
    <3>2. q.sc[s] = m.sc[s] /\ m.sc[s].reg # r /\ m.sc[s].reg \notin m.lazy \cup {0}
      BY <2>2, <2>4, <3>1, NothingIsACopy, CompilerConstants DEF SameHost
    <3>3. m.sc[s].reg \in Regs
      BY <3>1, <3>2, CompilerConstants
    <3>4. Sees(q, m.sc[s].reg) = Sees(m, m.sc[s].reg)
      BY <3>2, <3>3, <2>6 DEF Wrote
    <3> QED BY <3>2, <3>4 DEF CopiesOK
  <2> QED BY <2>2, <2>4, <2>6, <2>7 DEF q, SameHost
<1> QED BY <1>1, <1>2

(* mark_vreg_var leaves no belief of r, and its value.                     *)
LEMMA MarkVar ==
  ASSUME NEW m, HostOK(m), CopiesOK(m), BaseOK(m), NEW r \in Src
  PROVE  LET q == mark_vreg_var(m, r) IN
         /\ Kept(m, q) /\ CopiesOK(q) /\ BaseOK(q) /\ Unknown(q, r) /\ (r # 0 => q.hb.reg # r)
         /\ \A s \in Scratch : q.sc[s] \in {Nothing, m.sc[s]}
<1> DEFINE q == mark_vreg_var(m, r)
           p == IF Holds(m, r) THEN PutAndForget(m, r, m.k[r]) ELSE m
           d == DropBase(p, r)
<1>m. m \in Machines
  BY DEF HostOK
<1>1. CASE r = 0
  <2>1. q = m
    BY <1>1 DEF mark_vreg_var
  <2> QED BY <2>1, <1>1, KeptSelf DEF Unknown
<1>2. CASE r # 0
  <2>r. r \in Regs
    BY <1>2 DEF Src
  <2>1. /\ HostOK(p) /\ Rest(p) = Rest(m) /\ p.v0 = m.v0 /\ p.k = m.k /\ p.lazy = m.lazy /\ p.known = m.known /\ p.hb = m.hb
        /\ \A s \in Scratch : p.sc[s] = IF r \in m.lazy /\ m.sc[s].reg \in {r} \cap Plain THEN Nothing ELSE m.sc[s]
        /\ \A x \in Regs \ {r} : Settled(p, x) = Settled(m, x)
        /\ Settled(p, r) = Sees(m, r)
    <3>1. CASE r \notin m.lazy
      <4>1. p = m
        BY <3>1 DEF Holds
      <4> QED BY <4>1, <3>1 DEF Sees, Holds
    <3>2. CASE r \in m.lazy
      <4> DEFINE w == Put(m, r, m.k[r])
      <4>1. p = Forget(w, {r} \cap Plain)
        BY <3>2, <1>2 DEF PutAndForget, Holds
      <4>2. Sees(m, r) = m.k[r] /\ m.k[r] \in Words
        BY <3>2, <2>r, SeesWord DEF Sees, Holds
      <4>3. HostOK(w) /\ Beside(m, w) /\ Settled(w, r) = m.k[r] /\ \A x \in Regs \ {r} : Settled(w, x) = Settled(m, x)
        BY <2>r, <4>2, PutFields
      <4> HIDE DEF w
      <4>4. SameHost(w, p) /\ p.hb = w.hb
            /\ \A s \in Scratch : p.sc[s] = IF w.sc[s].reg \in {r} \cap Plain THEN Nothing ELSE w.sc[s]
        BY <4>1, <4>3, ForgetFields
      <4> HIDE DEF p
      <4>5. \A x : Settled(p, x) = Settled(w, x)
        BY <4>4, SameHostSees
      <4> QED BY <3>2, <4>2, <4>3, <4>4, <4>5 DEF SameHost, Beside
    <3> QED BY <3>1, <3>2
  <2> HIDE DEF p
  <2>2. /\ SameHost(p, d) /\ d.hb \in {p.hb, Nothing} /\ d.sc = p.sc /\ d.hb.reg # r
    <3>1. CASE p.hb.reg = r
      <4>1. d = NoBase(p)
        BY <3>1 DEF DropBase, NoBase
      <4> QED BY <4>1, <1>2, <2>1, NoBaseFields, NothingIsACopy
    <3>2. CASE p.hb.reg # r
      <4>1. d = p
        BY <3>2 DEF DropBase
      <4> QED BY <4>1, <3>2, <2>1 DEF SameHost
    <3> QED BY <3>1, <3>2
  <2>3. q = [d EXCEPT !.k = [d.k EXCEPT ![r] = Junk], !.lazy = d.lazy \ {r}, !.known = d.known \ {r}]
    BY <1>2 DEF mark_vreg_var, p, d
  <2> HIDE DEF d
  <2>d. d \in Machines
    BY <2>2 DEF SameHost, HostOK
  <2>4. [d.k EXCEPT ![r] = Junk] \in [Regs -> 0 .. V]
        /\ \A x \in Regs : [d.k EXCEPT ![r] = Junk][x] = IF x = r THEN Junk ELSE d.k[x]
    BY <2>d, MachineFields, CompilerConstants
  <2>5. d.lazy \ {r} \in SUBSET Regs /\ d.known \ {r} \in SUBSET Regs
    BY <2>d, MachineFields
  <2>6. q \in Machines
    BY <2>3, <2>4, <2>5, <2>d, ZenonT(60) DEF Machines
  <2>7. /\ q.sc = d.sc /\ q.hb = d.hb /\ Rest(q) = Rest(d) /\ q.v0 = d.v0 /\ q.k = [d.k EXCEPT ![r] = Junk]
        /\ q.lazy = d.lazy \ {r} /\ q.known = d.known \ {r}
        /\ q.home = d.home /\ q.dirty = d.dirty /\ q.loaded = d.loaded /\ q.regs = d.regs
    BY <2>3, <2>d DEF Machines, Rest
  <2> HIDE DEF q
  <2>8. /\ Rest(q) = Rest(m) /\ q.v0 = m.v0 /\ q.lazy = m.lazy \ {r} /\ q.known = m.known \ {r}
        /\ \A x \in Regs : q.k[x] = IF x = r THEN Junk ELSE m.k[x]
    BY <2>1, <2>2, <2>4, <2>7 DEF SameHost
  <2>9. HostOK(q)
    <3>1. HostOK(d)
      BY <2>2 DEF SameHost
    <3>2. \A x \in q.lazy : q.k[x] # Junk
      BY <2>8, <1>m, MachineFields DEF HostOK
    <3> QED BY <2>6, <2>7, <3>1, <3>2 DEF HostOK
  <2>10. \A x : Settled(q, x) = Settled(p, x)
    <3>1. \A x : Settled(q, x) = Settled(d, x)
      BY <2>7 DEF Settled
    <3> QED BY <3>1, <2>2, SameHostSees
  <2>11. \A x \in Regs : Sees(q, x) = Sees(m, x)
    <3>1. Sees(q, r) = Sees(m, r)
      BY <2>1, <2>8, <2>10 DEF Sees, Holds
    <3>2. \A x \in Regs \ {r} : Sees(q, x) = Sees(m, x)
      BY <2>1, <2>8, <2>10 DEF Sees, Holds
    <3> QED BY <3>1, <3>2
  <2>12. \A s \in Scratch : q.sc[s] = IF r \in m.lazy /\ m.sc[s].reg \in {r} \cap Plain THEN Nothing ELSE m.sc[s]
    BY <2>1, <2>2, <2>7
  <2>13. Kept(m, q)
    <3>1. \A s \in Scratch : q.sc[s].reg \in q.lazy => q.sc[s].reg = m.sc[s].reg
      BY <2>8, <2>12, NothingIsACopy, <1>m, MachineFields, CompilerConstants
    <3> QED BY <2>8, <2>9, <2>11, <3>1 DEF Kept
  <2>14. CopiesOK(q)
    <3> SUFFICES ASSUME NEW s \in Scratch, q.sc[s].reg \notin q.lazy \cup {0} PROVE q.sc[s].val = Sees(q, q.sc[s].reg)
      BY DEF CopiesOK
    <3>1. m.sc[s].reg \in Plain \cup {0}
      BY <1>m, ScratchFields
    <3>2. q.sc[s] = m.sc[s] /\ m.sc[s].reg \notin m.lazy \cup {0}
      BY <2>8, <2>12, <3>1, NothingIsACopy
    <3>3. Sees(q, m.sc[s].reg) = Sees(m, m.sc[s].reg)
      BY <2>11, <3>1, <3>2, CompilerConstants
    <3> QED BY <3>2, <3>3 DEF CopiesOK
  <2>15. q.hb \in {m.hb, Nothing} /\ q.hb.reg # r
    BY <2>1, <2>2, <2>7
  <2>16. BaseOK(q)
    BY <2>13, <2>15, BaseKept
  <2>17. Unknown(q, r)
    BY <2>8, <2>r DEF Unknown
  <2> QED BY <2>12, <2>13, <2>14, <2>15, <2>16, <2>17 DEF q
<1> QED BY <1>1, <1>2

(* The host base stays right when another register is written.             *)
LEMMA BaseWrote ==
  ASSUME NEW m, NEW q, NEW r \in Src, NEW v, HostOK(m), Wrote(m, q, r, v), BaseOK(m), q.hb \in {m.hb, Nothing},
         r # 0 => q.hb.reg # r
  PROVE  BaseOK(q)
<1>1. m.hb.reg # 0 => m.hb.reg \in Regs
  <2>1. m.hb \in [reg : Src, val : 0 .. V]
    BY MachineFields DEF HostOK
  <2> QED BY <2>1 DEF Src
<1>2. CASE q.hb = m.hb
  BY <1>1, <1>2 DEF BaseOK, Wrote
<1>3. CASE q.hb = Nothing
  BY <1>3, NothingIsACopy DEF BaseOK
<1> QED BY <1>2, <1>3

(* A constant that is not emitted yet.                                     *)
LEMMA ConstLazy ==
  ASSUME NEW m, HostOK(m), CopiesOK(m), BaseOK(m), NEW r \in Src, NEW v \in Words
  PROVE  LET q == mark_vreg_const_lazy(m, r, v) IN Wrote(m, q, r, v) /\ CopiesOK(q) /\ BaseOK(q)
<1> DEFINE q == mark_vreg_const_lazy(m, r, v)
           d == DropBase(m, r)
           known == IF v \in Ram THEN d.known \cup {r} ELSE d.known \ {r}
<1>m. m \in Machines /\ v \in 0 .. V /\ v # Junk
  BY CompilerConstants DEF HostOK
<1>1. CASE r = 0
  <2>1. q = m
    BY <1>1 DEF mark_vreg_const_lazy
  <2> QED BY <2>1, <1>1, KeptSelf, KeptIsWrote
<1>2. CASE r # 0
  <2>r. r \in Regs
    BY <1>2 DEF Src
  <2>1. SameHost(m, d) /\ d.hb \in {m.hb, Nothing} /\ d.sc = m.sc /\ d.hb.reg # r
    BY <1>2, DropBaseFields
  <2>2. q = [d EXCEPT !.k = [d.k EXCEPT ![r] = v], !.lazy = d.lazy \cup {r}, !.known = known]
    BY <1>2 DEF mark_vreg_const_lazy
  <2> HIDE DEF d
  <2>d. d \in Machines
    BY <2>1 DEF SameHost, HostOK
  <2>3. [d.k EXCEPT ![r] = v] \in [Regs -> 0 .. V] /\ \A x \in Regs : [d.k EXCEPT ![r] = v][x] = IF x = r THEN v ELSE d.k[x]
    BY <2>d, <1>m, MachineFields
  <2>4. d.lazy \cup {r} \in SUBSET Regs /\ known \in SUBSET Regs /\ known \subseteq d.known \cup {r} /\ (r \in known => v \in Ram)
    BY <2>d, <2>r, MachineFields
  <2> HIDE DEF known
  <2>5. q \in Machines
    BY <2>2, <2>3, <2>4, <2>d, ZenonT(60) DEF Machines
  <2>6. /\ q.sc = d.sc /\ q.hb = d.hb /\ Rest(q) = Rest(d) /\ q.k = [d.k EXCEPT ![r] = v]
        /\ q.lazy = d.lazy \cup {r} /\ q.known = known
        /\ q.home = d.home /\ q.dirty = d.dirty /\ q.loaded = d.loaded /\ q.regs = d.regs
    BY <2>2, <2>d DEF Machines, Rest
  <2> HIDE DEF q
  <2>7. /\ Rest(q) = Rest(m) /\ q.lazy = m.lazy \cup {r} /\ q.known \subseteq m.known \cup {r} /\ (r \in q.known => v \in Ram)
        /\ \A x \in Regs : q.k[x] = IF x = r THEN v ELSE m.k[x]
    BY <2>1, <2>3, <2>4, <2>6 DEF SameHost
  <2>8. HostOK(q)
    <3>1. HostOK(d)
      BY <2>1 DEF SameHost
    <3>2. \A x \in q.lazy : q.k[x] # Junk
      BY <2>7, <2>r, <1>m, MachineFields DEF HostOK
    <3> QED BY <2>5, <2>6, <3>1, <3>2 DEF HostOK
  <2>9. \A x : Settled(q, x) = Settled(m, x)
    <3>1. \A x : Settled(q, x) = Settled(d, x)
      BY <2>6 DEF Settled
    <3> QED BY <3>1, <2>1, SameHostSees
  <2>10. \A x \in Regs : Sees(q, x) = IF x = r THEN v ELSE Sees(m, x)
    BY <2>7, <2>9 DEF Sees, Holds
  <2>11. Wrote(m, q, r, v)
    BY <2>7, <2>8, <2>10 DEF Wrote
  <2>12. CopiesOK(q)
    <3> SUFFICES ASSUME NEW s \in Scratch, q.sc[s].reg \notin q.lazy \cup {0} PROVE q.sc[s].val = Sees(q, q.sc[s].reg)
      BY DEF CopiesOK
    <3>1. q.sc[s] = m.sc[s] /\ m.sc[s].reg \notin m.lazy \cup {0} /\ m.sc[s].reg # r
      BY <2>1, <2>6, <2>7
    <3>2. m.sc[s].reg \in Regs
      BY <1>m, <3>1, ScratchFields, CompilerConstants
    <3> QED BY <3>1, <3>2, <2>10 DEF CopiesOK
  <2>13. BaseOK(q)
    BY <2>1, <2>6, <2>11, BaseWrote
  <2> QED BY <2>11, <2>12, <2>13 DEF q
<1> QED BY <1>1, <1>2

(* A loaded word, or HI, put into a register.                              *)
LEMMA FromField ==
  ASSUME NEW m, HostOK(m), CopiesOK(m), BaseOK(m), NEW r \in Src, NEW v \in Words
  PROVE  LET q == emit_cpu_field_to_psx_reg(m, r, v) IN Wrote(m, q, r, v) /\ CopiesOK(q) /\ BaseOK(q) /\ q.v0 = m.v0
<1> DEFINE p == mark_vreg_var(m, r)
           q == PutAndForget(p, r, v)
<1>1. Kept(m, p) /\ CopiesOK(p) /\ BaseOK(p) /\ Unknown(p, r) /\ (r # 0 => p.hb.reg # r) /\ HostOK(p)
  BY MarkVar DEF Kept
<1> HIDE DEF p
<1>2. Wrote(p, q, r, v) /\ CopiesOK(q) /\ q.hb = p.hb /\ q.v0 = p.v0
  BY <1>1, PutAndForgetWrites
<1> HIDE DEF q
<1>3. Wrote(m, q, r, v) /\ BaseOK(q)
  BY <1>1, <1>2, KeptThenWrote, BaseWrote
<1>4. q.v0 = m.v0
  BY <1>1, <1>2 DEF Kept
<1> QED BY <1>2, <1>3, <1>4 DEF emit_cpu_field_to_psx_reg, p, q

(* The link register: a constant that is emitted at once.                  *)
LEMMA LinkReg ==
  ASSUME NEW m, HostOK(m), CopiesOK(m), BaseOK(m), NEW r \in Src, NEW v \in Words, r \in m.known => v \in Ram
  PROVE  LET q == PutAndForget(mark_vreg_const(m, r, v), r, v) IN Wrote(m, q, r, v) /\ CopiesOK(q) /\ BaseOK(q)
<1> DEFINE d == DropBase(m, r)
           c == mark_vreg_const(m, r, v)
           p == Put(c, r, v)
           q == PutAndForget(c, r, v)
<1>m. m \in Machines /\ v \in 0 .. V /\ v # Junk
  BY CompilerConstants DEF HostOK
<1>1. CASE r = 0
  <2>1. q = m
    BY <1>1 DEF mark_vreg_const, PutAndForget
  <2> QED BY <2>1, <1>1, KeptSelf, KeptIsWrote
<1>2. CASE r # 0
  <2>r. r \in Regs
    BY <1>2 DEF Src
  <2>1. SameHost(m, d) /\ d.hb \in {m.hb, Nothing} /\ d.sc = m.sc /\ d.hb.reg # r
    BY <1>2, DropBaseFields
  <2>2. c = [d EXCEPT !.k = [d.k EXCEPT ![r] = v], !.lazy = d.lazy \ {r}]
    BY <1>2 DEF mark_vreg_const
  <2> HIDE DEF d
  <2>d. d \in Machines
    BY <2>1 DEF SameHost, HostOK
  <2>3. [d.k EXCEPT ![r] = v] \in [Regs -> 0 .. V] /\ \A x \in Regs : [d.k EXCEPT ![r] = v][x] = IF x = r THEN v ELSE d.k[x]
    BY <2>d, <1>m, MachineFields
  <2>4. d.lazy \ {r} \in SUBSET Regs
    BY <2>d, MachineFields
  <2>5. c \in Machines
    BY <2>2, <2>3, <2>4, <2>d, ZenonT(60) DEF Machines
  <2>6. /\ c.sc = d.sc /\ c.hb = d.hb /\ Rest(c) = Rest(d) /\ c.k = [d.k EXCEPT ![r] = v]
        /\ c.lazy = d.lazy \ {r} /\ c.known = d.known
        /\ c.home = d.home /\ c.dirty = d.dirty /\ c.loaded = d.loaded /\ c.regs = d.regs
    BY <2>2, <2>d DEF Machines, Rest
  <2> HIDE DEF c
  <2>7. /\ Rest(c) = Rest(m) /\ c.lazy = m.lazy \ {r} /\ c.known = m.known /\ c.sc = m.sc
        /\ \A x \in Regs : c.k[x] = IF x = r THEN v ELSE m.k[x]
    BY <2>1, <2>3, <2>6 DEF SameHost
  <2>8. HostOK(c)
    <3>1. HostOK(d)
      BY <2>1 DEF SameHost
    <3>2. \A x \in c.lazy : c.k[x] # Junk
      BY <2>7, <1>m, MachineFields DEF HostOK
    <3> QED BY <2>5, <2>6, <3>1, <3>2 DEF HostOK
  <2>9. \A x : Settled(c, x) = Settled(m, x)
    <3>1. \A x : Settled(c, x) = Settled(d, x)
      BY <2>6 DEF Settled
    <3> QED BY <3>1, <2>1, SameHostSees
  <2>10. HostOK(p) /\ Beside(c, p) /\ Settled(p, r) = v /\ \A x \in Regs \ {r} : Settled(p, x) = Settled(c, x)
    BY <2>8, <2>r, PutFields
  <2>11. q = Forget(p, {r} \cap Plain)
    BY <1>2 DEF PutAndForget
  <2> HIDE DEF p
  <2>12. SameHost(p, q) /\ q.hb = p.hb
        /\ \A s \in Scratch : q.sc[s] = IF p.sc[s].reg \in {r} \cap Plain THEN Nothing ELSE p.sc[s]
    BY <2>10, <2>11, ForgetFields
  <2> HIDE DEF q
  <2>13. \A x : Settled(q, x) = Settled(p, x)
    BY <2>12, SameHostSees
  <2>14. /\ Rest(q) = Rest(m) /\ q.lazy = m.lazy \ {r} /\ q.known = m.known /\ q.hb \in {m.hb, Nothing} /\ q.hb.reg # r
         /\ \A x \in Regs : q.k[x] = IF x = r THEN v ELSE m.k[x]
    BY <2>1, <2>6, <2>7, <2>10, <2>12 DEF SameHost, Beside
  <2>15. \A x \in Regs : Sees(q, x) = IF x = r THEN v ELSE Sees(m, x)
    BY <2>9, <2>10, <2>13, <2>14 DEF Sees, Holds
  <2>16. Wrote(m, q, r, v)
    BY <2>12, <2>14, <2>15 DEF Wrote, SameHost
  <2>17. CopiesOK(q)
    <3> SUFFICES ASSUME NEW s \in Scratch, q.sc[s].reg \notin q.lazy \cup {0} PROVE q.sc[s].val = Sees(q, q.sc[s].reg)
      BY DEF CopiesOK
    <3>1. m.sc[s].reg \in Plain \cup {0} /\ p.sc = m.sc
      BY <1>m, ScratchFields, <2>7, <2>10 DEF Beside
    <3>2. q.sc[s] = m.sc[s] /\ m.sc[s].reg # r /\ m.sc[s].reg \notin m.lazy \cup {0}
      BY <2>12, <2>14, <3>1, NothingIsACopy, CompilerConstants
    <3>3. m.sc[s].reg \in Regs
      BY <3>1, <3>2, CompilerConstants
    <3> QED BY <3>2, <3>3, <2>15 DEF CopiesOK
  <2>18. BaseOK(q)
    BY <2>14, <2>16, BaseWrote
  <2> QED BY <2>16, <2>17, <2>18 DEF q, c
<1> QED BY <1>1, <1>2

(* emit_sync_reg writes the result.                                        *)
LEMMA SyncReg ==
  ASSUME NEW m, HostOK(m), CopiesOK(m), NEW r \in Regs, NEW v \in Words, Unknown(m, r)
  PROVE  LET q == emit_sync_reg(m, r, v) IN Wrote(m, q, r, v) /\ CopiesOK(q) /\ q.hb = m.hb
<1> DEFINE p == Put(m, r, v)
           f == Forget(p, {r})
           c == [reg |-> r, val |-> v]
           q == emit_sync_reg(m, r, v)
<1>m. m \in Machines /\ v \in 0 .. V /\ r # 0 /\ 8 \in Scratch
  BY CompilerConstants DEF HostOK, Scratch
<1>w. Wrote(m, p, r, v) /\ p.sc = m.sc /\ p.hb = m.hb /\ p.lazy = m.lazy
  BY PutWrites
<1>1. Wrote(m, p, r, v) /\ p.sc = m.sc /\ p.hb = m.hb /\ p.lazy = m.lazy /\ HostOK(p)
  BY <1>w DEF Wrote
<1>s. \A s \in Scratch : m.sc[s].reg # 0 => m.sc[s].reg \in Regs /\ m.sc[s].reg \in Plain
  BY <1>m, ScratchFields, CompilerConstants
<1>2. CASE r \in Homed
  <2>1. q = p
    BY <1>2, <1>m DEF emit_sync_reg
  <2>2. CopiesOK(p)
    <3> HIDE DEF p
    <3>1. \A s \in Scratch : m.sc[s].reg # r
      BY <1>2, <1>m, <1>s, CompilerConstants
    <3> QED BY <3>1, <1>1, <1>s DEF CopiesOK, Wrote
  <2> QED BY <1>1, <2>1, <2>2
<1>3. CASE r \notin Homed
  <2>p. r \in Plain
    BY <1>3, CompilerConstants
  <2>1. q = SetScratch(f, 8, c)
    BY <1>3, <1>m DEF emit_sync_reg
  <2> HIDE DEF p
  <2>2. SameHost(p, f) /\ f.hb = p.hb /\ HostOK(f)
        /\ \A s \in Scratch : f.sc[s] = IF p.sc[s].reg \in {r} THEN Nothing ELSE p.sc[s]
    BY <1>1, ForgetFields DEF SameHost
  <2> HIDE DEF f
  <2>3. c \in [reg : Plain \cup {0}, val : 0 .. V] /\ c.reg = r /\ c.val = v
    BY <2>p, <1>m
  <2> HIDE DEF c
  <2>4. SameHost(f, q) /\ q.hb = f.hb /\ \A x \in Scratch : q.sc[x] = IF x = 8 THEN c ELSE f.sc[x]
    BY <2>1, <2>2, <2>3, <1>m, SetScratchFields
  <2> HIDE DEF q
  <2>5. \A x : Sees(q, x) = Sees(p, x)
    BY <2>2, <2>4, SameHostSees
  <2>6. Wrote(m, q, r, v)
    BY <1>1, <2>2, <2>4, <2>5 DEF Wrote, SameHost
  <2>7. CopiesOK(q)
    <3> SUFFICES ASSUME NEW s \in Scratch, q.sc[s].reg \notin q.lazy \cup {0} PROVE q.sc[s].val = Sees(q, q.sc[s].reg)
      BY DEF CopiesOK
    <3>1. CASE s = 8
      BY <3>1, <2>3, <2>4, <2>6 DEF Wrote
    <3>2. CASE s # 8
      <4>1. q.sc[s] = m.sc[s] /\ m.sc[s].reg # r /\ m.sc[s].reg \notin m.lazy \cup {0}
        BY <3>2, <1>1, <2>2, <2>4, NothingIsACopy DEF SameHost
      <4>2. Sees(q, m.sc[s].reg) = Sees(m, m.sc[s].reg)
        BY <4>1, <1>s, <2>6 DEF Wrote
      <4> QED BY <4>1, <4>2 DEF CopiesOK
    <3> QED BY <3>1, <3>2
  <2> QED BY <1>1, <2>2, <2>4, <2>6, <2>7 DEF q
<1> QED BY <1>2, <1>3

-----------------------------------------------------------------------------
(* dynarec_insn.c: what the code of an instruction does.                   *)
Good(m) == HostOK(m) /\ CopiesOK(m) /\ ConstsOK(m) /\ BaseOK(m) /\ KnownOK(m)

(* From m to q register r becomes v, HI is hi and memory mem, all beliefs  *)
(* are true, and nothing else changes.                                     *)
Did(m, q, r, v, hi, mem) ==
  /\ Good(q) /\ \A x \in Regs : Sees(q, x) = IF x = r THEN v ELSE Sees(m, x)
  /\ q.hi = hi /\ q.mem = mem
  /\ q.pend = m.pend /\ q.ldv = m.ldv /\ q.cond = m.cond /\ q.trap = m.trap

(* What no register is part of, field by field.                            *)
LEMMA RestIs ==
  ASSUME NEW m, NEW q, Rest(q) = Rest(m)
  PROVE  q.hi = m.hi /\ q.mem = m.mem /\ q.pend = m.pend /\ q.ldv = m.ldv /\ q.cond = m.cond /\ q.trap = m.trap
BY DEF Rest

(* A write as the whole of what an instruction did.                        *)
LEMMA WroteDid ==
  ASSUME NEW m, NEW q, NEW r, NEW v, Good(m), Wrote(m, q, r, v), CopiesOK(q), BaseOK(q)
  PROVE  Did(m, q, r, v, m.hi, m.mem)
<1>1. HostOK(m) /\ ConstsOK(m) /\ KnownOK(m) /\ HostOK(q) /\ Rest(q) = Rest(m)
  BY DEF Good, Wrote
<1>2. Good(q)
  BY <1>1, WroteBeliefs DEF Good
<1>3. \A x \in Regs : Sees(q, x) = IF x = r THEN v ELSE Sees(m, x)
  BY DEF Wrote
<1> QED BY <1>1, <1>2, <1>3, RestIs DEF Did

(* No write as the whole of what an instruction did.                       *)
LEMMA KeptDid ==
  ASSUME NEW m, NEW q, NEW v, Good(m), Kept(m, q), CopiesOK(q), BaseOK(q)
  PROVE  Did(m, q, 0, v, m.hi, m.mem)
BY KeptIsWrote, WroteDid

(* A constant the compiler knows is the operand.                           *)
LEMMA ConstIs ==
  ASSUME NEW m, ConstsOK(m), NEW r \in Src, is_vreg_const(m, r)
  PROVE  get_vreg_const(m, r) = Operand(m, r)
BY DEF is_vreg_const, get_vreg_const, Operand, ConstsOK, Src

(* Both sources are read right, the second one through T9.                 *)
LEMMA TwoSourcesDo ==
  ASSUME NEW m, HostOK(m), CopiesOK(m), NEW i \in Instructions, NoStale(m, i.rs), NoStale(m, i.rt)
  PROVE  LET q == TwoSources(m, i) IN
         /\ Kept(m, q) /\ CopiesOK(q) /\ q.hb.reg = m.hb.reg
         /\ Value(m, i.rs, 8) = Operand(m, i.rs)
         /\ Value(emit_use_reg(m, i.rs, 8), i.rt, 9) = Operand(m, i.rt)
         /\ Result(m, i) = Sum(Operand(m, i.rs), Operand(m, i.rt)) /\ Result(m, i) \in Words
<1> DEFINE p == emit_use_reg(m, i.rs, 8)
           q == emit_use_reg(p, i.rt, 9)
<1>i. i.rs \in Src /\ i.rt \in Src /\ 8 \in Scratch /\ 9 \in Scratch
  BY CompilerConstants DEF Scratch
<1>1. Kept(m, p) /\ CopiesOK(p) /\ p.hb.reg = m.hb.reg
  BY <1>i, UseReg
<1>2. HostOK(p) /\ NoStale(p, i.rt) /\ Operand(p, i.rt) = Operand(m, i.rt)
  BY <1>1, <1>i, KeptBeliefs DEF Kept
<1>3. Value(m, i.rs, 8) = Operand(m, i.rs)
  BY <1>i, ValueIs
<1> HIDE DEF p
<1>4. Value(p, i.rt, 9) = Operand(m, i.rt)
  BY <1>i, <1>1, <1>2, ValueIs
<1>5. Kept(p, q) /\ CopiesOK(q) /\ q.hb.reg = p.hb.reg
  BY <1>i, <1>1, <1>2, UseReg
<1> HIDE DEF q
<1>6. Kept(m, q)
  BY <1>1, <1>5, KeptTwice
<1>7. Result(m, i) = Sum(Operand(m, i.rs), Operand(m, i.rt))
  BY <1>3, <1>4 DEF Result, p
<1>8. Sum(Operand(m, i.rs), Operand(m, i.rt)) \in Words
  BY <1>i, OperandWord, SumWord
<1> QED BY <1>1, <1>3, <1>4, <1>5, <1>6, <1>7, <1>8 DEF TwoSources, p, q

(* A result taken for a RAM address is one.                                *)
LEMMA KnowingDoes ==
  ASSUME NEW m, NEW q, NEW r \in Regs, NEW v \in Ram, Wrote(m, q, r, v), CopiesOK(q)
  PROVE  LET p == [q EXCEPT !.known = @ \cup {r}] IN Wrote(m, p, r, v) /\ CopiesOK(p) /\ p.hb = q.hb
<1> DEFINE p == [q EXCEPT !.known = q.known \cup {r}]
<1>1. HostOK(q) /\ q \in Machines
  BY DEF Wrote, HostOK
<1>2. q.known \cup {r} \in SUBSET Regs
  BY <1>1, MachineFields
<1>3. p \in Machines
  BY <1>1, <1>2 DEF Machines
<1>4. /\ p.sc = q.sc /\ p.hb = q.hb /\ Rest(p) = Rest(q) /\ p.k = q.k /\ p.lazy = q.lazy /\ p.known = q.known \cup {r}
      /\ p.home = q.home /\ p.dirty = q.dirty /\ p.loaded = q.loaded /\ p.regs = q.regs
  BY <1>1 DEF Machines, Rest
<1> HIDE DEF p
<1>5. HostOK(p) /\ \A x : Sees(p, x) = Sees(q, x)
  BY <1>1, <1>3, <1>4 DEF HostOK, Sees, Settled, Holds
<1>6. Wrote(m, p, r, v)
  BY <1>4, <1>5 DEF Wrote
<1>7. CopiesOK(p)
  BY <1>4, <1>5 DEF CopiesOK
<1> QED BY <1>4, <1>6, <1>7 DEF p

(* mark_vreg_var of the destination, then the sources are read.            *)
LEMMA MarkThenRead ==
  ASSUME NEW m, Good(m), NEW i \in Instructions, NoStale(m, i.rs), NoStale(m, i.rt)
  PROVE  LET p == mark_vreg_var(m, i.rd) IN
         /\ Kept(m, p) /\ HostOK(p) /\ CopiesOK(p) /\ BaseOK(p) /\ Unknown(p, i.rd) /\ (i.rd # 0 => p.hb.reg # i.rd)
         /\ NoStale(p, i.rs) /\ NoStale(p, i.rt)
         /\ Operand(p, i.rs) = Operand(m, i.rs) /\ Operand(p, i.rt) = Operand(m, i.rt)
<1> DEFINE p == mark_vreg_var(m, i.rd)
<1>i. i.rd \in Src /\ i.rs \in Src /\ i.rt \in Src
  BY CompilerConstants
<1>1. Kept(m, p) /\ CopiesOK(p) /\ BaseOK(p) /\ Unknown(p, i.rd) /\ (i.rd # 0 => p.hb.reg # i.rd)
  BY <1>i, MarkVar DEF Good
<1> HIDE DEF p
<1>2. HostOK(p) /\ HostOK(m)
  BY <1>1 DEF Kept, Good
<1>3. NoStale(p, i.rs) /\ NoStale(p, i.rt) /\ Operand(p, i.rs) = Operand(m, i.rs) /\ Operand(p, i.rt) = Operand(m, i.rt)
  BY <1>1, <1>2, <1>i, KeptBeliefs
<1> QED BY <1>1, <1>2, <1>3 DEF p

(* The two ways the model drops the base.                                  *)
LEMMA NoBaseAgain == \A m : [m EXCEPT !.hb = Nothing] = NoBase(m)
BY DEF NoBase

(* ADDU and its like.                                                      *)
LEMMA AluDoes ==
  ASSUME NEW m, Good(m), NEW i \in Instructions, NoStale(m, i.rs), NoStale(m, i.rt),
         i.rd = 0 => i.rs = 0 /\ i.rt = 0,
         KeepsRam(m, i) /\ i.rd # 0 => Sum(Operand(m, i.rs), Operand(m, i.rt)) \in Ram
  PROVE  Did(m, EmitAlu(m, i), i.rd, Sum(Operand(m, i.rs), Operand(m, i.rt)), m.hi, m.mem)
<1> DEFINE v == Sum(Operand(m, i.rs), Operand(m, i.rt))
<1>i. i.rd \in Src /\ i.rs \in Src /\ i.rt \in Src
  BY CompilerConstants
<1>v. v \in Words
  BY <1>i, OperandWord, SumWord DEF Good
<1>1. CASE is_vreg_const(m, i.rs) /\ is_vreg_const(m, i.rt)
  <2>1. EmitAlu(m, i) = mark_vreg_const_lazy(m, i.rd, v)
    BY <1>1, <1>i, ConstIs DEF EmitAlu, Good
  <2> HIDE DEF v
  <2>2. Did(m, mark_vreg_const_lazy(m, i.rd, v), i.rd, v, m.hi, m.mem)
    BY <1>i, <1>v, ConstLazy, WroteDid DEF Good
  <2> QED BY <2>1, <2>2 DEF v
<1>2. CASE ~(is_vreg_const(m, i.rs) /\ is_vreg_const(m, i.rt))
  <2>0. i.rd # 0 /\ i.rd \in Regs
    BY <1>2, <1>i DEF is_vreg_const, Src
  <2> DEFINE w == mark_vreg_var(m, i.rd)
             p == [w EXCEPT !.hb = Nothing]
             t == TwoSources(p, i)
             u == emit_sync_reg(t, i.rd, Result(p, i))
             q == Knowing(m, i, u)
  <2>1. EmitAlu(m, i) = q
    BY <1>2 DEF EmitAlu
  <2>2. /\ Kept(m, w) /\ HostOK(w) /\ CopiesOK(w) /\ Unknown(w, i.rd) /\ NoStale(w, i.rs) /\ NoStale(w, i.rt)
        /\ Operand(w, i.rs) = Operand(m, i.rs) /\ Operand(w, i.rt) = Operand(m, i.rt)
    BY MarkThenRead
  <2> HIDE DEF w
  <2>p. p = NoBase(w)
    BY NoBaseAgain
  <2>3. Kept(w, p) /\ CopiesOK(p) /\ p.hb = Nothing
    BY <2>2, <2>p, NoBaseFields
  <2> HIDE DEF p
  <2>4. /\ HostOK(p) /\ NoStale(p, i.rs) /\ NoStale(p, i.rt) /\ Unknown(p, i.rd)
        /\ Operand(p, i.rs) = Operand(m, i.rs) /\ Operand(p, i.rt) = Operand(m, i.rt)
    BY <2>2, <2>3, <1>i, KeptBeliefs, UnknownKept DEF Kept
  <2>5. Kept(p, t) /\ CopiesOK(t) /\ t.hb.reg = 0 /\ Result(p, i) = v
    BY <2>3, <2>4, TwoSourcesDo, NothingIsACopy
  <2> HIDE DEF t
  <2>6. HostOK(t) /\ Unknown(t, i.rd)
    BY <2>4, <2>5, <1>i, UnknownKept DEF Kept
  <2> HIDE DEF v
  <2>7. Wrote(t, u, i.rd, v) /\ CopiesOK(u) /\ u.hb = t.hb
    BY <2>0, <2>5, <2>6, <1>v, SyncReg
  <2>8. Wrote(m, u, i.rd, v)
    BY <2>2, <2>3, <2>5, <2>7, KeptThenWrote
  <2> HIDE DEF u
  <2>9. Wrote(m, q, i.rd, v) /\ CopiesOK(q) /\ q.hb = u.hb
    <3>1. CASE KeepsRam(m, i)
      BY <3>1, <2>0, <2>7, <2>8, KnowingDoes DEF Knowing, v
    <3>2. CASE ~KeepsRam(m, i)
      BY <3>2, <2>7, <2>8 DEF Knowing
    <3> QED BY <3>1, <3>2
  <2> HIDE DEF q
  <2>10. BaseOK(q)
    BY <2>5, <2>7, <2>9 DEF BaseOK
  <2>11. Did(m, q, i.rd, v, m.hi, m.mem)
    BY <2>9, <2>10, WroteDid
  <2> QED BY <2>1, <2>11 DEF v
<1> QED BY <1>1, <1>2

(* ADDIU and its like.                                                     *)
LEMMA ImmDoes ==
  ASSUME NEW m, Good(m), NEW i \in Instructions, NoStale(m, i.rs), NoStale(m, i.rt),
         i.rd = 0 => i.rs = 0,
         KeepsRam(m, i) /\ i.rd # 0 => Sum(Operand(m, i.rs), i.v) \in Ram
  PROVE  Did(m, EmitImm(m, i), i.rd, Sum(Operand(m, i.rs), i.v), m.hi, m.mem)
<1> DEFINE v == Sum(Operand(m, i.rs), i.v)
<1>i. i.rd \in Src /\ i.rs \in Src /\ i.v \in Words /\ 8 \in Scratch
  BY CompilerConstants DEF Scratch
<1>v. v \in Words
  BY <1>i, OperandWord, SumWord DEF Good
<1>1. CASE is_vreg_const(m, i.rs)
  <2>1. EmitImm(m, i) = mark_vreg_const_lazy(m, i.rd, v)
    BY <1>1, <1>i, ConstIs DEF EmitImm, Good
  <2> HIDE DEF v
  <2>2. Did(m, mark_vreg_const_lazy(m, i.rd, v), i.rd, v, m.hi, m.mem)
    BY <1>i, <1>v, ConstLazy, WroteDid DEF Good
  <2> QED BY <2>1, <2>2 DEF v
<1>2. CASE ~is_vreg_const(m, i.rs)
  <2>0. i.rd # 0 /\ i.rd \in Regs
    BY <1>2, <1>i DEF is_vreg_const, Src
  <2> DEFINE w == mark_vreg_var(m, i.rd)
             t == emit_use_reg(w, i.rs, 8)
             u == emit_sync_reg(t, i.rd, Sum(Value(w, i.rs, 8), i.v))
             q == Knowing(m, i, u)
  <2>1. EmitImm(m, i) = q
    BY <1>2 DEF EmitImm
  <2>2. /\ Kept(m, w) /\ HostOK(w) /\ CopiesOK(w) /\ BaseOK(w) /\ Unknown(w, i.rd) /\ NoStale(w, i.rs)
        /\ Operand(w, i.rs) = Operand(m, i.rs) /\ w.hb.reg # i.rd
    BY <2>0, MarkThenRead
  <2> HIDE DEF w
  <2>5. Kept(w, t) /\ CopiesOK(t) /\ t.hb = w.hb /\ Value(w, i.rs, 8) = Operand(m, i.rs)
    BY <2>2, <1>i, UseReg, ValueIs
  <2> HIDE DEF t
  <2>6. HostOK(t) /\ Unknown(t, i.rd) /\ BaseOK(t)
    BY <2>2, <2>5, <1>i, UnknownKept, BaseKept DEF Kept
  <2>s. Sum(Value(w, i.rs, 8), i.v) = v
    BY <2>5
  <2> HIDE DEF v
  <2>7. Wrote(t, u, i.rd, v) /\ CopiesOK(u) /\ u.hb = t.hb
    BY <2>0, <2>s, <2>6, <2>5, <1>v, SyncReg
  <2>8. Wrote(m, u, i.rd, v)
    BY <2>2, <2>5, <2>7, KeptThenWrote
  <2> HIDE DEF u
  <2>9. Wrote(m, q, i.rd, v) /\ CopiesOK(q) /\ q.hb = u.hb
    <3>1. CASE KeepsRam(m, i)
      BY <3>1, <2>0, <2>7, <2>8, KnowingDoes DEF Knowing, v
    <3>2. CASE ~KeepsRam(m, i)
      BY <3>2, <2>7, <2>8 DEF Knowing
    <3> QED BY <3>1, <3>2
  <2> HIDE DEF q
  <2>10. BaseOK(q)
    <3>1. Wrote(t, q, i.rd, v)
      <4>1. Kept(w, t) /\ Wrote(t, u, i.rd, v)
        BY <2>5, <2>7
      <4>2. CASE KeepsRam(m, i)
        BY <4>1, <4>2, <2>0, <2>7, KnowingDoes DEF Knowing, v, q
      <4>3. CASE ~KeepsRam(m, i)
        BY <4>1, <4>3 DEF Knowing, q
      <4> QED BY <4>2, <4>3
    <3> QED BY <3>1, <2>2, <2>5, <2>6, <2>7, <2>9, <1>i, BaseWrote
  <2>11. Did(m, q, i.rd, v, m.hi, m.mem)
    BY <2>9, <2>10, WroteDid
  <2> QED BY <2>1, <2>11 DEF v
<1> QED BY <1>1, <1>2

-----------------------------------------------------------------------------
(* From m to q no register and no belief changes.                          *)
SameRegs(m, q) ==
  /\ q \in Machines /\ q.k = m.k /\ q.lazy = m.lazy /\ q.known = m.known /\ q.home = m.home
  /\ q.dirty = m.dirty /\ q.loaded = m.loaded /\ q.sc = m.sc /\ q.hb = m.hb /\ q.regs = m.regs

(* Beliefs are about registers only.                                       *)
LEMMA SameRegsGood ==
  ASSUME NEW m, NEW q, SameRegs(m, q)
  PROVE  /\ \A r : Sees(q, r) = Sees(m, r)
         /\ HostOK(m) => HostOK(q)
         /\ CopiesOK(m) => CopiesOK(q)
         /\ Good(m) => Good(q)
<1>1. \A r : Sees(q, r) = Sees(m, r)
  BY DEF SameRegs, Sees, Settled, Holds
<1>2. HostOK(m) => HostOK(q)
  BY DEF SameRegs, HostOK
<1>3. CopiesOK(m) => CopiesOK(q)
  BY <1>1 DEF SameRegs, CopiesOK
<1>4. Good(m) => Good(q)
  BY <1>1, <1>2, <1>3 DEF Good, ConstsOK, BaseOK, KnownOK, SameRegs
<1> QED BY <1>1, <1>2, <1>3, <1>4

(* HI alone changes.                                                       *)
LEMMA SetHi ==
  ASSUME NEW m \in Machines, NEW v \in Words
  PROVE  LET q == [m EXCEPT !.hi = v] IN
         /\ SameRegs(m, q) /\ q.hi = v /\ q.mem = m.mem
         /\ q.pend = m.pend /\ q.ldv = m.ldv /\ q.cond = m.cond /\ q.trap = m.trap
BY DEF Machines, SameRegs

OnlyMem(m, q, mem) ==
  /\ SameRegs(m, q) /\ q.hi = m.hi /\ q.mem = mem
  /\ q.pend = m.pend /\ q.ldv = m.ldv /\ q.cond = m.cond /\ q.trap = m.trap
Poked(m, a, v) == IF a \in Ram THEN [m.mem EXCEPT ![a] = v] ELSE m.mem

(* Memory alone changes.                                                   *)
LEMMA SetMem ==
  ASSUME NEW m \in Machines, NEW a, NEW v, a \in Ram => v \in Words
  PROVE  OnlyMem(m, Poke(m, a, v), Poked(m, a, v))
<1> DEFINE q == Poke(m, a, v)
<1>1. CASE a \in Ram
  <2>1. Poked(m, a, v) = [m.mem EXCEPT ![a] = v] /\ Poked(m, a, v) \in [Ram -> Words]
    BY <1>1, MachineFields DEF Poked
  <2>2. q = [m EXCEPT !.mem = Poked(m, a, v)]
    BY <1>1, <2>1 DEF Poke
  <2>3. q \in Machines
    BY <2>1, <2>2 DEF Machines
  <2>4. OnlyMem(m, q, Poked(m, a, v))
    BY <2>2, <2>3 DEF Machines, SameRegs, OnlyMem
  <2> QED BY <2>4
<1>2. CASE a \notin Ram
  BY <1>2 DEF Poke, Poked, SameRegs, OnlyMem
<1> QED BY <1>1, <1>2

(* V0 alone changes.                                                       *)
LEMMA SetV0 ==
  ASSUME NEW m \in Machines, NEW v \in Words
  PROVE  LET q == [m EXCEPT !.v0 = v] IN SameRegs(m, q) /\ Rest(q) = Rest(m) /\ q.v0 = v
BY DEF Machines, SameRegs, Rest

(* The condition alone changes.                                            *)
LEMMA SetCond ==
  ASSUME NEW m \in Machines, NEW v \in 0 .. V
  PROVE  LET q == [m EXCEPT !.cond = v] IN
         /\ SameRegs(m, q) /\ q.hi = m.hi /\ q.mem = m.mem /\ q.v0 = m.v0
         /\ q.pend = m.pend /\ q.ldv = m.ldv /\ q.cond = v /\ q.trap = m.trap
BY DEF Machines, SameRegs

(* The trap alone changes.                                                 *)
LEMMA SetTrap ==
  ASSUME NEW m \in Machines
  PROVE  LET q == [m EXCEPT !.trap = TRUE] IN
         /\ SameRegs(m, q) /\ q.hi = m.hi /\ q.mem = m.mem /\ q.pend = m.pend /\ q.ldv = m.ldv /\ q.cond = m.cond /\ q.trap = TRUE
BY DEF Machines, SameRegs

(* No register is written to; HI or memory may be.                         *)
LEMMA KeptThenSame ==
  ASSUME NEW m, NEW p, NEW q, NEW v, Good(m), Kept(m, p), CopiesOK(p), BaseOK(p), SameRegs(p, q),
         q.pend = p.pend, q.ldv = p.ldv, q.cond = p.cond, q.trap = p.trap
  PROVE  Did(m, q, 0, v, q.hi, q.mem)
<1>1. Did(m, p, 0, v, m.hi, m.mem)
  BY KeptDid
<1>2. Good(q) /\ \A x \in Regs : Sees(q, x) = Sees(p, x)
  BY <1>1, SameRegsGood DEF Did
<1> QED BY <1>1, <1>2 DEF Did

(* ADD, past its overflow check.                                           *)
LEMMA AddDoes ==
  ASSUME NEW m, Good(m), NEW i \in Instructions, NoStale(m, i.rs), NoStale(m, i.rt), i.op = "add",
         i.rd = 0 => i.rs = 0 /\ i.rt = 0
  PROVE  Did(m, EmitAdd(m, i), i.rd, Sum(Operand(m, i.rs), Operand(m, i.rt)), m.hi, m.mem)
<1> DEFINE v == Sum(Operand(m, i.rs), Operand(m, i.rt))
<1>i. i.rd \in Src /\ i.rs \in Src /\ i.rt \in Src
  BY CompilerConstants
<1>v. v \in Words
  BY <1>i, OperandWord, SumWord DEF Good
<1>1. CASE is_vreg_const(m, i.rs) /\ is_vreg_const(m, i.rt)
  <2>1. EmitAdd(m, i) = EmitAlu(m, i) /\ ~KeepsRam(m, i)
    BY <1>1 DEF EmitAdd, KeepsRam
  <2> QED BY <2>1, AluDoes
<1>2. CASE ~(is_vreg_const(m, i.rs) /\ is_vreg_const(m, i.rt))
  <2>0. i.rd # 0 /\ i.rd \in Regs
    BY <1>2, <1>i DEF is_vreg_const, Src
  <2> DEFINE w == mark_vreg_var(m, i.rd)
             p == [w EXCEPT !.hb = Nothing]
             t == TwoSources(p, i)
             rs == {i.rd} \cap (Pinned \cup t.dirty)
             x == Stored(t, rs)
             y == reg_cache_invalidate(x)
             q == emit_sync_reg(y, i.rd, Result(p, i))
  <2>1. EmitAdd(m, i) = q
    BY <1>2 DEF EmitAdd
  <2>2. /\ Kept(m, w) /\ HostOK(w) /\ CopiesOK(w) /\ Unknown(w, i.rd) /\ NoStale(w, i.rs) /\ NoStale(w, i.rt)
        /\ Operand(w, i.rs) = Operand(m, i.rs) /\ Operand(w, i.rt) = Operand(m, i.rt)
    BY MarkThenRead
  <2> HIDE DEF w
  <2>p. p = NoBase(w)
    BY NoBaseAgain
  <2>3. Kept(w, p) /\ CopiesOK(p) /\ p.hb = Nothing
    BY <2>2, <2>p, NoBaseFields
  <2> HIDE DEF p
  <2>4. /\ HostOK(p) /\ NoStale(p, i.rs) /\ NoStale(p, i.rt) /\ Unknown(p, i.rd)
        /\ Operand(p, i.rs) = Operand(m, i.rs) /\ Operand(p, i.rt) = Operand(m, i.rt)
    BY <2>2, <2>3, <1>i, KeptBeliefs, UnknownKept DEF Kept
  <2>5. Kept(p, t) /\ CopiesOK(t) /\ t.hb.reg = 0 /\ Result(p, i) = v
    BY <2>3, <2>4, TwoSourcesDo, NothingIsACopy
  <2> HIDE DEF t
  <2>6. HostOK(t) /\ rs \in SUBSET (Pinned \cup t.loaded)
    BY <2>5 DEF Kept, HostOK
  <2> HIDE DEF rs
  <2>7. Kept(t, x) /\ x.hb = t.hb
    BY <2>6, StoredFields
  <2> HIDE DEF x
  <2>8. Kept(x, y) /\ CopiesOK(y) /\ y.hb = x.hb
    BY <2>7, InvalidateFields DEF Kept
  <2> HIDE DEF y
  <2>9. Kept(p, y) /\ HostOK(y) /\ Unknown(y, i.rd)
    <3>1. Kept(p, y)
      BY <2>5, <2>7, <2>8, KeptTwice
    <3> QED BY <3>1, <2>4, <1>i, UnknownKept DEF Kept
  <2> HIDE DEF v
  <2>10. Wrote(y, q, i.rd, v) /\ CopiesOK(q) /\ q.hb = y.hb
    BY <2>0, <2>5, <2>8, <2>9, <1>v, SyncReg
  <2> HIDE DEF q
  <2>11. Wrote(m, q, i.rd, v)
    BY <2>2, <2>3, <2>9, <2>10, KeptThenWrote
  <2>12. BaseOK(q)
    BY <2>5, <2>7, <2>8, <2>10 DEF BaseOK
  <2>13. Did(m, q, i.rd, v, m.hi, m.mem)
    BY <2>10, <2>11, <2>12, WroteDid
  <2> QED BY <2>1, <2>13 DEF v
<1> QED BY <1>1, <1>2

(* MTHI.                                                                   *)
LEMMA MthiDoes ==
  ASSUME NEW m, Good(m), NEW i \in Instructions, NoStale(m, i.rs)
  PROVE  Did(m, EmitMthi(m, i), 0, 0, Operand(m, i.rs), m.mem)
<1> DEFINE p == emit_load_psx_reg(m, i.rs, 8)
           q == EmitMthi(m, i)
<1>i. i.rs \in Src /\ 8 \in Scratch /\ HostOK(m) /\ CopiesOK(m) /\ BaseOK(m)
  BY CompilerConstants DEF Scratch, Good
<1>1. Kept(m, p) /\ CopiesOK(p) /\ p.hb = m.hb
  BY <1>i, LoadReg
<1>2. Value(m, i.rs, 8) = Operand(m, i.rs) /\ Operand(m, i.rs) \in Words
  BY <1>i, ValueIs, OperandWord
<1> HIDE DEF p
<1>3. q = [p EXCEPT !.hi = Operand(m, i.rs)]
  BY <1>2 DEF EmitMthi, p
<1>4. p \in Machines /\ BaseOK(p) /\ Rest(p) = Rest(m)
  BY <1>1, <1>i, BaseKept DEF Kept, HostOK
<1>5. /\ SameRegs(p, q) /\ q.hi = Operand(m, i.rs) /\ q.mem = p.mem
      /\ q.pend = p.pend /\ q.ldv = p.ldv /\ q.cond = p.cond /\ q.trap = p.trap
  BY <1>2, <1>3, <1>4, SetHi
<1> HIDE DEF q
<1>6. Did(m, q, 0, 0, q.hi, q.mem)
  BY <1>1, <1>4, <1>5, KeptThenSame
<1> QED BY <1>4, <1>5, <1>6, RestIs DEF q

(* MULT.                                                                   *)
LEMMA MultDoes ==
  ASSUME NEW m, Good(m), NEW i \in Instructions, NoStale(m, i.rs), NoStale(m, i.rt)
  PROVE  Did(m, EmitMult(m, i), 0, 0, Sum(Operand(m, i.rs), Operand(m, i.rt)), m.mem)
<1> DEFINE n == [m EXCEPT !.hb = Nothing]
           p == emit_load_psx_reg(n, i.rs, 8)
           t == emit_load_psx_reg(p, i.rt, 9)
           y == reg_cache_invalidate(t)
           v == Sum(Operand(m, i.rs), Operand(m, i.rt))
           q == EmitMult(m, i)
<1>i. i.rs \in Src /\ i.rt \in Src /\ 8 \in Scratch /\ 9 \in Scratch /\ HostOK(m) /\ CopiesOK(m)
  BY CompilerConstants DEF Scratch, Good
<1>n. n = NoBase(m)
  BY NoBaseAgain
<1>1. Kept(m, n) /\ CopiesOK(n) /\ n.hb = Nothing
  BY <1>i, <1>n, NoBaseFields
<1> HIDE DEF n
<1>2. HostOK(n) /\ NoStale(n, i.rs) /\ NoStale(n, i.rt) /\ Operand(n, i.rt) = Operand(m, i.rt)
  BY <1>1, <1>i, KeptBeliefs DEF Kept
<1>3. Kept(n, p) /\ CopiesOK(p) /\ p.hb.reg = n.hb.reg
  BY <1>1, <1>2, <1>i, LoadReg
<1> HIDE DEF p
<1>4. HostOK(p) /\ NoStale(p, i.rt) /\ Operand(p, i.rt) = Operand(m, i.rt)
  BY <1>2, <1>3, <1>i, KeptBeliefs DEF Kept
<1>5. Kept(p, t) /\ t.hb.reg = p.hb.reg
  BY <1>3, <1>4, <1>i, LoadReg
<1> HIDE DEF t
<1>6. Kept(t, y) /\ CopiesOK(y) /\ y.hb = t.hb
  BY <1>5, InvalidateFields DEF Kept
<1> HIDE DEF y
<1>7. Value(m, i.rs, 8) = Operand(m, i.rs) /\ Value(p, i.rt, 9) = Operand(m, i.rt) /\ v \in Words
  BY <1>i, <1>3, <1>4, ValueIs, OperandWord, SumWord
<1>8. q = [y EXCEPT !.hi = v]
  BY <1>7 DEF EmitMult, y, t, p, n
<1> HIDE DEF v
<1>9. Kept(m, y) /\ BaseOK(y)
  <2>1. Kept(m, y)
    BY <1>1, <1>3, <1>5, <1>6, KeptTwice
  <2> QED BY <2>1, <1>1, <1>3, <1>5, <1>6, NothingIsACopy DEF BaseOK
<1>10. y \in Machines /\ Rest(y) = Rest(m)
  BY <1>9 DEF Kept, HostOK
<1>11. /\ SameRegs(y, q) /\ q.hi = v /\ q.mem = y.mem
       /\ q.pend = y.pend /\ q.ldv = y.ldv /\ q.cond = y.cond /\ q.trap = y.trap
  BY <1>7, <1>8, <1>10, SetHi
<1> HIDE DEF q
<1>12. Did(m, q, 0, 0, q.hi, q.mem)
  BY <1>6, <1>9, <1>11, KeptThenSame
<1> QED BY <1>10, <1>11, <1>12, RestIs DEF q, v

(* MTC0, which calls C.                                                    *)
LEMMA CallDoes ==
  ASSUME NEW m, Good(m), NEW i \in Instructions, NoStale(m, i.rt), Sees(m, Sp) \in Ram
  PROVE  Did(m, EmitMtc0(m, i), 0, 0, m.hi, m.mem)
<1> DEFINE p == emit_load_psx_reg(m, i.rt, 8)
           q == emit_call_c(p)
<1>i. i.rt \in Src /\ 8 \in Scratch /\ HostOK(m) /\ CopiesOK(m) /\ ConstsOK(m) /\ Sp \in Regs
  BY CompilerConstants DEF Scratch, Good
<1>1. Kept(m, p)
  BY <1>i, LoadReg
<1> HIDE DEF p
<1>2. HostOK(p) /\ ConstsOK(p) /\ Sees(p, Sp) \in Ram /\ Rest(p) = Rest(m)
  BY <1>1, <1>i, KeptBeliefs DEF Kept
<1>3. Good(q) /\ Rest(q) = Rest(p) /\ \A r \in Regs : Sees(q, r) = Sees(p, r)
  BY <1>2, CallC DEF Good
<1> HIDE DEF q
<1>4. \A r \in Regs : Sees(q, r) = Sees(m, r) /\ r # 0
  BY <1>1, <1>3, CompilerConstants DEF Kept
<1>5. Did(m, q, 0, 0, m.hi, m.mem)
  BY <1>2, <1>3, <1>4, RestIs DEF Did
<1> QED BY <1>5 DEF EmitMtc0, p, q

(* The check that a coprocessor is usable.                                 *)
LEMMA CopDoes ==
  ASSUME NEW m, Good(m)
  PROVE  Did(m, emit_cu_check(m), 0, 0, m.hi, m.mem)
<1> DEFINE p == flush_dirty_consts(m)
           q == reg_cache_invalidate(p)
<1>1. Kept(m, p) /\ p.hb = m.hb /\ HostOK(m) /\ BaseOK(m)
  BY FlushConsts DEF Good
<1> HIDE DEF p
<1>2. Kept(p, q) /\ CopiesOK(q) /\ q.hb = p.hb
  BY <1>1, InvalidateFields DEF Kept
<1> HIDE DEF q
<1>3. Kept(m, q) /\ BaseOK(q)
  BY <1>1, <1>2, KeptTwice, BaseKept
<1>4. Did(m, q, 0, 0, m.hi, m.mem)
  BY <1>2, <1>3, KeptDid
<1> QED BY <1>4 DEF emit_cu_check, p, q

-----------------------------------------------------------------------------
(* dynarec_memory.c: loads.                                                *)
LEMMA WroteThenSame ==
  ASSUME NEW m, NEW p, NEW q, NEW r, NEW v, Wrote(m, p, r, v), SameRegs(p, q), Rest(q) = Rest(p)
  PROVE  Wrote(m, q, r, v)
<1>1. HostOK(q) /\ \A x : Sees(q, x) = Sees(p, x)
  BY SameRegsGood DEF Wrote
<1> QED BY <1>1 DEF Wrote, SameRegs

(* The register a load writes at once, if it is not deferred.              *)
Target(i, d) == IF d THEN 0 ELSE i.rt

(* The loaded word is kept: in V0, and in rt if it is not deferred.        *)
LEMMA KeepDoes ==
  ASSUME NEW m, HostOK(m), NEW i \in Instructions, NEW v \in Words, NEW d \in BOOLEAN, Unknown(m, i.rt)
  PROVE  LET q == Keep(m, i, v, d) IN
         /\ Wrote(m, q, Target(i, d), v) /\ q.sc = m.sc /\ q.hb = m.hb /\ q.v0 = v
         /\ CopiesOK(m) /\ (\A s \in Scratch : i.rt # 0 => m.sc[s].reg # i.rt) => CopiesOK(q)
<1> DEFINE p == IF d THEN m ELSE emit_store_psx_reg(m, i.rt, v)
           q == Keep(m, i, v, d)
           r == Target(i, d)
<1>i. i.rt \in Src /\ m \in Machines
  BY CompilerConstants DEF HostOK
<1>q. q = [p EXCEPT !.v0 = v]
  BY DEF Keep
<1>1. Wrote(m, p, r, v) /\ p.sc = m.sc /\ p.hb = m.hb /\ p.lazy = m.lazy
  <2>1. CASE d \/ i.rt = 0
    <3>1. p = m /\ r = 0
      BY <2>1 DEF emit_store_psx_reg, Target
    <3>2. Wrote(m, m, 0, v)
      BY KeptSelf, KeptIsWrote
    <3> QED BY <3>1, <3>2
  <2>2. CASE ~d /\ i.rt # 0
    <3>1. p = Put(m, i.rt, v) /\ r = i.rt /\ i.rt \in Regs
      BY <2>2, <1>i DEF emit_store_psx_reg, Target, Src
    <3> QED BY <3>1, PutWrites
  <2> QED BY <2>1, <2>2
<1>r. r = 0 \/ r = i.rt
  BY DEF Target
<1> HIDE DEF p, r
<1>2. p \in Machines
  BY <1>1 DEF Wrote, HostOK
<1>3. SameRegs(p, q) /\ Rest(q) = Rest(p) /\ q.v0 = v
  BY <1>2, <1>q, SetV0
<1> HIDE DEF q
<1>4. Wrote(m, q, r, v) /\ q.sc = m.sc /\ q.hb = m.hb /\ q.lazy = m.lazy
  BY <1>1, <1>3, WroteThenSame DEF SameRegs
<1>5. ASSUME CopiesOK(m), \A s \in Scratch : i.rt # 0 => m.sc[s].reg # i.rt PROVE CopiesOK(q)
  <2> SUFFICES ASSUME NEW s \in Scratch, q.sc[s].reg \notin q.lazy \cup {0} PROVE q.sc[s].val = Sees(q, q.sc[s].reg)
    BY DEF CopiesOK
  <2>1. m.sc[s].reg \in Regs /\ m.sc[s].reg # r
    BY <1>4, <1>5, <1>i, <1>r, ScratchFields, CompilerConstants
  <2> QED BY <2>1, <1>4, <1>5 DEF CopiesOK, Wrote
<1> QED BY <1>3, <1>4, <1>5 DEF q, r

(* A load's code: the word is in V0 and, if not deferred, in rt.           *)
Got(m, q, i, v, d) == Did(m, q, Target(i, d), v, m.hi, m.mem) /\ q.v0 = v

(* Two ways a load's path may end.                                         *)
LEMMA KeepGot ==
  ASSUME NEW m, Good(m), NEW p, Kept(m, p), CopiesOK(p), BaseOK(p),
         NEW i \in Instructions, NEW v \in Words, NEW d \in BOOLEAN, Unknown(p, i.rt),
         i.rt # 0 => p.hb.reg # i.rt, \A s \in Scratch : i.rt # 0 => p.sc[s].reg # i.rt
  PROVE  Got(m, Keep(p, i, v, d), i, v, d)
<1> DEFINE q == Keep(p, i, v, d)
           r == Target(i, d)
<1>1. HostOK(p) /\ r \in Src /\ (r # 0 => p.hb.reg # r)
  BY CompilerConstants DEF Kept, Target, Src
<1>2. Wrote(p, q, r, v) /\ q.hb = p.hb /\ q.v0 = v /\ CopiesOK(q)
  BY <1>1, KeepDoes
<1> HIDE DEF q, r
<1>3. Wrote(m, q, r, v) /\ BaseOK(q)
  BY <1>1, <1>2, KeptThenWrote, BaseWrote
<1>4. Did(m, q, r, v, m.hi, m.mem)
  BY <1>2, <1>3, WroteDid
<1> QED BY <1>2, <1>4 DEF Got, q, r

(* The same with the copies dropped after.                                 *)
LEMMA KeepForgetGot ==
  ASSUME NEW m, Good(m), NEW p, Kept(m, p), p.hb.reg = 0,
         NEW i \in Instructions, NEW v \in Words, NEW d \in BOOLEAN, Unknown(p, i.rt)
  PROVE  Got(m, reg_cache_invalidate(Keep(p, i, v, d)), i, v, d)
<1> DEFINE k == Keep(p, i, v, d)
           q == reg_cache_invalidate(k)
           r == Target(i, d)
<1>1. HostOK(p)
  BY DEF Kept
<1>2. Wrote(p, k, r, v) /\ k.hb = p.hb /\ k.v0 = v
  BY <1>1, KeepDoes
<1> HIDE DEF k, r
<1>3. SameHost(k, q) /\ Kept(k, q) /\ CopiesOK(q) /\ q.hb = k.hb
  BY <1>2, InvalidateFields DEF Wrote
<1> HIDE DEF q
<1>4. Wrote(m, q, r, v) /\ BaseOK(q) /\ q.v0 = v
  BY <1>2, <1>3, KeptThenWrote, WroteThenKept DEF BaseOK, Kept
<1>5. Did(m, q, r, v, m.hi, m.mem)
  BY <1>3, <1>4, WroteDid
<1> QED BY <1>4, <1>5 DEF Got, q, r, k

(* The word at an address, and when it is one.                             *)
Fetched(m, a, e) == IF a = Io THEN e.io ELSE At(m, a)
(* An aligned address has a word.                                          *)
LEMMA FetchedWord ==
  ASSUME NEW m \in Machines, NEW a, Aligned(a), NEW e, e.io \in Words
  PROVE  Fetched(m, a, e) \in Words
BY MachineFields, CompilerConstants DEF Fetched, At, Aligned

(* The state a load's path begins with: nothing is believed of rt.         *)
LEMMA Prepared ==
  ASSUME NEW m0, Good(m0), NEW i \in Instructions
  PROVE  LET m == reg_cache_invalidate(mark_vreg_var(m0, i.rt)) IN
         /\ Kept(m0, m) /\ HostOK(m) /\ CopiesOK(m) /\ BaseOK(m) /\ ConstsOK(m) /\ KnownOK(m)
         /\ Unknown(m, i.rt) /\ (i.rt # 0 => m.hb.reg # i.rt)
         /\ (\A s \in Scratch : m.sc[s] = Nothing) /\ (\A r : NoStale(m, r))
         /\ \A r \in Src : Operand(m, r) = Operand(m0, r)
<1> DEFINE w == mark_vreg_var(m0, i.rt)
           m == reg_cache_invalidate(w)
<1>i. i.rt \in Src /\ HostOK(m0) /\ CopiesOK(m0) /\ BaseOK(m0) /\ ConstsOK(m0) /\ KnownOK(m0)
  BY CompilerConstants DEF Good
<1>1. Kept(m0, w) /\ BaseOK(w) /\ Unknown(w, i.rt) /\ (i.rt # 0 => w.hb.reg # i.rt) /\ HostOK(w)
  BY <1>i, MarkVar DEF Kept
<1> HIDE DEF w
<1>2. /\ Kept(w, m) /\ CopiesOK(m) /\ m.hb = w.hb /\ HostOK(m)
      /\ (\A s \in Scratch : m.sc[s] = Nothing) /\ (\A r : NoStale(m, r))
  BY <1>1, InvalidateFields DEF Kept
<1> HIDE DEF m
<1>3. Kept(m0, m) /\ BaseOK(m) /\ Unknown(m, i.rt)
  BY <1>1, <1>2, <1>i, KeptTwice, BaseKept, UnknownKept
<1>4. ConstsOK(m) /\ KnownOK(m) /\ \A r \in Src : Operand(m, r) = Operand(m0, r)
  BY <1>3, <1>i, KeptBeliefs
<1> QED BY <1>1, <1>2, <1>3, <1>4 DEF m, w

(* Caching another host base, in T9.                                       *)
LEMMA SetBaseFields ==
  ASSUME NEW m, HostOK(m), CopiesOK(m), NEW r \in Regs, NEW v \in Words, v = Sees(m, r)
  PROVE  LET q == SetBase(m, r, v) IN
         /\ Kept(m, q) /\ CopiesOK(q) /\ BaseOK(q) /\ q.hb.reg = r /\ q.hb.val = v
         /\ q.sc[8] = m.sc[8] /\ q.sc[9] = Nothing
<1> DEFINE p == SetScratch(m, 9, Nothing)
           hb == [reg |-> r, val |-> v]
           q == SetBase(m, r, v)
<1>s. 8 \in Scratch /\ 9 \in Scratch /\ \A s \in Scratch : s = 8 \/ s = 9
  BY DEF Scratch
<1>1. SameHost(m, p) /\ \A x \in Scratch : p.sc[x] = IF x = 9 THEN Nothing ELSE m.sc[x]
  BY <1>s, NothingIsACopy, SetScratchFields
<1>2. q = [p EXCEPT !.hb = hb]
  BY DEF SetBase
<1> HIDE DEF p
<1>3. hb \in [reg : Src, val : 0 .. V] /\ hb.reg = r /\ hb.val = v
  BY CompilerConstants DEF Src
<1> HIDE DEF hb
<1>p. p \in Machines
  BY <1>1 DEF SameHost, HostOK
<1>4. q \in Machines
  BY <1>p, <1>2, <1>3 DEF Machines
<1>5. q.hb = hb /\ q.sc = p.sc /\ Rest(q) = Rest(p) /\ q.v0 = p.v0 /\ q.k = p.k /\ q.lazy = p.lazy
      /\ q.known = p.known /\ q.home = p.home /\ q.dirty = p.dirty /\ q.loaded = p.loaded /\ q.regs = p.regs
  BY <1>p, <1>2 DEF Machines, Rest
<1> HIDE DEF q
<1>6. SameHost(m, q)
  BY <1>1, <1>4, <1>5 DEF SameHost, HostOK
<1>7. \A x : Sees(q, x) = Sees(m, x)
  BY <1>6, SameHostSees
<1>8. q.sc[8] = m.sc[8] /\ q.sc[9] = Nothing
  BY <1>1, <1>5, <1>s
<1>l. 0 \notin q.lazy
  BY <1>4, MachineFields, CompilerConstants
<1>9. Kept(m, q)
  <2>1. ASSUME NEW s \in Scratch, q.sc[s].reg \in q.lazy PROVE q.sc[s].reg = m.sc[s].reg
    BY <1>8, <1>s, <1>l, <2>1, NothingIsACopy
  <2> QED BY <1>6, <1>7, <2>1 DEF Kept, SameHost
<1>10. CopiesOK(q)
  <2> SUFFICES ASSUME NEW s \in Scratch, q.sc[s].reg \notin q.lazy \cup {0} PROVE q.sc[s].val = Sees(q, q.sc[s].reg)
    BY DEF CopiesOK
  <2>1. s = 8
    BY <1>8, <1>s, NothingIsACopy
  <2> QED BY <2>1, <1>6, <1>7, <1>8, <1>s DEF CopiesOK, SameHost
<1>11. BaseOK(q) /\ q.hb.reg = r /\ q.hb.val = v
  BY <1>3, <1>5, <1>7 DEF BaseOK
<1> QED BY <1>8, <1>9, <1>10, <1>11 DEF q

(* The host base of a register known to point to RAM, loaded at need.      *)
LEMMA BaseOfKnown ==
  ASSUME NEW m, HostOK(m), CopiesOK(m), NEW r \in Regs, NoStale(m, r)
  PROVE  LET q == SetBase(emit_use_reg(m, r, 8), r, Value(m, r, 8)) IN
         /\ Kept(m, q) /\ CopiesOK(q) /\ BaseOK(q) /\ q.hb.reg = r /\ q.hb.val = Sees(m, r)
         /\ \A s \in Scratch : q.sc[s].reg \in {0, r, m.sc[8].reg}
<1> DEFINE p == emit_use_reg(m, r, 8)
           v == Sees(m, r)
           q == SetBase(p, r, v)
<1>s. 8 \in Scratch /\ 9 \in Scratch /\ r # 0 /\ r \in Src /\ \A s \in Scratch : s = 8 \/ s = 9
  BY CompilerConstants DEF Scratch, Src
<1>1. Value(m, r, 8) = v
  BY <1>s, ValueIs DEF Operand
<1>2. Kept(m, p) /\ CopiesOK(p) /\ p.sc[8].reg \in {0, r, m.sc[8].reg}
  <2>1. Kept(m, p) /\ CopiesOK(p) /\ (r \notin Plain => p.sc = m.sc)
    BY <1>s, UseReg
  <2>2. r \in Plain => p.sc[8].reg \in {0, r}
    <3> SUFFICES ASSUME r \in Plain PROVE p.sc[8].reg \in {0, r}
      OBVIOUS
    <3>h. r \notin Homed /\ r \notin Pinned /\ r \notin Slotted /\ m \in Machines
      BY CompilerConstants DEF HostOK
    <3>1. CASE Holds(m, r)
      <4> DEFINE n == [Put(m, r, m.k[r]) EXCEPT !.lazy = @ \ {r}]
      <4>1. p = SetScratch(n, 8, Nothing)
        BY <3>1, <3>h, <1>s DEF emit_use_reg
      <4>2. r \in m.lazy
        BY <3>1 DEF Holds
      <4>3. HostOK(n)
        BY <4>2, Materialised DEF Kept
      <4> HIDE DEF n
      <4>4. p.sc[8] = Nothing
        BY <4>1, <4>3, <1>s, NothingIsACopy, SetScratchFields
      <4> QED BY <4>4, NothingIsACopy
    <3>2. CASE ~Holds(m, r)
      <4> DEFINE c == [reg |-> r, val |-> v]
      <4>1. p = SetScratch(m, 8, c)
        BY <3>2, <3>h, <1>s, <1>1 DEF emit_use_reg
      <4>2. c \in [reg : Plain \cup {0}, val : 0 .. V] /\ c.reg = r
        BY SeesWord, CompilerConstants
      <4> HIDE DEF c
      <4>3. p.sc[8] = c
        BY <4>1, <4>2, <1>s, SetScratchFields
      <4> QED BY <4>2, <4>3
    <3> QED BY <3>1, <3>2
  <2> QED BY <2>1, <2>2
<1> HIDE DEF p
<1>3. HostOK(p) /\ v = Sees(p, r) /\ v \in Words
  BY <1>2, SeesWord DEF Kept
<1> HIDE DEF v
<1>4. /\ Kept(p, q) /\ CopiesOK(q) /\ BaseOK(q) /\ q.hb.reg = r /\ q.hb.val = v
      /\ q.sc[8] = p.sc[8] /\ q.sc[9] = Nothing
  BY <1>2, <1>3, SetBaseFields
<1> HIDE DEF q
<1>5. Kept(m, q)
  BY <1>2, <1>4, KeptTwice
<1>6. \A s \in Scratch : q.sc[s].reg \in {0, r, m.sc[8].reg}
  BY <1>2, <1>4, <1>s, NothingIsACopy
<1> QED BY <1>1, <1>4, <1>5, <1>6 DEF p, q, v

(* Marking a register adds no dirty slot but one with a lazy constant.     *)
LEMMA MarkVarClean ==
  ASSUME NEW m, HostOK(m), BaseOK(m), NEW r \in Src, flush_dirty_consts(m).dirty = {}
  PROVE  mark_vreg_var(m, r).dirty = {} /\ mark_vreg_var(m, r).lazy \cap Slotted = {}
<1>1. m.dirty = {} /\ m.lazy \cap Slotted = {} /\ m \in Machines
  BY FlushConsts DEF HostOK
<1>2. CASE r = 0
  BY <1>1, <1>2 DEF mark_vreg_var
<1>3. CASE r # 0 /\ ~Holds(m, r)
  <2> DEFINE d == DropBase(m, r)
  <2>1. d.dirty = m.dirty /\ d.lazy = m.lazy /\ d \in Machines
    BY DropBaseFields DEF SameHost, HostOK
  <2>2. mark_vreg_var(m, r) = [d EXCEPT !.k[r] = Junk, !.lazy = @ \ {r}, !.known = @ \ {r}]
    BY <1>3 DEF mark_vreg_var
  <2> HIDE DEF d
  <2>3. mark_vreg_var(m, r).dirty = d.dirty /\ mark_vreg_var(m, r).lazy = d.lazy \ {r}
    BY <2>1, <2>2 DEF Machines
  <2> QED BY <1>1, <2>1, <2>3
<1>4. CASE r # 0 /\ Holds(m, r)
  <2>r. r \in Regs /\ r \in m.lazy /\ r \notin Slotted /\ m.k[r] \in Words
    BY <1>1, <1>4, MachineFields, NotJunk DEF Holds, Src, HostOK
  <2> DEFINE u == Put(m, r, m.k[r])
             p == PutAndForget(m, r, m.k[r])
             d == DropBase(p, r)
  <2>1. HostOK(u) /\ Beside(m, u) /\ u.dirty = {}
    <3>1. HostOK(u) /\ Beside(m, u)
      BY <2>r, PutFields
    <3>2. u.dirty = {}
      BY <2>r, <1>1 DEF Put, Machines
    <3> QED BY <3>1, <3>2
  <2>2. p = Forget(u, {r} \cap Plain)
    BY <1>4 DEF PutAndForget
  <2> HIDE DEF u
  <2>3. HostOK(p) /\ p.dirty = {} /\ p.lazy = m.lazy
    BY <2>1, <2>2, ForgetFields DEF SameHost, Beside
  <2>4. mark_vreg_var(m, r) = [d EXCEPT !.k[r] = Junk, !.lazy = @ \ {r}, !.known = @ \ {r}]
    BY <1>4 DEF mark_vreg_var
  <2> HIDE DEF p
  <2>5. d.dirty = {} /\ d.lazy = m.lazy /\ d \in Machines
    BY <2>3, NothingIsACopy, ZenonT(60) DEF DropBase, Machines, HostOK
  <2> HIDE DEF d
  <2>6. mark_vreg_var(m, r).dirty = d.dirty /\ mark_vreg_var(m, r).lazy = d.lazy \ {r}
    BY <2>4, <2>5 DEF Machines
  <2> QED BY <1>1, <2>5, <2>6
<1> QED BY <1>2, <1>3, <1>4

(* What the compiler and the machine may meet.                             *)
Encounters ==
  [d : BOOLEAN, dev : {"field", "mask", "split", "call", "other"}, code : BOOLEAN, slow : BOOLEAN, io : Words]

(* No slot is dirty at a split of the path to a device.                    *)
NoSplit(m, i, e) == e.dev = "split" /\ ConstTo(m, i, {Io}) => flush_dirty_consts(m).dirty = {}

(* A load from a known device register.                                    *)
LEMMA ReadDeviceDoes ==
  ASSUME NEW m0, Good(m0), NEW i \in Instructions, NEW e \in Encounters, e.dev # "other",
         e.dev = "split" => flush_dirty_consts(m0).dirty = {}
  PROVE  LET m == reg_cache_invalidate(mark_vreg_var(m0, i.rt)) IN
         Got(m0, ReadDevice(m, i, e), i, e.io, e.d)
<1> DEFINE w == mark_vreg_var(m0, i.rt)
           m == reg_cache_invalidate(w)
<1>e. e.io \in Words /\ e.d \in BOOLEAN /\ e.slow \in BOOLEAN /\ e.dev \in {"field", "mask", "split", "call"}
  BY DEF Encounters
<1>i. i.rt \in Src
  BY CompilerConstants
<1>1. /\ Kept(m0, m) /\ HostOK(m) /\ CopiesOK(m) /\ BaseOK(m) /\ Unknown(m, i.rt)
      /\ \A s \in Scratch : m.sc[s] = Nothing
  BY Prepared
<1>c. e.dev = "split" => flush_dirty_consts(m).dirty = {}
  <2> SUFFICES ASSUME e.dev = "split" PROVE flush_dirty_consts(m).dirty = {}
    OBVIOUS
  <2>1. w.dirty = {} /\ w.lazy \cap Slotted = {} /\ HostOK(w)
    BY <1>i, MarkVarClean, MarkVar DEF Good, Kept
  <2> HIDE DEF w
  <2>2. m.dirty = {} /\ m.lazy = w.lazy
    BY <2>1, InvalidateFields DEF SameHost
  <2> QED BY <1>1, <2>1, <2>2, FlushConsts
<1> HIDE DEF m
<1>2. ASSUME NEW p, Kept(m, p), CopiesOK(p), p.hb = Nothing, \A s \in Scratch : p.sc[s] = Nothing
      PROVE  Got(m0, Keep(p, i, e.io, e.d), i, e.io, e.d)
  <2>1. Kept(m0, p) /\ Unknown(p, i.rt)
    BY <1>1, <1>2, <1>i, KeptTwice, UnknownKept
  <2>2. p.hb.reg = 0 /\ BaseOK(p) /\ \A s \in Scratch : p.sc[s].reg = 0
    BY <1>2, NothingIsACopy DEF BaseOK
  <2> QED BY <1>2, <1>e, <2>1, <2>2, KeepGot
<1>3. CASE e.dev \in {"field", "mask"}
  <2>1. Kept(m, NoBase(m)) /\ CopiesOK(NoBase(m)) /\ NoBase(m).hb = Nothing /\ \A s \in Scratch : NoBase(m).sc[s] = Nothing
    BY <1>1, NoBaseFields
  <2>2. ReadDevice(m, i, e) = Keep(NoBase(m), i, e.io, e.d)
    BY <1>3 DEF ReadDevice
  <2> QED BY <1>2, <2>1, <2>2 DEF m
<1>4. CASE e.dev = "split"
  <2> DEFINE p == Split(m, e.slow)
  <2>1. Kept(m, p) /\ CopiesOK(p) /\ p.hb = Nothing
    BY <1>1, <1>c, <1>e, <1>4, SplitKept
  <2>2. \A s \in Scratch : p.sc[s] = Nothing
    <3> DEFINE f == flush_dirty_consts(NoBase(m))
               g == emit_call_c_lite(f)
    <3>1. HostOK(f)
      BY <1>1, NoBaseFields, FlushConsts DEF Kept
    <3> HIDE DEF f
    <3>2. HostOK(g) /\ \A s \in Scratch : g.sc[s] = Nothing
      BY <3>1, CallLite DEF Kept
    <3> HIDE DEF g
    <3>3. p = IF e.slow THEN g ELSE [g EXCEPT !.regs = f.regs]
      BY DEF Split, f, g
    <3>4. p.sc = g.sc
      BY <3>2, <3>3 DEF HostOK, Machines
    <3> QED BY <3>2, <3>4
  <2>3. ReadDevice(m, i, e) = Keep(p, i, e.io, e.d)
    BY <1>4 DEF ReadDevice
  <2> HIDE DEF p
  <2> QED BY <1>2, <2>1, <2>2, <2>3 DEF m
<1>5. CASE e.dev = "call"
  <2> DEFINE p == emit_call_c_lite(m)
  <2>1. Kept(m, p) /\ CopiesOK(p) /\ p.hb = Nothing /\ \A s \in Scratch : p.sc[s] = Nothing
    BY <1>1, CallLite
  <2>3. ReadDevice(m, i, e) = Keep(p, i, e.io, e.d)
    BY <1>5 DEF ReadDevice
  <2> HIDE DEF p
  <2> QED BY <1>2, <2>1, <2>3 DEF m
<1> QED BY <1>e, <1>3, <1>4, <1>5

(* A load through a pointer known to be in RAM.                            *)
LEMMA ReadKnownDoes ==
  ASSUME NEW m0, Good(m0), NEW i \in Instructions, NEW e \in Encounters
  PROVE  LET m == reg_cache_invalidate(mark_vreg_var(m0, i.rt)) IN
         KnownPath(m, i) => /\ Operand(m0, i.rs) \in Ram
                            /\ Got(m0, ReadKnown(m, i, e), i, Fetched(m0, Operand(m0, i.rs), e), e.d)
<1> DEFINE m == reg_cache_invalidate(mark_vreg_var(m0, i.rt))
           base == IF m.hb.reg = i.rs THEN m ELSE SetBase(emit_use_reg(m, i.rs, 8), i.rs, Value(m, i.rs, 8))
           a == Operand(m0, i.rs)
           v == Fetched(m0, a, e)
<1>e. e.io \in Words /\ e.d \in BOOLEAN
  BY DEF Encounters
<1>i. i.rt \in Src /\ i.rs \in Src
  BY CompilerConstants
<1>1. /\ Kept(m0, m) /\ HostOK(m) /\ CopiesOK(m) /\ BaseOK(m) /\ KnownOK(m) /\ Unknown(m, i.rt)
      /\ (\A s \in Scratch : m.sc[s] = Nothing) /\ (\A r : NoStale(m, r)) /\ Operand(m, i.rs) = a
      /\ (i.rt # 0 => m.hb.reg # i.rt)
  BY <1>i, Prepared
<1> SUFFICES ASSUME KnownPath(m, i) PROVE a \in Ram /\ Got(m0, ReadKnown(m, i, e), i, v, e.d)
  OBVIOUS
<1> HIDE DEF m
<1>m. m \in Machines /\ m0 \in Machines
  BY <1>1 DEF HostOK, Good
<1>2. i.rs \in m.known /\ i.rs \in Regs /\ i.rs # 0 /\ (i.rt # 0 => i.rs # i.rt)
  BY <1>1, <1>m, MachineFields, CompilerConstants DEF KnownPath, Unknown
<1>3. a = Sees(m, i.rs) /\ a \in Ram
  BY <1>1, <1>2 DEF Operand, KnownOK
<1>4. /\ Kept(m, base) /\ CopiesOK(base) /\ BaseOK(base) /\ base.hb.reg = i.rs /\ base.hb.val = a
      /\ \A s \in Scratch : base.sc[s].reg \in {0, i.rs}
  <2>1. CASE m.hb.reg = i.rs
    <3>1. base = m /\ m.hb.val = a
      BY <2>1, <1>1, <1>2, <1>3 DEF BaseOK
    <3> QED BY <2>1, <3>1, <1>1, KeptSelf, NothingIsACopy
  <2>2. CASE m.hb.reg # i.rs
    <3>1. m.sc[8].reg = 0
      BY <1>1, NothingIsACopy DEF Scratch
    <3> QED BY <2>2, <3>1, <1>1, <1>2, <1>3, BaseOfKnown
  <2> QED BY <2>1, <2>2
<1> HIDE DEF base
<1>5. Kept(m0, base) /\ Unknown(base, i.rt) /\ base.mem = m0.mem /\ (i.rt # 0 => base.hb.reg # i.rt)
      /\ \A s \in Scratch : i.rt # 0 => base.sc[s].reg # i.rt
  <2>1. Kept(m0, base)
    BY <1>1, <1>4, KeptTwice
  <2> QED BY <2>1, <1>1, <1>2, <1>4, <1>i, UnknownKept, RestIs DEF Kept
<1>6. At(base, base.hb.val) = v /\ v \in Words
  BY <1>3, <1>4, <1>5, <1>m, <1>e, FetchedWord, CompilerConstants DEF At, Fetched, Aligned
<1>7. ReadKnown(m, i, e) = Keep(base, i, v, e.d)
  <2>1. i.rs # i.rt
    BY <1>2
  <2> QED BY <1>6, <2>1 DEF ReadKnown, base
<1> HIDE DEF v
<1>8. Got(m0, Keep(base, i, v, e.d), i, v, e.d)
  BY <1>4, <1>5, <1>6, <1>e, KeepGot
<1> QED BY <1>3, <1>7, <1>8

(* A load through an unknown pointer.                                      *)
LEMMA ReadGenericDoes ==
  ASSUME NEW m0, Good(m0), NEW i \in Instructions, NEW e \in Encounters, Aligned(Operand(m0, i.rs))
  PROVE  LET m == reg_cache_invalidate(mark_vreg_var(m0, i.rt)) IN
         Got(m0, ReadGeneric(m, i, e), i, Fetched(m0, Operand(m0, i.rs), e), e.d)
<1> DEFINE m == reg_cache_invalidate(mark_vreg_var(m0, i.rt))
           n == NoBase(m)
           u == emit_use_reg(n, i.rs, 8)
           gen == flush_dirty_consts(u)
           a == Operand(m0, i.rs)
           v == Fetched(m0, a, e)
<1>e. e.io \in Words /\ e.d \in BOOLEAN
  BY DEF Encounters
<1>i. i.rt \in Src /\ i.rs \in Src /\ 8 \in Scratch
  BY CompilerConstants DEF Scratch
<1>1. /\ Kept(m0, m) /\ HostOK(m) /\ CopiesOK(m) /\ Unknown(m, i.rt)
      /\ (\A r : NoStale(m, r)) /\ Operand(m, i.rs) = a
  BY <1>i, Prepared
<1> HIDE DEF m
<1>2. Value(m, i.rs, 8) = a
  BY <1>1, <1>i, ValueIs
<1>3. Kept(m, n) /\ CopiesOK(n) /\ n.hb = Nothing
  BY <1>1, NoBaseFields
<1> HIDE DEF n
<1>4. HostOK(n) /\ NoStale(n, i.rs)
  BY <1>1, <1>3, KeptBeliefs DEF Kept
<1>5. Kept(n, u) /\ u.hb = n.hb
  BY <1>3, <1>4, <1>i, UseReg
<1> HIDE DEF u
<1>6. Kept(u, gen) /\ gen.hb = u.hb
  BY <1>5, FlushConsts DEF Kept
<1> HIDE DEF gen
<1>7. Kept(m0, gen) /\ Unknown(gen, i.rt) /\ gen.hb.reg = 0 /\ gen.mem = m0.mem
  <2>1. Kept(m, gen)
    BY <1>3, <1>5, <1>6, KeptTwice
  <2>2. Kept(m0, gen)
    BY <1>1, <2>1, KeptTwice
  <2> QED BY <2>1, <2>2, <1>1, <1>3, <1>5, <1>6, <1>i, UnknownKept, NothingIsACopy, RestIs DEF Kept
<1>8. (IF a = Io THEN e.io ELSE At(gen, a)) = v /\ v \in Words
  BY <1>7, <1>e, FetchedWord DEF At, Fetched, Good, HostOK
<1>9. ReadGeneric(m, i, e) = reg_cache_invalidate(Keep(gen, i, v, e.d))
  BY <1>2, <1>8 DEF ReadGeneric, gen, u, n
<1> HIDE DEF v
<1>10. Got(m0, reg_cache_invalidate(Keep(gen, i, v, e.d)), i, v, e.d)
  BY <1>7, <1>8, <1>e, KeepForgetGot
<1> QED BY <1>9, <1>10 DEF m, v

(* Every load of an aligned word fetches what is at its address.           *)
LEMMA ReadDoes ==
  ASSUME NEW m0, Good(m0), NEW i \in Instructions, NEW e \in Encounters, NoSplit(m0, i, e),
         Aligned(Operand(m0, i.rs))
  PROVE  Got(m0, emit_memory_read(m0, i, e), i, Fetched(m0, Operand(m0, i.rs), e), e.d)
<1> DEFINE m == reg_cache_invalidate(mark_vreg_var(m0, i.rt))
           a == Operand(m0, i.rs)
           v == Fetched(m0, a, e)
<1>e. e.io \in Words /\ e.d \in BOOLEAN
  BY DEF Encounters
<1>i. i.rt \in Src /\ i.rs \in Src
  BY CompilerConstants
<1>1. /\ Kept(m0, m) /\ HostOK(m) /\ CopiesOK(m) /\ ConstsOK(m) /\ Unknown(m, i.rt)
      /\ (\A s \in Scratch : m.sc[s] = Nothing) /\ Operand(m, i.rs) = a
  BY <1>i, Prepared
<1>v. v \in Words
  BY <1>e, FetchedWord DEF Good, HostOK
<1>c. is_vreg_const(m, i.rs) => get_vreg_const(m, i.rs) = a
  BY <1>1, <1>i, ConstIs
<1>2. CASE ConstTo(m, i, Ram)
  <2> HIDE DEF m
  <2>1. a \in Ram /\ get_vreg_const(m, i.rs) = a /\ m.mem = m0.mem
    BY <1>1, <1>2, <1>c, RestIs DEF ConstTo, Kept
  <2>2. m.mem[get_vreg_const(m, i.rs)] = v
    BY <2>1, CompilerConstants DEF Fetched, At
  <2>3. emit_memory_read(m0, i, e) = Keep(NoBase(m), i, v, e.d)
    <3>1. ~ConstTo(m, i, {Io}) /\ ~KnownPath(m, i)
      BY <1>2, <2>1, CompilerConstants DEF ConstTo, KnownPath
    <3> QED BY <1>2, <2>2, <3>1 DEF emit_memory_read, m
  <2>4. Kept(m, NoBase(m)) /\ CopiesOK(NoBase(m)) /\ NoBase(m).hb = Nothing /\ BaseOK(NoBase(m)) /\ NoBase(m).sc = m.sc
    BY <1>1, NoBaseFields
  <2>5. Kept(m0, NoBase(m)) /\ Unknown(NoBase(m), i.rt)
    BY <1>1, <2>4, <1>i, KeptTwice, UnknownKept
  <2>6. NoBase(m).hb.reg = 0 /\ \A s \in Scratch : NoBase(m).sc[s].reg = 0
    BY <1>1, <2>4, NothingIsACopy
  <2> HIDE DEF v
  <2>7. Got(m0, Keep(NoBase(m), i, v, e.d), i, v, e.d)
    BY <1>e, <1>v, <2>4, <2>5, <2>6, KeepGot
  <2> QED BY <2>3, <2>7 DEF v
<1>3. CASE ConstTo(m, i, {Io}) /\ e.dev # "other"
  <2>1. a = Io
    BY <1>3, <1>c DEF ConstTo
  <2>2. ~ConstTo(m, i, Ram)
    BY <1>3, <1>c, CompilerConstants DEF ConstTo
  <2>3. emit_memory_read(m0, i, e) = ReadDevice(m, i, e)
    BY <1>3, <2>2 DEF emit_memory_read, ConstTo, KnownPath
  <2>4. ConstTo(m0, i, {Io})
    <3>1. is_vreg_const(m0, i.rs)
      <4>1. CASE i.rs = 0
        BY <4>1 DEF is_vreg_const
      <4>2. CASE i.rs # 0
        <5>1. m.k[i.rs] # Junk /\ i.rs \in Regs
          BY <1>3, <1>i, <4>2 DEF ConstTo, is_vreg_const, Src
        <5> HIDE DEF m
        <5>2. m0.k[i.rs] # Junk
          BY <5>1, <1>1 DEF Kept
        <5> QED BY <5>2 DEF is_vreg_const
      <4> QED BY <4>1, <4>2
    <3>2. get_vreg_const(m0, i.rs) = Operand(m0, i.rs)
      BY <3>1, <1>i, ConstIs DEF Good
    <3> QED BY <3>1, <3>2, <2>1 DEF ConstTo
  <2>5. Got(m0, ReadDevice(m, i, e), i, e.io, e.d)
    BY <1>3, <2>4, ReadDeviceDoes DEF NoSplit
  <2> QED BY <2>1, <2>3, <2>5 DEF Fetched
<1>4. CASE KnownPath(m, i)
  <2>1. emit_memory_read(m0, i, e) = ReadKnown(m, i, e)
    BY <1>4 DEF emit_memory_read, KnownPath, ConstTo
  <2> QED BY <1>4, <2>1, ReadKnownDoes
<1>5. CASE ~ConstTo(m, i, Ram) /\ ~(ConstTo(m, i, {Io}) /\ e.dev # "other") /\ ~KnownPath(m, i)
  <2>1. emit_memory_read(m0, i, e) = ReadGeneric(m, i, e)
    BY <1>5 DEF emit_memory_read
  <2> QED BY <2>1, ReadGenericDoes
<1> QED BY <1>2, <1>3, <1>4, <1>5

(* LWL and LWR merge with the old word, still in flight or not.            *)
LEMMA LwxDoes ==
  ASSUME NEW m0, Good(m0), NEW i \in Instructions, NEW e \in Encounters, Aligned(Operand(m0, i.rs))
  PROVE  Got(m0, emit_memory_lwx(m0, i, e), i,
             Sum(IF m0.pend.reg = i.rt THEN m0.ldv ELSE Operand(m0, i.rt), Fetched(m0, Operand(m0, i.rs), e)), e.d)
<1> DEFINE c == reg_cache_invalidate(mark_vreg_var(m0, i.rt))
           m == NoBase(c)
           p == IF i.rt \in Slotted /\ m.pend.reg # i.rt THEN emit_use_reg(m, i.rt, 8) ELSE m
           u == emit_load_psx_reg(p, i.rs, 8)
           q == flush_dirty_consts(u)
           a == Operand(m0, i.rs)
           old == IF m0.pend.reg = i.rt THEN m0.ldv ELSE Operand(m0, i.rt)
           v == Sum(old, Fetched(m0, a, e))
<1>e. e.io \in Words /\ e.d \in BOOLEAN
  BY DEF Encounters
<1>i. i.rt \in Src /\ i.rs \in Src /\ 8 \in Scratch
  BY CompilerConstants DEF Scratch
<1>g. HostOK(m0) /\ m0 \in Machines
  BY DEF Good, HostOK
<1>1. /\ Kept(m0, c) /\ HostOK(c) /\ CopiesOK(c) /\ Unknown(c, i.rt)
      /\ (\A r : NoStale(c, r)) /\ Operand(c, i.rs) = a /\ Operand(c, i.rt) = Operand(m0, i.rt)
  BY <1>i, Prepared
<1> HIDE DEF c
<1>2. Kept(c, m) /\ CopiesOK(m) /\ m.hb = Nothing
  BY <1>1, NoBaseFields
<1> HIDE DEF m
<1>3. /\ Kept(m0, m) /\ HostOK(m) /\ NoStale(m, i.rs) /\ NoStale(m, i.rt) /\ Unknown(m, i.rt)
      /\ Operand(m, i.rs) = a /\ Operand(m, i.rt) = Operand(m0, i.rt)
  <2>1. Kept(m0, m) /\ HostOK(m)
    BY <1>1, <1>2, KeptTwice DEF Kept
  <2> QED BY <2>1, <1>1, <1>2, <1>i, KeptBeliefs, UnknownKept
<1>4. m.pend = m0.pend /\ m.ldv = m0.ldv
  BY <1>3, RestIs DEF Kept
<1>5. Kept(m, p) /\ CopiesOK(p) /\ p.hb = Nothing
  <2>1. CASE i.rt \in Slotted /\ m.pend.reg # i.rt
    BY <2>1, <1>2, <1>3, <1>i, UseReg
  <2>2. CASE ~(i.rt \in Slotted /\ m.pend.reg # i.rt)
    BY <2>2, <1>2, <1>3, KeptSelf
  <2> QED BY <2>1, <2>2
<1> HIDE DEF p
<1>6. /\ HostOK(p) /\ NoStale(p, i.rs) /\ Unknown(p, i.rt)
      /\ Operand(p, i.rs) = a /\ Operand(p, i.rt) = Operand(m0, i.rt)
  BY <1>3, <1>5, <1>i, KeptBeliefs, UnknownKept DEF Kept
<1>7. Value(p, i.rs, 8) = a /\ Value(p, i.rt, 8) = Operand(m0, i.rt)
  BY <1>5, <1>6, <1>i, ValueIs
<1>8. Kept(p, u) /\ u.hb = p.hb
  BY <1>5, <1>6, <1>i, LoadReg
<1> HIDE DEF u
<1>9. Kept(u, q) /\ q.hb = u.hb
  BY <1>8, FlushConsts DEF Kept
<1> HIDE DEF q
<1>10. Kept(m0, q) /\ Unknown(q, i.rt) /\ q.hb.reg = 0 /\ q.mem = m0.mem
  <2>1. Kept(p, q)
    BY <1>8, <1>9, KeptTwice
  <2>2. Kept(m0, p)
    BY <1>3, <1>5, KeptTwice
  <2>3. Kept(m0, q)
    BY <2>1, <2>2, KeptTwice
  <2>4. Unknown(q, i.rt)
    BY <2>1, <1>6, <1>i, UnknownKept
  <2>5. Rest(q) = Rest(m0)
    BY <2>3 DEF Kept
  <2>6. q.mem = m0.mem
    BY <2>5, RestIs
  <2>7. q.hb.reg = 0
    BY <1>5, <1>8, <1>9, NothingIsACopy
  <2> QED BY <2>3, <2>4, <2>6, <2>7
<1>11. Fetched(m0, a, e) \in Words /\ old \in Words /\ v \in Words
  <2>1. Fetched(m0, a, e) \in Words
    BY <1>e, <1>g, FetchedWord
  <2>2. old \in Words
    BY <1>g, <1>i, OperandWord, MachineFields
  <2> QED BY <2>1, <2>2, SumWord
<1>12. (IF a = Io THEN e.io ELSE At(q, a)) = Fetched(m0, a, e)
  BY <1>10 DEF At, Fetched
<1>13. emit_memory_lwx(m0, i, e) = reg_cache_invalidate(Keep(q, i, v, e.d))
  <2>1. (IF m.pend.reg = i.rt THEN m.ldv ELSE Value(p, i.rt, 8)) = old
    BY <1>4, <1>7
  <2> QED BY <1>7, <1>12, <2>1 DEF emit_memory_lwx, q, u, p, m, c
<1> HIDE DEF v
<1>14. Got(m0, reg_cache_invalidate(Keep(q, i, v, e.d)), i, v, e.d)
  BY <1>10, <1>11, <1>e, KeepForgetGot
<1> QED BY <1>13, <1>14 DEF v

-----------------------------------------------------------------------------
(* dynarec_memory.c: stores.                                               *)
LEMMA PokeDoes ==
  ASSUME NEW m, Good(m), NEW p, Kept(m, p), CopiesOK(p), BaseOK(p), NEW a, NEW v, a \in Ram => v \in Words
  PROVE  Did(m, Poke(p, a, v), 0, 0, m.hi, Poke(m, a, v).mem)
<1> DEFINE q == Poke(p, a, v)
<1>1. p \in Machines /\ m \in Machines /\ p.mem = m.mem /\ p.hi = m.hi
  BY RestIs DEF Kept, HostOK, Good
<1>2. OnlyMem(p, q, Poked(p, a, v)) /\ OnlyMem(m, Poke(m, a, v), Poked(m, a, v))
  BY <1>1, SetMem
<1> HIDE DEF q
<1>3. Poked(p, a, v) = Poked(m, a, v)
  BY <1>1 DEF Poked
<1>4. Did(m, q, 0, 0, q.hi, q.mem)
  BY <1>2, KeptThenSame DEF OnlyMem
<1>5. q.hi = m.hi /\ q.mem = Poke(m, a, v).mem
  BY <1>1, <1>2, <1>3 DEF OnlyMem
<1> QED BY <1>4, <1>5 DEF q

(* A field set to what it is.                                              *)
LEMMA NoChange ==
  ASSUME NEW m \in Machines, NEW v, v = m.sc[9].val
  PROVE  [m EXCEPT !.sc[9].val = v] = m
<1> DEFINE x == [m.sc[9] EXCEPT !.val = v]
           sc == [m.sc EXCEPT ![9] = x]
<1>1. m.sc[9] \in [reg : Plain \cup {0}, val : 0 .. V] /\ m.sc \in [Scratch -> [reg : Plain \cup {0}, val : 0 .. V]]
  BY ScratchFields, MachineFields DEF Scratch
<1>2. x = m.sc[9]
  BY <1>1
<1>3. sc = m.sc
  BY <1>1, <1>2
<1>4. [m EXCEPT !.sc = sc] = m
  BY <1>3 DEF Machines
<1> QED BY <1>4 DEF Machines

(* The state a store's path begins with.                                   *)
LEMMA StorePrepared ==
  ASSUME NEW m0, Good(m0), NEW i \in Instructions
  PROVE  LET m == reg_cache_invalidate(m0) IN
         /\ Kept(m0, m) /\ HostOK(m) /\ CopiesOK(m) /\ BaseOK(m) /\ ConstsOK(m) /\ KnownOK(m)
         /\ (\A s \in Scratch : m.sc[s] = Nothing) /\ (\A r : NoStale(m, r))
         /\ (\A r \in Src : Operand(m, r) = Operand(m0, r)) /\ m.dirty = m0.dirty /\ m.lazy = m0.lazy /\ m.loaded = m0.loaded
         /\ m.k = m0.k /\ m.known = m0.known
<1> DEFINE m == reg_cache_invalidate(m0)
<1>1. HostOK(m0) /\ BaseOK(m0) /\ ConstsOK(m0) /\ KnownOK(m0)
  BY DEF Good
<1>2. /\ SameHost(m0, m) /\ Kept(m0, m) /\ CopiesOK(m) /\ m.hb = m0.hb
      /\ (\A s \in Scratch : m.sc[s] = Nothing) /\ (\A r : NoStale(m, r))
  BY <1>1, InvalidateFields
<1> HIDE DEF m
<1>3. BaseOK(m) /\ ConstsOK(m) /\ KnownOK(m) /\ \A r \in Src : Operand(m, r) = Operand(m0, r)
  BY <1>1, <1>2, BaseKept, KeptBeliefs
<1> QED BY <1>2, <1>3 DEF m, SameHost

(* A store to a known RAM address, over code or not.                       *)
LEMMA WriteConstRamDoes ==
  ASSUME NEW m0, Good(m0), NEW i \in Instructions, NEW e \in Encounters,
         ~(e.code /\ e.slow /\ i.rt \in Plain)
  PROVE  LET m == reg_cache_invalidate(m0) IN
         ConstTo(m, i, Ram) =>
           Did(m0, WriteConstRam(m, i, e), 0, 0, m0.hi, Poke(m0, Operand(m0, i.rs), Operand(m0, i.rt)).mem)
<1> DEFINE m == reg_cache_invalidate(m0)
           n == NoBase(m)
           cst == emit_load_psx_reg(n, i.rt, 9)
           f == flush_dirty_consts(cst)
           smc == [f EXCEPT !.sc[9].val = IF e.slow THEN Junk ELSE @]
           p == IF e.code THEN smc ELSE cst
           a == Operand(m0, i.rs)
           b == Operand(m0, i.rt)
<1>i. i.rt \in Src /\ i.rs \in Src /\ 9 \in Scratch
  BY CompilerConstants DEF Scratch
<1>1. /\ Kept(m0, m) /\ HostOK(m) /\ CopiesOK(m) /\ ConstsOK(m) /\ (\A r : NoStale(m, r))
      /\ Operand(m, i.rs) = a /\ Operand(m, i.rt) = b
  BY <1>i, StorePrepared
<1> SUFFICES ASSUME ConstTo(m, i, Ram) PROVE Did(m0, WriteConstRam(m, i, e), 0, 0, m0.hi, Poke(m0, a, b).mem)
  OBVIOUS
<1> HIDE DEF m
<1>2. get_vreg_const(m, i.rs) = a /\ Value(m, i.rt, 9) = b /\ b \in Words
  BY <1>1, <1>i, ConstIs, ValueIs, OperandWord DEF ConstTo, Good
<1>3. Kept(m, n) /\ CopiesOK(n) /\ n.hb = Nothing
  BY <1>1, NoBaseFields
<1> HIDE DEF n
<1>4. HostOK(n) /\ NoStale(n, i.rt)
  BY <1>1, <1>3, KeptBeliefs DEF Kept
<1>5. Kept(n, cst) /\ CopiesOK(cst) /\ cst.hb.reg = n.hb.reg /\ (i.rt \notin Plain => cst.sc[9] = Nothing)
  BY <1>3, <1>4, <1>i, LoadReg
<1> HIDE DEF cst
<1>6. Kept(cst, f) /\ CopiesOK(f) /\ f.hb = cst.hb /\ f.sc[9] \in {Nothing, cst.sc[9]} /\ f \in Machines
  BY <1>5, <1>i, FlushConsts DEF Kept, HostOK
<1> HIDE DEF f
<1>7. e.code => smc = f
  <2> SUFFICES ASSUME e.code PROVE smc = f
    OBVIOUS
  <2> DEFINE w == IF e.slow THEN Junk ELSE f.sc[9].val
  <2>1. w = f.sc[9].val
    BY <1>5, <1>6, NothingIsACopy
  <2>2. smc = [f EXCEPT !.sc[9].val = w]
    BY <1>6, <1>i, MachineFields
  <2> HIDE DEF w
  <2> QED BY <1>6, <2>1, <2>2, NoChange
<1>8. Kept(m0, p) /\ CopiesOK(p) /\ p.hb.reg = 0
  <2>1. Kept(m0, cst) /\ cst.hb.reg = 0
    BY <1>1, <1>3, <1>5, KeptTwice, NothingIsACopy
  <2>2. Kept(m0, f)
    BY <2>1, <1>6, KeptTwice
  <2>3. p = f \/ p = cst
    BY <1>7
  <2> HIDE DEF p
  <2> QED BY <2>1, <2>2, <2>3, <1>5, <1>6
<1>9. WriteConstRam(m, i, e) = Poke(p, a, b)
  BY <1>2 DEF WriteConstRam, p, smc, f, cst, n
<1> HIDE DEF p, a, b
<1>10. BaseOK(p)
  BY <1>8 DEF BaseOK
<1> QED BY <1>2, <1>8, <1>9, <1>10, PokeDoes

(* Where the flushed constants went.                                       *)
LEMMA FlushedHome ==
  ASSUME NEW m \in Machines
  PROVE  LET f == flush_dirty_consts(m) IN
         f.home = [r \in Homed |-> IF Holds(m, r) THEN m.k[r] ELSE m.home[r]]
<1> DEFINE home == [r \in Homed |-> IF Holds(m, r) THEN m.k[r] ELSE m.home[r]]
           regs == [r \in Regs |-> IF Holds(m, r) /\ r \in Plain THEN m.k[r] ELSE m.regs[r]]
           g == [m EXCEPT !.lazy = {}, !.dirty = m.dirty \cup (m.lazy \cap Slotted),
                          !.loaded = m.loaded \cup (m.lazy \cap Slotted), !.home = home, !.regs = regs]
<1>1. flush_dirty_consts(m) = Forget(g, m.lazy \cap Plain)
  BY DEF flush_dirty_consts
<1> HIDE DEF home, regs
<1>2. g.home = home /\ DOMAIN g = DOMAIN m
  BY DEF Machines
<1>3. flush_dirty_consts(m).home = home
  BY <1>1, <1>2 DEF Forget, Machines
<1> QED BY <1>3 DEF home

(* The two sides of a split leave the same host registers.                 *)
LEMMA SplitHome ==
  ASSUME NEW m, HostOK(m), NEW slow
  PROVE  Split(m, slow).home = flush_dirty_consts(m).home
<1> DEFINE n == NoBase(m)
           f == flush_dirty_consts(n)
           u == flush_dirty_consts(f)
           d == dyn_flush_dirty_slots(u)
           c == reg_cache_invalidate(d)
           g == [c EXCEPT !.hb = Nothing]
           h == flush_dirty_consts(m).home
<1>1. n \in Machines /\ HostOK(n) /\ n.lazy = m.lazy /\ n.k = m.k /\ n.home = m.home /\ m \in Machines
  BY NoBaseFields DEF SameHost, HostOK
<1> HIDE DEF n
<1>2. f.home = h
  <2>1. f.home = [r \in Homed |-> IF Holds(n, r) THEN n.k[r] ELSE n.home[r]]
    BY <1>1, FlushedHome
  <2>2. h = [r \in Homed |-> IF Holds(m, r) THEN m.k[r] ELSE m.home[r]]
    BY <1>1, FlushedHome
  <2>3. \A r : Holds(n, r) <=> Holds(m, r)
    BY <1>1 DEF Holds
  <2> HIDE DEF f, h
  <2> QED BY <1>1, <2>1, <2>2, <2>3
<1>3. HostOK(f) /\ f \in Machines /\ f.lazy = {}
  BY <1>1, FlushConsts DEF Kept, HostOK
<1> HIDE DEF f
<1>4. u.home = f.home
  <2>1. u.home = [r \in Homed |-> IF Holds(f, r) THEN f.k[r] ELSE f.home[r]]
    BY <1>3, FlushedHome
  <2>2. \A r : ~Holds(f, r)
    BY <1>3 DEF Holds
  <2> QED BY <2>1, <2>2, <1>3, MachineFields
<1>5. HostOK(u)
  BY <1>3, FlushConsts DEF Kept
<1> HIDE DEF u
<1>6. d.home = u.home /\ HostOK(d)
  BY <1>5, FlushSlots DEF Kept
<1> HIDE DEF d
<1>7. c.home = d.home /\ c \in Machines
  BY <1>6, InvalidateFields DEF SameHost, HostOK
<1> HIDE DEF c
<1>8. g.home = c.home /\ g \in Machines
  BY <1>7, NothingIsACopy DEF Machines
<1>9. Split(m, slow) = IF slow THEN g ELSE [g EXCEPT !.regs = f.regs]
  BY DEF Split, emit_call_c_lite, g, c, d, u, f, n
<1> HIDE DEF g, h
<1>10. Split(m, slow).home = g.home
  BY <1>8, <1>9 DEF Machines
<1> QED BY <1>2, <1>4, <1>6, <1>7, <1>8, <1>10 DEF h

(* No slot is dirty at a split and none is loaded on one side only; no     *)
(* mask is left in T9 as the copy of a register.                           *)
NoDeviceHazard(m, i, e) ==
  ConstTo(m, i, {Io}) =>
    /\ e.dev = "split" => flush_dirty_consts(m).dirty = {} /\ i.rt \notin Slotted \ m.loaded
    /\ e.dev = "mask" => i.rt \notin Plain

(* A store to a known device register.                                     *)
LEMMA WriteDeviceDoes ==
  ASSUME NEW m0, Good(m0), NEW i \in Instructions, NEW e \in Encounters, e.dev # "other",
         e.dev = "split" => flush_dirty_consts(m0).dirty = {} /\ i.rt \notin Slotted \ m0.loaded,
         e.dev = "mask" => i.rt \notin Plain
  PROVE  Did(m0, WriteDevice(reg_cache_invalidate(m0), i, e), 0, 0, m0.hi, m0.mem)
<1> DEFINE m == reg_cache_invalidate(m0)
           q == WriteDevice(m, i, e)
<1>e. e.slow \in BOOLEAN /\ e.dev \in {"field", "mask", "split", "call"}
  BY DEF Encounters
<1>i. i.rt \in Src /\ 9 \in Scratch /\ 8 \in Scratch
  BY CompilerConstants DEF Scratch
<1>1. /\ Kept(m0, m) /\ HostOK(m) /\ CopiesOK(m) /\ (\A r : NoStale(m, r)) /\ (\A s \in Scratch : m.sc[s] = Nothing)
      /\ m.dirty = m0.dirty /\ m.lazy = m0.lazy /\ m.loaded = m0.loaded
  BY StorePrepared
<1> HIDE DEF m
<1>2. SUFFICES Kept(m, q) /\ CopiesOK(q) /\ q.hb.reg = 0
  <2>1. Kept(m0, q)
    BY <1>1, <1>2, KeptTwice
  <2>2. BaseOK(q)
    BY <1>2 DEF BaseOK
  <2> HIDE DEF q
  <2>3. Did(m0, q, 0, 0, m0.hi, m0.mem)
    BY <1>2, <2>1, <2>2, KeptDid
  <2> QED BY <2>3 DEF q, m
<1>3. CASE e.dev = "field"
  <2> DEFINE p == emit_use_reg(m, i.rt, 9)
  <2>1. q = NoBase(p)
    BY <1>3 DEF WriteDevice
  <2>2. Kept(m, p) /\ CopiesOK(p) /\ HostOK(p)
    BY <1>1, <1>i, UseReg DEF Kept
  <2> HIDE DEF p, q
  <2>3. Kept(p, q) /\ CopiesOK(q) /\ q.hb = Nothing
    BY <2>1, <2>2, NoBaseFields
  <2> QED BY <2>2, <2>3, KeptTwice, NothingIsACopy
<1>4. CASE e.dev = "mask"
  <2> DEFINE n == NoBase(m)
             p == emit_load_psx_reg(n, i.rt, 9)
  <2>1. Kept(m, n) /\ CopiesOK(n) /\ n.hb = Nothing
    BY <1>1, NoBaseFields
  <2>2. HostOK(n) /\ NoStale(n, i.rt)
    BY <1>1, <2>1, KeptBeliefs DEF Kept
  <2>3. q = [p EXCEPT !.sc[9].val = Junk]
    BY <1>4 DEF WriteDevice
  <2> HIDE DEF n
  <2>4. Kept(n, p) /\ CopiesOK(p) /\ p.hb.reg = n.hb.reg /\ p.sc[9] = Nothing /\ p \in Machines
    BY <1>4, <2>1, <2>2, <1>i, LoadReg DEF Kept, HostOK
  <2> HIDE DEF p
  <2>5. q = p
    BY <2>3, <2>4, NothingIsACopy, NoChange
  <2> HIDE DEF q
  <2> QED BY <2>1, <2>4, <2>5, KeptTwice, NothingIsACopy
<1>5. CASE e.dev = "split"
  <2>0. flush_dirty_consts(m0).dirty = m0.dirty \cup (m0.lazy \cap Slotted) /\ flush_dirty_consts(m).dirty = m.dirty \cup (m.lazy \cap Slotted)
    BY <1>1, FlushConsts DEF Good
  <2>c. flush_dirty_consts(m).dirty = {} /\ i.rt \notin Slotted \ m.loaded
    BY <1>1, <1>5, <2>0
  <2> DEFINE s == Split(m, e.slow)
             f == flush_dirty_consts(m)
             l == s.loaded \cup ({i.rt} \cap Slotted)
             h == [r \in Homed |-> IF r = i.rt /\ e.slow THEN Settled(f, r) ELSE s.home[r]]
  <2>1. q = [s EXCEPT !.loaded = l, !.home = h]
    BY <1>5 DEF WriteDevice
  <2>2. Kept(m, s) /\ CopiesOK(s) /\ s.hb = Nothing /\ s.loaded = m.loaded \cup (m.lazy \cap Slotted) /\ s \in Machines
    BY <1>1, <2>c, <1>e, SplitKept DEF Kept, HostOK
  <2>3. s.home = f.home
    BY <1>1, SplitHome
  <2>4. f.loaded = m.loaded \cup (m.lazy \cap Slotted)
    BY <1>1, FlushConsts
  <2> HIDE DEF s, f
  <2>5. l = s.loaded
    BY <2>2, <2>c
  <2>6. h = s.home
    <3>1. ASSUME NEW r \in Homed, r = i.rt PROVE Settled(f, r) = s.home[r]
      BY <3>1, <2>3, <2>4, <2>c, CompilerConstants DEF Settled
    <3> QED BY <3>1, <2>2, MachineFields
  <2>7. q = s
    <3>1. q = [s EXCEPT !.loaded = s.loaded, !.home = s.home]
      BY <2>1, <2>5, <2>6
    <3> HIDE DEF q
    <3> QED BY <2>2, <3>1 DEF Machines
  <2> HIDE DEF q
  <2> QED BY <2>2, <2>7, NothingIsACopy
<1>6. CASE e.dev = "call"
  <2> DEFINE p == IF i.rt \in Slotted THEN emit_use_reg(m, i.rt, 8) ELSE m
  <2>1. q = emit_call_c_lite(p)
    BY <1>6 DEF WriteDevice
  <2>2. Kept(m, p) /\ HostOK(p)
    <3>1. CASE i.rt \in Slotted
      BY <3>1, <1>1, <1>i, UseReg DEF Kept
    <3>2. CASE i.rt \notin Slotted
      BY <3>2, <1>1, KeptSelf
    <3> QED BY <3>1, <3>2
  <2> HIDE DEF p, q
  <2>3. Kept(p, q) /\ CopiesOK(q) /\ q.hb = Nothing
    BY <2>1, <2>2, CallLite
  <2> QED BY <2>2, <2>3, KeptTwice, NothingIsACopy
<1> QED BY <1>e, <1>3, <1>4, <1>5, <1>6

(* A store through a pointer known to be in RAM.                           *)
LEMMA WriteKnownDoes ==
  ASSUME NEW m0, Good(m0), NEW i \in Instructions, NEW e
  PROVE  LET m == reg_cache_invalidate(m0) IN
         KnownPath(m, i) =>
           /\ Operand(m0, i.rs) \in Ram
           /\ Did(m0, WriteKnown(m, i, e), 0, 0, m0.hi, Poke(m0, Operand(m0, i.rs), Operand(m0, i.rt)).mem)
<1> DEFINE m == reg_cache_invalidate(m0)
           data == emit_use_reg(m, i.rt, 9)
           base == IF i.rt \notin Plain /\ data.hb.reg = i.rs THEN data
                   ELSE IF i.rt \notin Plain THEN SetBase(emit_use_reg(data, i.rs, 8), i.rs, Value(data, i.rs, 8))
                   ELSE NoBase(emit_use_reg(data, i.rs, 8))
           a == Operand(m0, i.rs)
           b == Operand(m0, i.rt)
<1>i. i.rt \in Src /\ i.rs \in Src /\ 9 \in Scratch /\ 8 \in Scratch
  BY CompilerConstants DEF Scratch
<1>1. /\ Kept(m0, m) /\ HostOK(m) /\ CopiesOK(m) /\ BaseOK(m) /\ KnownOK(m) /\ (\A r : NoStale(m, r))
      /\ Operand(m, i.rs) = a /\ Operand(m, i.rt) = b
  BY <1>i, StorePrepared
<1> SUFFICES ASSUME KnownPath(m, i)
             PROVE  a \in Ram /\ Did(m0, WriteKnown(m, i, e), 0, 0, m0.hi, Poke(m0, a, b).mem)
  OBVIOUS
<1> HIDE DEF m
<1>2. i.rs \in m.known /\ i.rs \in Regs /\ i.rs # 0
  BY <1>1, MachineFields, CompilerConstants DEF KnownPath, HostOK
<1>3. a = Sees(m, i.rs) /\ a \in Ram /\ b \in Words /\ Value(m, i.rs, 8) = a /\ Value(m, i.rt, 9) = b
  BY <1>1, <1>2, <1>i, ValueIs, OperandWord DEF Operand, KnownOK, Good
<1>4. Kept(m, data) /\ CopiesOK(data) /\ HostOK(data) /\ (i.rt \notin Plain => data.hb = m.hb)
  BY <1>1, <1>i, UseReg DEF Kept
<1> HIDE DEF data
<1>5. NoStale(data, i.rs) /\ Sees(data, i.rs) = a
  BY <1>1, <1>2, <1>3, <1>4, KeptBeliefs DEF Kept
<1>6. /\ Kept(m, base) /\ CopiesOK(base) /\ BaseOK(base)
      /\ (IF base.hb.reg = i.rs THEN base.hb.val ELSE a) = a
  <2>1. CASE i.rt \notin Plain /\ data.hb.reg = i.rs
    <3>1. BaseOK(data)
      BY <2>1, <1>1, <1>4, BaseKept
    <3> QED BY <2>1, <3>1, <1>2, <1>4, <1>5 DEF BaseOK
  <2>2. CASE i.rt \notin Plain /\ data.hb.reg # i.rs
    <3> DEFINE x == SetBase(emit_use_reg(data, i.rs, 8), i.rs, Value(data, i.rs, 8))
    <3>1. Kept(data, x) /\ CopiesOK(x) /\ BaseOK(x) /\ x.hb.val = a
      BY <1>2, <1>4, <1>5, BaseOfKnown
    <3>2. base = x
      BY <2>2
    <3> HIDE DEF base, x
    <3> QED BY <3>1, <3>2, <1>4, KeptTwice
  <2>3. CASE i.rt \in Plain
    <3> DEFINE u == emit_use_reg(data, i.rs, 8)
               x == NoBase(u)
    <3>1. Kept(data, u) /\ CopiesOK(u) /\ HostOK(u)
      BY <1>i, <1>4, <1>5, UseReg DEF Kept
    <3>2. base = x
      BY <2>3
    <3> HIDE DEF u
    <3>3. Kept(u, x) /\ CopiesOK(x) /\ BaseOK(x) /\ x.hb.reg = 0
      BY <3>1, NoBaseFields, NothingIsACopy
    <3> HIDE DEF base, x
    <3>4. Kept(m, x)
      BY <3>1, <3>3, <1>4, KeptTwice
    <3> QED BY <3>2, <3>3, <3>4, <1>2
  <2> QED BY <2>1, <2>2, <2>3
<1> HIDE DEF base
<1>7. WriteKnown(m, i, e) = Poke(base, a, b)
  BY <1>3, <1>6 DEF WriteKnown, base, data
<1>8. Kept(m0, base)
  BY <1>1, <1>6, KeptTwice
<1>9. Did(m0, Poke(base, a, b), 0, 0, m0.hi, Poke(m0, a, b).mem)
  BY <1>3, <1>6, <1>8, PokeDoes
<1> QED BY <1>3, <1>7, <1>9

(* A store through an unknown pointer.                                     *)
LEMMA WriteGenericDoes ==
  ASSUME NEW m0, Good(m0), NEW i \in Instructions, NEW e
  PROVE  Did(m0, WriteGeneric(reg_cache_invalidate(m0), i, e), 0, 0, m0.hi,
             Poke(m0, Operand(m0, i.rs), Operand(m0, i.rt)).mem)
<1> DEFINE m == reg_cache_invalidate(m0)
           n == NoBase(m)
           gen == emit_use_reg(n, i.rs, 8)
           u == emit_load_psx_reg(gen, i.rt, 9)
           f == flush_dirty_consts(u)
           p == reg_cache_invalidate(f)
           a == Operand(m0, i.rs)
           b == Operand(m0, i.rt)
<1>i. i.rt \in Src /\ i.rs \in Src /\ 9 \in Scratch /\ 8 \in Scratch
  BY CompilerConstants DEF Scratch
<1>1. /\ Kept(m0, m) /\ HostOK(m) /\ CopiesOK(m) /\ (\A r : NoStale(m, r))
      /\ Operand(m, i.rs) = a /\ Operand(m, i.rt) = b
  BY <1>i, StorePrepared
<1> HIDE DEF m
<1>2. Kept(m, n) /\ CopiesOK(n) /\ n.hb = Nothing
  BY <1>1, NoBaseFields
<1> HIDE DEF n
<1>3. HostOK(n) /\ NoStale(n, i.rs) /\ NoStale(n, i.rt) /\ Operand(n, i.rt) = b
  BY <1>1, <1>2, <1>i, KeptBeliefs DEF Kept
<1>4. Kept(n, gen) /\ CopiesOK(gen) /\ gen.hb = n.hb
  BY <1>2, <1>3, <1>i, UseReg
<1> HIDE DEF gen
<1>5. HostOK(gen) /\ NoStale(gen, i.rt) /\ Operand(gen, i.rt) = b
  BY <1>3, <1>4, <1>i, KeptBeliefs DEF Kept
<1>6. Value(m, i.rs, 8) = a /\ Value(gen, i.rt, 9) = b /\ b \in Words
  BY <1>1, <1>4, <1>5, <1>i, ValueIs, OperandWord
<1>7. Kept(gen, u) /\ u.hb.reg = gen.hb.reg
  BY <1>4, <1>5, <1>i, LoadReg
<1> HIDE DEF u
<1>8. Kept(u, f) /\ f.hb = u.hb
  BY <1>7, FlushConsts DEF Kept
<1> HIDE DEF f
<1>9. Kept(f, p) /\ CopiesOK(p) /\ p.hb = f.hb
  BY <1>8, InvalidateFields DEF Kept
<1> HIDE DEF p
<1>10. Kept(m0, p) /\ BaseOK(p)
  <2>1. Kept(m0, gen)
    BY <1>1, <1>2, <1>4, KeptTwice
  <2>2. Kept(gen, p)
    BY <1>7, <1>8, <1>9, KeptTwice
  <2>3. Kept(m0, p)
    BY <2>1, <2>2, KeptTwice
  <2> QED BY <2>3, <1>2, <1>4, <1>7, <1>8, <1>9, NothingIsACopy DEF BaseOK
<1>11. WriteGeneric(m, i, e) = Poke(p, a, b)
  BY <1>6 DEF WriteGeneric, p, f, u, gen, n
<1> HIDE DEF a, b
<1>12. Did(m0, Poke(p, a, b), 0, 0, m0.hi, Poke(m0, a, b).mem)
  BY <1>6, <1>9, <1>10, PokeDoes
<1> QED BY <1>11, <1>12 DEF a, b, m

(* Every store of an aligned word writes the operand at its address.       *)
LEMMA WriteDoes ==
  ASSUME NEW m0, Good(m0), NEW i \in Instructions, NEW e \in Encounters, NoDeviceHazard(m0, i, e),
         ~(e.code /\ e.slow /\ ConstTo(m0, i, Ram) /\ i.rt \in Plain)
  PROVE  Did(m0, emit_memory_write(m0, i, e), 0, 0, m0.hi, Poke(m0, Operand(m0, i.rs), Operand(m0, i.rt)).mem)
<1> DEFINE m == reg_cache_invalidate(m0)
           a == Operand(m0, i.rs)
           b == Operand(m0, i.rt)
<1>i. i.rt \in Src /\ i.rs \in Src
  BY CompilerConstants
<1>1. m.k = m0.k /\ ConstsOK(m) /\ Operand(m, i.rs) = a
  BY <1>i, StorePrepared
<1>c. \A as : ConstTo(m, i, as) <=> ConstTo(m0, i, as)
  BY <1>1 DEF ConstTo, is_vreg_const, get_vreg_const
<1>d. is_vreg_const(m, i.rs) => get_vreg_const(m, i.rs) = a
  BY <1>1, <1>i, ConstIs
<1>2. CASE ConstTo(m, i, Ram)
  <2>1. emit_memory_write(m0, i, e) = WriteConstRam(m, i, e)
    BY <1>2, CompilerConstants DEF emit_memory_write, ConstTo, KnownPath
  <2>2. ~(e.code /\ e.slow /\ i.rt \in Plain)
    BY <1>2, <1>c
  <2> QED BY <1>2, <2>1, <2>2, WriteConstRamDoes
<1>3. CASE ConstTo(m, i, {Io}) /\ e.dev # "other"
  <2>1. a = Io /\ a \notin Ram
    BY <1>3, <1>d, CompilerConstants DEF ConstTo
  <2>2. emit_memory_write(m0, i, e) = WriteDevice(m, i, e)
    BY <1>3, <1>d, <2>1 DEF emit_memory_write, ConstTo, KnownPath
  <2>3. ConstTo(m0, i, {Io})
    BY <1>3, <1>c
  <2>4. Did(m0, WriteDevice(m, i, e), 0, 0, m0.hi, m0.mem)
    BY <1>3, <2>3, WriteDeviceDoes DEF NoDeviceHazard
  <2>5. Poke(m0, a, b).mem = m0.mem
    BY <2>1 DEF Poke
  <2> QED BY <2>2, <2>4, <2>5
<1>4. CASE KnownPath(m, i)
  <2>1. emit_memory_write(m0, i, e) = WriteKnown(m, i, e)
    BY <1>4 DEF emit_memory_write, KnownPath, ConstTo
  <2> QED BY <1>4, <2>1, WriteKnownDoes
<1>5. CASE ~ConstTo(m, i, Ram) /\ ~(ConstTo(m, i, {Io}) /\ e.dev # "other") /\ ~KnownPath(m, i)
  <2>1. emit_memory_write(m0, i, e) = WriteGeneric(m, i, e)
    BY <1>5 DEF emit_memory_write
  <2> QED BY <2>1, WriteGenericDoes
<1> QED BY <1>2, <1>3, <1>4, <1>5

(* SWL and SWR merge with the word in memory.                              *)
LEMMA SwxDoes ==
  ASSUME NEW m0, Good(m0), NEW i \in Instructions, NEW e
  PROVE  Did(m0, emit_memory_swx(m0, i, e), 0, 0, m0.hi,
             Poke(m0, Operand(m0, i.rs), Sum(At(m0, Operand(m0, i.rs)), Operand(m0, i.rt))).mem)
<1> DEFINE c == reg_cache_invalidate(m0)
           m == NoBase(c)
           p == emit_load_psx_reg(m, i.rs, 8)
           u == emit_load_psx_reg(p, i.rt, 9)
           f == flush_dirty_consts(u)
           q == reg_cache_invalidate(f)
           a == Operand(m0, i.rs)
           b == Operand(m0, i.rt)
           v == Sum(At(m0, a), b)
<1>i. i.rt \in Src /\ i.rs \in Src /\ 9 \in Scratch /\ 8 \in Scratch
  BY CompilerConstants DEF Scratch
<1>1. /\ Kept(m0, c) /\ HostOK(c) /\ CopiesOK(c) /\ (\A r : NoStale(c, r))
      /\ Operand(c, i.rs) = a /\ Operand(c, i.rt) = b
  BY <1>i, StorePrepared
<1> HIDE DEF c
<1>2. Kept(c, m) /\ CopiesOK(m) /\ m.hb = Nothing
  BY <1>1, NoBaseFields
<1> HIDE DEF m
<1>3. /\ HostOK(m) /\ NoStale(m, i.rs) /\ NoStale(m, i.rt) /\ Operand(m, i.rs) = a /\ Operand(m, i.rt) = b
  BY <1>1, <1>2, <1>i, KeptBeliefs DEF Kept
<1>4. Kept(m, p) /\ CopiesOK(p) /\ p.hb.reg = m.hb.reg
  BY <1>2, <1>3, <1>i, LoadReg
<1> HIDE DEF p
<1>5. HostOK(p) /\ NoStale(p, i.rt) /\ Operand(p, i.rt) = b
  BY <1>3, <1>4, <1>i, KeptBeliefs DEF Kept
<1>6. Value(m, i.rs, 8) = a /\ Value(p, i.rt, 9) = b /\ b \in Words
  BY <1>2, <1>3, <1>4, <1>5, <1>i, ValueIs, OperandWord
<1>7. Kept(p, u) /\ u.hb.reg = p.hb.reg
  BY <1>4, <1>5, <1>i, LoadReg
<1> HIDE DEF u
<1>8. Kept(u, f) /\ f.hb = u.hb
  BY <1>7, FlushConsts DEF Kept
<1> HIDE DEF f
<1>9. Kept(f, q) /\ CopiesOK(q) /\ q.hb = f.hb
  BY <1>8, InvalidateFields DEF Kept
<1> HIDE DEF q
<1>10. Kept(m0, q) /\ BaseOK(q) /\ m.mem = m0.mem
  <2>0. Kept(m0, m)
    BY <1>1, <1>2, KeptTwice
  <2>1. Kept(m0, p)
    BY <2>0, <1>4, KeptTwice
  <2>2. Kept(p, q)
    BY <1>7, <1>8, <1>9, KeptTwice
  <2>3. Kept(m0, q)
    BY <2>1, <2>2, KeptTwice
  <2>4. Rest(m) = Rest(m0)
    BY <2>0 DEF Kept
  <2>5. m.mem = m0.mem
    BY <2>4, RestIs
  <2>6. q.hb.reg = 0
    BY <1>2, <1>4, <1>7, <1>8, <1>9, NothingIsACopy
  <2> QED BY <2>3, <2>5, <2>6 DEF BaseOK
<1>11. emit_memory_swx(m0, i, e) = Poke(q, a, v)
  <2>1. At(m, a) = At(m0, a)
    BY <1>10 DEF At
  <2> QED BY <1>6, <2>1 DEF emit_memory_swx, q, f, u, p, m, c
<1>12. a \in Ram => v \in Words
  BY <1>6, MachineFields, SumWord DEF At, Good, HostOK
<1> HIDE DEF a, v
<1>13. Did(m0, Poke(q, a, v), 0, 0, m0.hi, Poke(m0, a, v).mem)
  BY <1>9, <1>10, <1>12, PokeDoes
<1> QED BY <1>11, <1>13 DEF a, b, v

-----------------------------------------------------------------------------
(* interpreter.c                                                           *)
Loads == [reg : Src, val : 0 .. V]
Processors ==
  [regs : [Regs -> Words], hi : Words, mem : [Ram -> Words], delay : Loads, commit : Loads,
   cond : 0 .. V, trap : BOOLEAN]
ItpOK(it) ==
  /\ it \in Processors
  /\ it.delay.reg # 0 => it.delay.val \in Words
  /\ it.commit.reg # 0 => it.commit.val \in Words

(* The interpreter's state and its types.                                  *)
LEMMA ProcessorFields ==
  ASSUME NEW it \in Processors
  PROVE  /\ it.regs \in [Regs -> Words] /\ it.hi \in Words /\ it.mem \in [Ram -> Words]
         /\ it.delay \in Loads /\ it.commit \in Loads /\ it.cond \in 0 .. V /\ it.trap \in BOOLEAN
BY DEF Processors

(* A load in flight and its types.                                         *)
LEMMA LoadFields ==
  /\ Nothing \in Loads
  /\ \A l \in Loads : l.reg \in Src /\ (l.reg # 0 => l.reg \in Regs)
BY NothingIsACopy DEF Loads, Src

(* The register file with the load before last in it.                      *)
LEMMA PipelineIs ==
  ASSUME NEW it, ItpOK(it)
  PROVE  LET p == Pipeline(it) IN
         /\ ItpOK(p) /\ p.delay = Nothing /\ p.commit = it.delay
         /\ p.hi = it.hi /\ p.mem = it.mem /\ p.cond = it.cond /\ p.trap = it.trap
         /\ \A r \in Regs : p.regs[r] = IF it.commit.reg = r /\ it.delay.reg # r THEN it.commit.val ELSE it.regs[r]
<1> DEFINE regs == IF it.commit.reg \notin {0, it.delay.reg}
                     THEN [it.regs EXCEPT ![it.commit.reg] = it.commit.val] ELSE it.regs
           p == Pipeline(it)
<1>1. it \in Processors
  BY DEF ItpOK
<1>2. p = [it EXCEPT !.regs = regs, !.commit = it.delay, !.delay = Nothing]
  BY DEF Pipeline
<1>3. regs \in [Regs -> Words] /\ \A r \in Regs : regs[r] = IF it.commit.reg = r /\ it.delay.reg # r THEN it.commit.val ELSE it.regs[r]
  <2>1. it.regs \in [Regs -> Words] /\ it.commit \in Loads
    BY <1>1, ProcessorFields
  <2>2. it.commit.reg # 0 => it.commit.reg \in Regs /\ it.commit.val \in Words
    BY <2>1, LoadFields DEF ItpOK
  <2>3. 0 \notin Regs
    BY CompilerConstants
  <2> QED BY <2>1, <2>2, <2>3
<1> HIDE DEF regs
<1>4. p \in Processors
  BY <1>1, <1>2, <1>3, LoadFields DEF Processors
<1>5. p.regs = regs /\ p.delay = Nothing /\ p.commit = it.delay
      /\ p.hi = it.hi /\ p.mem = it.mem /\ p.cond = it.cond /\ p.trap = it.trap
  BY <1>1, <1>2 DEF Processors
<1> HIDE DEF p
<1>6. ItpOK(p)
  BY <1>4, <1>5, NothingIsACopy DEF ItpOK
<1> QED BY <1>3, <1>5, <1>6 DEF p

(* The register file with every load in it.                                *)
LEMMA DrainedIs ==
  ASSUME NEW it, ItpOK(it)
  PROVE  LET p == Drained(it) IN
         /\ ItpOK(p) /\ p.delay = Nothing /\ p.commit = Nothing
         /\ p.hi = it.hi /\ p.mem = it.mem /\ p.cond = it.cond /\ p.trap = it.trap
         /\ \A r \in Regs : p.regs[r] = IF it.delay.reg = r THEN it.delay.val
                                        ELSE IF it.commit.reg = r THEN it.commit.val ELSE it.regs[r]
<1> DEFINE o == Pipeline(it)
           p == Pipeline(o)
<1>1. /\ ItpOK(o) /\ o.delay = Nothing /\ o.commit = it.delay
      /\ o.hi = it.hi /\ o.mem = it.mem /\ o.cond = it.cond /\ o.trap = it.trap
      /\ \A r \in Regs : o.regs[r] = IF it.commit.reg = r /\ it.delay.reg # r THEN it.commit.val ELSE it.regs[r]
  BY PipelineIs
<1> HIDE DEF o
<1>2. /\ ItpOK(p) /\ p.delay = Nothing /\ p.commit = o.delay
      /\ p.hi = o.hi /\ p.mem = o.mem /\ p.cond = o.cond /\ p.trap = o.trap
      /\ \A r \in Regs : p.regs[r] = IF o.commit.reg = r /\ o.delay.reg # r THEN o.commit.val ELSE o.regs[r]
  BY <1>1, PipelineIs
<1> HIDE DEF p
<1>3. \A r \in Regs : r # 0
  BY CompilerConstants
<1>4. ASSUME NEW r \in Regs
      PROVE  p.regs[r] = IF it.delay.reg = r THEN it.delay.val ELSE IF it.commit.reg = r THEN it.commit.val ELSE it.regs[r]
  BY <1>1, <1>2, <1>3, NothingIsACopy
<1> QED BY <1>1, <1>2, <1>4 DEF Drained, o, p

(* An instruction that is no load: register r becomes v, and a load of r   *)
(* still in flight is cancelled.                                           *)
IDid(p, it, r, v, hi, mem) ==
  /\ ItpOK(it) /\ \A x \in Regs : it.regs[x] = IF x = r THEN v ELSE p.regs[x]
  /\ it.commit = (IF r # 0 /\ p.commit.reg = r THEN Nothing ELSE p.commit) /\ it.delay = p.delay
  /\ it.hi = hi /\ it.mem = mem /\ it.cond = p.cond /\ it.trap = p.trap

(* The interpreter writes a register.                                      *)
LEMMA IWriteDoes ==
  ASSUME NEW p, ItpOK(p), NEW r \in Src, NEW v \in Words
  PROVE  IDid(p, IWrite(p, r, v), r, v, p.hi, p.mem)
<1> DEFINE it == IWrite(p, r, v)
<1>1. p \in Processors
  BY DEF ItpOK
<1>2. CASE r = 0
  <2>1. it = p
    BY <1>2 DEF IWrite
  <2>2. \A x \in Regs : x # 0
    BY CompilerConstants
  <2> QED BY <1>2, <2>1, <2>2 DEF IDid
<1>3. CASE r # 0
  <2> DEFINE regs == [p.regs EXCEPT ![r] = v]
             commit == IF p.commit.reg = r THEN Nothing ELSE p.commit
  <2>1. it = [p EXCEPT !.regs = regs, !.commit = commit]
    BY <1>3 DEF IWrite
  <2>2. regs \in [Regs -> Words] /\ \A x \in Regs : regs[x] = IF x = r THEN v ELSE p.regs[x]
    BY <1>1, ProcessorFields
  <2>3. commit \in Loads /\ (commit.reg # 0 => commit.val \in Words)
    BY <1>1, ProcessorFields, LoadFields, NothingIsACopy DEF ItpOK
  <2> HIDE DEF regs
  <2>4. it \in Processors
    BY <1>1, <2>1, <2>2, <2>3 DEF Processors
  <2>5. /\ it.regs = regs /\ it.commit = commit /\ it.delay = p.delay
        /\ it.hi = p.hi /\ it.mem = p.mem /\ it.cond = p.cond /\ it.trap = p.trap
    BY <1>1, <2>1 DEF Processors
  <2> HIDE DEF it
  <2>6. ItpOK(it)
    BY <2>3, <2>4, <2>5 DEF ItpOK
  <2> QED BY <1>3, <2>2, <2>5, <2>6 DEF IDid, it
<1> QED BY <1>2, <1>3

(* It writes HI.                                                           *)
LEMMA IHiDoes ==
  ASSUME NEW p, ItpOK(p), NEW v \in Words
  PROVE  IDid(p, [p EXCEPT !.hi = v], 0, 0, v, p.mem)
<1> DEFINE it == [p EXCEPT !.hi = v]
<1>1. p \in Processors /\ \A x \in Regs : x # 0
  BY CompilerConstants DEF ItpOK
<1>2. it \in Processors
  BY <1>1 DEF Processors
<1>3. /\ it.regs = p.regs /\ it.commit = p.commit /\ it.delay = p.delay
      /\ it.hi = v /\ it.mem = p.mem /\ it.cond = p.cond /\ it.trap = p.trap
  BY <1>1 DEF Processors
<1> HIDE DEF it
<1>4. ItpOK(it)
  BY <1>2, <1>3 DEF ItpOK
<1> QED BY <1>1, <1>3, <1>4 DEF IDid, it

(* It writes memory.                                                       *)
LEMMA IPokeDoes ==
  ASSUME NEW p, ItpOK(p), NEW a, NEW v, a \in Ram => v \in Words
  PROVE  /\ IDid(p, Poke(p, a, v), 0, 0, p.hi, Poke(p, a, v).mem)
         /\ Poke(p, a, v).mem = IF a \in Ram THEN [p.mem EXCEPT ![a] = v] ELSE p.mem
<1> DEFINE it == Poke(p, a, v)
<1>1. p \in Processors /\ \A x \in Regs : x # 0
  BY CompilerConstants DEF ItpOK
<1>2. CASE a \notin Ram
  <2>1. it = p
    BY <1>2 DEF Poke
  <2> QED BY <1>1, <1>2, <2>1 DEF IDid
<1>3. CASE a \in Ram
  <2> DEFINE mem == [p.mem EXCEPT ![a] = v]
  <2>1. it = [p EXCEPT !.mem = mem] /\ mem \in [Ram -> Words]
    BY <1>1, <1>3, ProcessorFields DEF Poke
  <2> HIDE DEF mem
  <2>2. it \in Processors
    BY <1>1, <2>1 DEF Processors
  <2>3. /\ it.regs = p.regs /\ it.commit = p.commit /\ it.delay = p.delay
        /\ it.hi = p.hi /\ it.mem = mem /\ it.cond = p.cond /\ it.trap = p.trap
    BY <1>1, <2>1 DEF Processors
  <2> HIDE DEF it
  <2>4. ItpOK(it)
    BY <2>2, <2>3 DEF ItpOK
  <2> QED BY <1>1, <1>3, <2>3, <2>4 DEF IDid, it, mem
<1> QED BY <1>2, <1>3

(* A load: the word is on its way to r.                                    *)
IGot(p, it, r, v) ==
  /\ ItpOK(it) /\ it.regs = p.regs /\ it.commit = p.commit /\ it.hi = p.hi /\ it.mem = p.mem
  /\ it.cond = p.cond /\ it.trap = p.trap
  /\ it.delay.reg = r /\ (r # 0 => it.delay.val = v)

(* It loads a register.                                                    *)
LEMMA ILoadDoes ==
  ASSUME NEW p, ItpOK(p), NEW r \in Src, NEW v \in Words, p.delay = Nothing
  PROVE  IGot(p, ILoad(p, r, v), r, v)
<1> DEFINE it == ILoad(p, r, v)
           l == [reg |-> r, val |-> v]
<1>1. p \in Processors
  BY DEF ItpOK
<1>2. CASE r = 0
  BY <1>2, NothingIsACopy DEF ILoad, IGot
<1>3. CASE r # 0
  <2>1. it = [p EXCEPT !.delay = l]
    BY <1>3 DEF ILoad
  <2>2. l \in Loads /\ l.reg = r /\ l.val = v
    BY CompilerConstants DEF Loads
  <2> HIDE DEF l
  <2>3. it \in Processors
    BY <1>1, <2>1, <2>2 DEF Processors
  <2>4. /\ it.regs = p.regs /\ it.commit = p.commit /\ it.delay = l
        /\ it.hi = p.hi /\ it.mem = p.mem /\ it.cond = p.cond /\ it.trap = p.trap
    BY <1>1, <2>1 DEF Processors
  <2> HIDE DEF it
  <2>5. ItpOK(it)
    BY <2>2, <2>3, <2>4 DEF ItpOK
  <2> QED BY <2>2, <2>4, <2>5 DEF IGot, it
<1> QED BY <1>2, <1>3

-----------------------------------------------------------------------------
(* dynarec_compile.c: a load that is deferred, and the one before it.      *)
OnlyPend(m, q, pd, l) ==
  /\ SameRegs(m, q) /\ q.pend = pd /\ q.ldv = l
  /\ q.hi = m.hi /\ q.mem = m.mem /\ q.cond = m.cond /\ q.trap = m.trap

(* What is pending changes alone.                                          *)
LEMMA SetPend ==
  ASSUME NEW m \in Machines, NEW pd \in [reg : Src, now : BOOLEAN], NEW l \in Words, NEW v \in Words
  PROVE  OnlyPend(m, [m EXCEPT !.pend = pd, !.ldv = l, !.v0 = v], pd, l)
BY DEF Machines, SameRegs, OnlyPend

SameRest(m, it) == m.mem = it.mem /\ m.hi = it.hi /\ m.cond = it.cond /\ m.trap = it.trap
NoPend == [reg |-> 0, now |-> FALSE]
(* Nothing pending.                                                        *)
LEMMA NoPendIs == NoPend \in [reg : Src, now : BOOLEAN] /\ NoPend.reg = 0
BY DEF NoPend, Src

(* What is pending and its types.                                          *)
LEMMA PendFields ==
  ASSUME NEW m, HostOK(m)
  PROVE  m.pend.reg \in Src /\ m.pend.now \in BOOLEAN /\ m.ldv \in Words /\ m.v0 \in Words /\ m \in Machines
         /\ m.pend \in [reg : Src, now : BOOLEAN]
<1>1. m \in Machines /\ m.pend \in [reg : Src, now : BOOLEAN]
  BY MachineFields DEF HostOK
<1> QED BY <1>1, MachineFields

(* The pending load is put into its register.                              *)
LEMMA AppliedDoes ==
  ASSUME NEW m, Good(m)
  PROVE  LET q == Applied(m) IN
         /\ Good(q) /\ q.pend.reg = 0
         /\ q.hi = m.hi /\ q.mem = m.mem /\ q.cond = m.cond /\ q.trap = m.trap
         /\ \A x \in Regs : Sees(q, x) = IF x = m.pend.reg THEN m.ldv ELSE Sees(m, x)
<1> DEFINE r == m.pend.reg
           v == m.ldv
           f == emit_cpu_field_to_psx_reg(m, r, v)
           q == Applied(m)
<1>0. HostOK(m) /\ CopiesOK(m) /\ BaseOK(m) /\ r \in Src /\ v \in Words
  BY PendFields DEF Good
<1>1. CASE r = 0
  <2>1. q = m /\ \A x \in Regs : x # 0
    BY <1>1, CompilerConstants DEF Applied
  <2> QED BY <1>1, <2>1
<1>2. CASE r # 0
  <2>1. Wrote(m, f, r, v) /\ CopiesOK(f) /\ BaseOK(f)
    BY <1>0, FromField
  <2>2. q = [f EXCEPT !.pend = NoPend, !.ldv = 0]
    BY <1>2 DEF Applied, NoPend
  <2> HIDE DEF f
  <2>3. Did(m, f, r, v, m.hi, m.mem)
    BY <2>1, WroteDid
  <2>4. f \in Machines /\ f.v0 \in Words
    BY <2>3, PendFields DEF Did, Good
  <2>5. q = [f EXCEPT !.pend = NoPend, !.ldv = 0, !.v0 = f.v0]
    BY <2>2, <2>4 DEF Machines
  <2> HIDE DEF q
  <2>6. /\ SameRegs(f, q) /\ q.pend = NoPend /\ q.hi = f.hi /\ q.mem = f.mem /\ q.cond = f.cond /\ q.trap = f.trap
    <3>1. OnlyPend(f, [f EXCEPT !.pend = NoPend, !.ldv = 0, !.v0 = f.v0], NoPend, 0)
      BY <2>4, NoPendIs, SetPend, CompilerConstants
    <3>2. OnlyPend(f, q, NoPend, 0)
      BY <2>5, <3>1
    <3> QED BY <3>2 DEF OnlyPend
  <2> HIDE DEF q
  <2>7. Good(q) /\ \A x : Sees(q, x) = Sees(f, x)
    BY <2>3, <2>6, SameRegsGood DEF Did
  <2> QED BY <2>3, <2>6, <2>7, NoPendIs DEF Did, q
<1> QED BY <1>1, <1>2

(* The compiler runs ahead of the interpreter by the load in flight: a     *)
(* deferred one is in ldv, one that is not is where it goes already, since *)
(* the instruction after it does not look.                                 *)
Delayed(m, it, h) ==
  /\ \A r \in Regs \ {it.delay.reg, it.commit.reg} : Sees(m, r) = it.regs[r]
  /\ it.commit.reg \notin {0, it.delay.reg} =>
       IF m.pend.reg = it.commit.reg THEN m.ldv = it.commit.val ELSE Sees(m, it.commit.reg) = it.commit.val
  /\ it.delay.reg # 0 =>
       /\ h.reg = it.delay.reg
       /\ IF m.pend.reg = it.delay.reg
            THEN m.ldv = it.delay.val /\ Sees(m, it.delay.reg) = it.regs[it.delay.reg] /\ h.uses
            ELSE Sees(m, it.delay.reg) = it.delay.val /\ ~h.uses
  /\ m.pend.reg # 0 =>
       IF m.pend.now THEN m.pend.reg = it.commit.reg /\ it.commit.reg # it.delay.reg
                     ELSE m.pend.reg = it.delay.reg

(* The same when an instruction is about to be run by both: p is the       *)
(* interpreter after its pipeline moved.                                   *)
Mid(m, p, i) ==
  /\ p.delay = Nothing
  /\ \A r \in Regs \ {p.commit.reg} : Sees(m, r) = p.regs[r]
  /\ IF m.pend.reg = 0
       THEN p.commit.reg # 0 =>
              /\ Sees(m, p.commit.reg) = p.commit.val
              /\ p.commit.reg \notin Reads(i) /\ ~(IsLoad(i) /\ i.rt = p.commit.reg)
       ELSE /\ m.pend.now /\ m.pend.reg = p.commit.reg /\ m.ldv = p.commit.val
            /\ Sees(m, p.commit.reg) = p.regs[p.commit.reg]
            /\ p.commit.reg \in Reads(i) \/ (IsLoad(i) /\ i.rt = p.commit.reg)

(* What comes before an instruction in the code: the pending load is       *)
(* applied or waits for this instruction, as the look-ahead found.         *)
LEMMA BeforeDoes ==
  ASSUME Good(blk), ItpOK(itp), Delayed(blk, itp, hint), SameRest(blk, itp), NEW i \in Instructions, Fits(i),
         NEW d \in BOOLEAN, ~(blk.pend.now /\ d /\ i.rt = blk.pend.reg)
  PROVE  LET m == Before(blk, i, d)
             p == Pipeline(itp)
         IN  /\ Good(m) /\ Mid(m, p, i) /\ SameRest(m, p) /\ ItpOK(p)
             /\ blk.pend.reg = 0 \/ blk.pend.now => m.pend.reg = 0
<1> DEFINE m == Before(blk, i, d)
           p == Pipeline(itp)
<1>1. /\ ItpOK(p) /\ p.delay = Nothing /\ p.commit = itp.delay
      /\ p.hi = itp.hi /\ p.mem = itp.mem /\ p.cond = itp.cond /\ p.trap = itp.trap
      /\ \A r \in Regs : p.regs[r] = IF itp.commit.reg = r /\ itp.delay.reg # r THEN itp.commit.val ELSE itp.regs[r]
  BY PipelineIs
<1> HIDE DEF p
<1>2. blk \in Machines /\ blk.pend \in [reg : Src, now : BOOLEAN] /\ blk.ldv \in Words /\ blk.v0 \in Words
      /\ blk.pend.reg \in Src /\ blk.pend.now \in BOOLEAN
  BY PendFields DEF Good
<1>3. /\ itp.delay.reg # 0 => itp.delay.reg \in Regs
      /\ itp.commit.reg # 0 => itp.commit.reg \in Regs
      /\ \A r \in Regs : r # 0
  BY ProcessorFields, LoadFields, CompilerConstants DEF ItpOK
<1>4. CASE blk.pend.reg = 0
  <2>1. m = blk
    BY <1>4 DEF Before
  <2>2. \A r \in Regs \ {p.commit.reg} : Sees(m, r) = p.regs[r]
    BY <1>1, <1>3, <1>4, <2>1 DEF Delayed
  <2>3. p.commit.reg # 0 => /\ Sees(m, p.commit.reg) = p.commit.val
                            /\ p.commit.reg \notin Reads(i) /\ ~(IsLoad(i) /\ i.rt = p.commit.reg)
    BY <1>1, <1>3, <1>4, <2>1 DEF Delayed, Fits
  <2>4. Mid(m, p, i)
    BY <1>1, <1>4, <2>1, <2>2, <2>3 DEF Mid
  <2> QED BY <1>1, <1>4, <2>1, <2>4 DEF SameRest, p
<1>5. CASE blk.pend.reg # 0 /\ blk.pend.now
  <2>1. m = Applied(blk)
    BY <1>5 DEF Before
  <2>2. /\ Good(m) /\ m.pend.reg = 0
        /\ m.hi = blk.hi /\ m.mem = blk.mem /\ m.cond = blk.cond /\ m.trap = blk.trap
        /\ \A x \in Regs : Sees(m, x) = IF x = blk.pend.reg THEN blk.ldv ELSE Sees(blk, x)
    BY <2>1, AppliedDoes
  <2> HIDE DEF m
  <2>3. blk.pend.reg = itp.commit.reg /\ itp.commit.reg # itp.delay.reg /\ blk.ldv = itp.commit.val
    BY <1>5 DEF Delayed
  <2>4. \A r \in Regs \ {p.commit.reg} : Sees(m, r) = p.regs[r]
    <3> SUFFICES ASSUME NEW r \in Regs, r # itp.delay.reg PROVE Sees(m, r) = p.regs[r]
      BY <1>1
    <3>1. CASE r = itp.commit.reg
      BY <3>1, <2>2, <2>3, <1>1
    <3>2. CASE r # itp.commit.reg
      BY <3>2, <2>2, <2>3, <1>1 DEF Delayed
    <3> QED BY <3>1, <3>2
  <2>5. p.commit.reg # 0 => /\ Sees(m, p.commit.reg) = p.commit.val
                            /\ p.commit.reg \notin Reads(i) /\ ~(IsLoad(i) /\ i.rt = p.commit.reg)
    <3> SUFFICES ASSUME itp.delay.reg # 0
                 PROVE  /\ Sees(m, itp.delay.reg) = itp.delay.val
                        /\ itp.delay.reg \notin Reads(i) /\ ~(IsLoad(i) /\ i.rt = itp.delay.reg)
      BY <1>1
    <3>1. hint.reg = itp.delay.reg /\ ~hint.uses /\ Sees(blk, itp.delay.reg) = itp.delay.val
      BY <2>3 DEF Delayed
    <3> QED BY <3>1, <2>2, <2>3, <1>3 DEF Fits
  <2>6. Mid(m, p, i)
    BY <1>1, <2>2, <2>4, <2>5 DEF Mid
  <2> QED BY <1>1, <2>2, <2>6 DEF SameRest, p, m
<1>6. CASE blk.pend.reg # 0 /\ ~blk.pend.now
  <2> DEFINE pd == [blk.pend EXCEPT !.now = TRUE]
  <2>0. pd \in [reg : Src, now : BOOLEAN] /\ pd.reg = blk.pend.reg /\ pd.now = TRUE
    BY <1>2
  <2>1. m = [blk EXCEPT !.pend = pd]
    BY <1>6 DEF Before
  <2> HIDE DEF pd
  <2>2. m = [blk EXCEPT !.pend = pd, !.ldv = blk.ldv, !.v0 = blk.v0]
    BY <1>2, <2>1 DEF Machines
  <2> HIDE DEF m
  <2>3. /\ SameRegs(blk, m) /\ m.pend = pd /\ m.ldv = blk.ldv
        /\ m.hi = blk.hi /\ m.mem = blk.mem /\ m.cond = blk.cond /\ m.trap = blk.trap
    <3>1. OnlyPend(blk, [blk EXCEPT !.pend = pd, !.ldv = blk.ldv, !.v0 = blk.v0], pd, blk.ldv)
      BY <1>2, <2>0, SetPend
    <3>2. OnlyPend(blk, m, pd, blk.ldv)
      BY <2>2, <3>1
    <3> QED BY <3>2 DEF OnlyPend
  <2> HIDE DEF m
  <2>4. Good(m) /\ \A r : Sees(m, r) = Sees(blk, r)
    BY <2>3, SameRegsGood
  <2>5. blk.pend.reg = itp.delay.reg /\ blk.ldv = itp.delay.val /\ Sees(blk, itp.delay.reg) = itp.regs[itp.delay.reg]
        /\ itp.delay.reg # 0 /\ itp.delay.reg \in Regs
    BY <1>3, <1>6 DEF Delayed
  <2>6. \A r \in Regs : Sees(m, r) = p.regs[r]
    <3> TAKE r \in Regs
    <3>1. CASE r = itp.delay.reg
      BY <3>1, <2>4, <2>5, <1>1
    <3>2. CASE r # itp.delay.reg /\ r = itp.commit.reg
      BY <3>2, <2>4, <2>5, <1>1, <1>3 DEF Delayed
    <3>3. CASE r # itp.delay.reg /\ r # itp.commit.reg
      BY <3>3, <2>4, <2>5, <1>1, <1>3 DEF Delayed
    <3> QED BY <3>1, <3>2, <3>3
  <2>u. itp.delay.reg \in Reads(i) \/ (IsLoad(i) /\ i.rt = itp.delay.reg)
    BY <2>5 DEF Delayed, Fits
  <2>7. Mid(m, p, i)
    BY <1>1, <1>6, <2>0, <2>3, <2>5, <2>6, <2>u DEF Mid
  <2> QED BY <1>1, <1>6, <2>3, <2>4, <2>7 DEF SameRest, p, m
<1> QED BY <1>2, <1>4, <1>5, <1>6

(* Both read the same operands.                                            *)
LEMMA ReadsSame ==
  ASSUME NEW m, Good(m), NEW p, ItpOK(p), NEW i, Mid(m, p, i), NEW r \in Src, r \in Reads(i) \cup {0}
  PROVE  Operand(m, r) = IVal(p, r)
<1>1. CASE r = 0
  BY <1>1 DEF Operand, IVal
<1>2. CASE r # 0
  <2>1. r \in Regs /\ r \in Reads(i)
    BY <1>2 DEF Src
  <2>2. Sees(m, r) = p.regs[r]
    BY <1>2, <2>1 DEF Mid
  <2> QED BY <1>2, <2>2 DEF Operand, IVal
<1> QED BY <1>1, <1>2

(* The code of an instruction that is no load, and its interpretation.     *)
LEMMA AfterNoLoad ==
  ASSUME NEW m, Good(m), NEW p, ItpOK(p), NEW i, Mid(m, p, i), SameRest(m, p),
         NEW q, NEW it, NEW r \in Src, NEW v, NEW hi, NEW mem,
         Did(m, q, r, v, hi, mem), IDid(p, it, r, v, hi, mem), Writes(i) = {r} \ {0}, NEW h
  PROVE  LET b == After(q, i, FALSE) IN
         Good(b) /\ Delayed(b, it, h) /\ SameRest(b, it) /\ (m.pend.reg = 0 => b.pend.reg = 0)
<1> DEFINE b == After(q, i, FALSE)
           gone == q.pend.reg \in Writes(i)
           pd == IF gone THEN NoPend ELSE q.pend
           l == IF gone THEN 0 ELSE q.ldv
<1>1. q \in Machines /\ q.pend \in [reg : Src, now : BOOLEAN] /\ q.ldv \in Words /\ Good(q)
  BY PendFields DEF Did, Good
<1>2. b = [q EXCEPT !.pend = pd, !.ldv = l, !.v0 = 0]
  <2>1. CASE gone
    BY <2>1, <1>1 DEF After, Unpended, NoPend, Machines
  <2>2. CASE ~gone
    BY <2>2, <1>1 DEF After, Machines
  <2> QED BY <2>1, <2>2
<1>3. pd \in [reg : Src, now : BOOLEAN] /\ l \in Words
  BY <1>1, NoPendIs, CompilerConstants
<1> HIDE DEF b, pd, l
<1>4. SameRegs(q, b) /\ b.pend = pd /\ b.ldv = l /\ b.hi = q.hi /\ b.mem = q.mem /\ b.cond = q.cond /\ b.trap = q.trap
  <2>1. OnlyPend(q, [q EXCEPT !.pend = pd, !.ldv = l, !.v0 = 0], pd, l)
    BY <1>1, <1>3, SetPend, CompilerConstants
  <2>2. OnlyPend(q, b, pd, l)
    BY <1>2, <2>1
  <2> QED BY <2>2 DEF OnlyPend
<1> USE DEF pd, l
<1> HIDE DEF b
<1>5. Good(b) /\ \A x : Sees(b, x) = Sees(q, x)
  BY <1>1, <1>4, SameRegsGood
<1>6. \A x \in Regs : Sees(b, x) = IF x = r THEN v ELSE Sees(m, x)
  BY <1>5 DEF Did
<1>7. q.pend = m.pend /\ q.ldv = m.ldv /\ q.hi = hi /\ q.mem = mem /\ q.cond = m.cond /\ q.trap = m.trap
  BY DEF Did
<1>8. SameRest(b, it)
  BY <1>4, <1>7 DEF SameRest, IDid
<1>9. it.delay.reg = 0 /\ it.commit = IF r # 0 /\ p.commit.reg = r THEN Nothing ELSE p.commit
  BY NothingIsACopy DEF IDid, Mid
<1>c. p.commit.reg # 0 => p.commit.reg \in Regs
  BY ProcessorFields, LoadFields DEF ItpOK
<1>10. Delayed(b, it, h)
  <2>1. ASSUME NEW x \in Regs, x # it.commit.reg PROVE Sees(b, x) = it.regs[x]
    <3>1. CASE x = r
      BY <3>1, <1>6 DEF IDid
    <3>2. CASE x # r
      <4>1. x # p.commit.reg
        BY <3>2, <2>1, <1>9
      <4> QED BY <3>2, <4>1, <1>6 DEF IDid, Mid
    <3> QED BY <3>1, <3>2
  <2>2. ASSUME it.commit.reg # 0
        PROVE  IF b.pend.reg = it.commit.reg THEN b.ldv = it.commit.val ELSE Sees(b, it.commit.reg) = it.commit.val
    <3>1. it.commit = p.commit /\ p.commit.reg # 0 /\ p.commit.reg # r
      BY <2>2, <1>9, NothingIsACopy
    <3>2. CASE m.pend.reg = 0
      <4>1. b.pend.reg = 0
        BY <3>2, <1>4, <1>7, NoPendIs
      <4>2. Sees(b, p.commit.reg) = p.commit.val
        BY <3>1, <3>2, <1>c, <1>6 DEF Mid
      <4> QED BY <3>1, <4>1, <4>2
    <3>3. CASE m.pend.reg # 0
      <4>1. m.pend.reg = p.commit.reg /\ m.ldv = p.commit.val
        BY <3>3 DEF Mid
      <4>2. ~gone
        BY <3>1, <4>1, <1>7
      <4> QED BY <3>1, <4>1, <4>2, <1>4, <1>7
    <3> QED BY <3>2, <3>3
  <2>3. ASSUME b.pend.reg # 0 PROVE b.pend.now /\ b.pend.reg = it.commit.reg
    <3>1. ~gone /\ b.pend = m.pend
      BY <2>3, <1>4, <1>7, NoPendIs
    <3>2. m.pend.now /\ m.pend.reg = p.commit.reg
      BY <2>3, <3>1 DEF Mid
    <3>3. m.pend.reg # r
      BY <2>3, <3>1, <1>7
    <3> QED BY <3>1, <3>2, <3>3, <1>9
  <2> QED BY <1>9, <2>1, <2>2, <2>3 DEF Delayed
<1>11. m.pend.reg = 0 => b.pend.reg = 0
  BY <1>4, <1>7, NoPendIs
<1> QED BY <1>5, <1>8, <1>10, <1>11 DEF b

(* A load that is not deferred: its word is in rt already.                 *)
LEMMA AfterLoad ==
  ASSUME NEW m, Good(m), NEW p, ItpOK(p), NEW i \in Instructions, Mid(m, p, i), SameRest(m, p), IsLoad(i),
         NEW q, NEW it, NEW v, Got(m, q, i, v, FALSE), IGot(p, it, i.rt, v)
  PROVE  LET b == After(q, i, FALSE) IN
         /\ Good(b) /\ Delayed(b, it, [reg |-> i.rt, uses |-> FALSE]) /\ SameRest(b, it)
         /\ (m.pend.reg = 0 => b.pend.reg = 0)
<1> DEFINE r == i.rt
           b == After(q, i, FALSE)
           gone == q.pend.reg \in Writes(i)
           pd == IF gone THEN NoPend ELSE q.pend
           l == IF gone THEN 0 ELSE q.ldv
           h == [reg |-> r, uses |-> FALSE]
<1>d. Did(m, q, r, v, m.hi, m.mem)
  BY DEF Got, Target
<1>w. Writes(i) = {r} \ {0}
  BY DEF Writes, IsLoad
<1>1. q \in Machines /\ q.pend \in [reg : Src, now : BOOLEAN] /\ q.ldv \in Words /\ Good(q)
  BY <1>d, PendFields DEF Did, Good
<1>2. b = [q EXCEPT !.pend = pd, !.ldv = l, !.v0 = 0]
  <2>1. CASE gone
    BY <2>1, <1>1 DEF After, Unpended, NoPend, Machines
  <2>2. CASE ~gone
    BY <2>2, <1>1 DEF After, Machines
  <2> QED BY <2>1, <2>2
<1>3. pd \in [reg : Src, now : BOOLEAN] /\ l \in Words
  BY <1>1, NoPendIs, CompilerConstants
<1> HIDE DEF b, pd, l
<1>4. SameRegs(q, b) /\ b.pend = pd /\ b.ldv = l /\ b.hi = q.hi /\ b.mem = q.mem /\ b.cond = q.cond /\ b.trap = q.trap
  <2>1. OnlyPend(q, [q EXCEPT !.pend = pd, !.ldv = l, !.v0 = 0], pd, l)
    BY <1>1, <1>3, SetPend, CompilerConstants
  <2>2. OnlyPend(q, b, pd, l)
    BY <1>2, <2>1
  <2> QED BY <2>2 DEF OnlyPend
<1> USE DEF pd, l
<1>5. Good(b) /\ \A x : Sees(b, x) = Sees(q, x)
  BY <1>1, <1>4, SameRegsGood
<1>6. \A x \in Regs : Sees(b, x) = IF x = r THEN v ELSE Sees(m, x)
  BY <1>5, <1>d DEF Did
<1>7. q.pend = m.pend /\ q.ldv = m.ldv /\ q.hi = m.hi /\ q.mem = m.mem /\ q.cond = m.cond /\ q.trap = m.trap
  BY <1>d DEF Did
<1>8. SameRest(b, it)
  BY <1>4, <1>7 DEF SameRest, IGot
<1>h. h.reg = r /\ h.uses = FALSE
  OBVIOUS
<1> HIDE DEF h
<1>9. it.delay.reg = r /\ (r # 0 => it.delay.val = v) /\ it.commit = p.commit /\ it.regs = p.regs
  BY DEF IGot
<1>c. /\ p.commit.reg # 0 => p.commit.reg \in Regs
      /\ r # 0 => r \in Regs
  BY ProcessorFields, LoadFields, CompilerConstants DEF ItpOK, Src
<1>10. Delayed(b, it, h)
  <2>1. ASSUME NEW x \in Regs, x # it.commit.reg, x # it.delay.reg PROVE Sees(b, x) = it.regs[x]
    BY <2>1, <1>6, <1>9 DEF Mid
  <2>2. ASSUME it.commit.reg \notin {0, it.delay.reg}
        PROVE  IF b.pend.reg = it.commit.reg THEN b.ldv = it.commit.val ELSE Sees(b, it.commit.reg) = it.commit.val
    <3>1. it.commit = p.commit /\ p.commit.reg # 0 /\ p.commit.reg # r
      BY <2>2, <1>9
    <3>2. CASE m.pend.reg = 0
      <4>1. b.pend.reg = 0
        BY <3>2, <1>4, <1>7, NoPendIs
      <4>2. Sees(b, p.commit.reg) = p.commit.val
        BY <3>1, <3>2, <1>c, <1>6 DEF Mid
      <4> QED BY <3>1, <4>1, <4>2
    <3>3. CASE m.pend.reg # 0
      <4>1. m.pend.reg = p.commit.reg /\ m.ldv = p.commit.val
        BY <3>3 DEF Mid
      <4>2. ~gone
        BY <3>1, <4>1, <1>7, <1>w
      <4> QED BY <3>1, <4>1, <4>2, <1>4, <1>7
    <3> QED BY <3>2, <3>3
  <2>3. ASSUME b.pend.reg # 0 PROVE b.pend.now /\ b.pend.reg = it.commit.reg /\ it.commit.reg # it.delay.reg
    <3>1. ~gone /\ b.pend = m.pend
      BY <2>3, <1>4, <1>7, NoPendIs
    <3>2. m.pend.now /\ m.pend.reg = p.commit.reg
      BY <2>3, <3>1 DEF Mid
    <3>3. m.pend.reg # r
      BY <2>3, <3>1, <1>7, <1>w
    <3> QED BY <3>1, <3>2, <3>3, <1>9
  <2>4. ASSUME it.delay.reg # 0
        PROVE  h.reg = it.delay.reg /\ b.pend.reg # it.delay.reg /\ Sees(b, it.delay.reg) = it.delay.val /\ ~h.uses
    BY <2>4, <2>3, <1>6, <1>9, <1>c, <1>h
  <2> QED BY <2>1, <2>2, <2>3, <2>4 DEF Delayed
<1>11. m.pend.reg = 0 => b.pend.reg = 0
  BY <1>4, <1>7, NoPendIs
<1> QED BY <1>5, <1>8, <1>10, <1>11 DEF b, h

(* A deferred load: the one deferred before it is applied first.           *)
LEMMA AfterDeferred ==
  ASSUME NEW m, Good(m), NEW p, ItpOK(p), NEW i \in Instructions, Mid(m, p, i), SameRest(m, p), IsLoad(i), i.rt # 0,
         ~(m.pend.now /\ i.rt = m.pend.reg),
         NEW q, NEW it, NEW v \in Words, Got(m, q, i, v, TRUE), IGot(p, it, i.rt, v)
  PROVE  LET b == After(q, i, TRUE) IN
         Good(b) /\ Delayed(b, it, [reg |-> i.rt, uses |-> TRUE]) /\ SameRest(b, it)
<1> DEFINE r == i.rt
           b == After(q, i, TRUE)
           a == Applied(q)
           pd == [reg |-> r, now |-> FALSE]
           h == [reg |-> r, uses |-> TRUE]
<1>d. Did(m, q, 0, v, m.hi, m.mem) /\ q.v0 = v
  BY DEF Got, Target
<1>r. r \in Regs /\ r \in Src /\ \A x \in Regs : x # 0
  BY CompilerConstants DEF Src
<1>1. Good(q) /\ \A x \in Regs : Sees(q, x) = Sees(m, x)
  BY <1>d, <1>r DEF Did
<1>2. q.pend = m.pend /\ q.ldv = m.ldv /\ q.hi = m.hi /\ q.mem = m.mem /\ q.cond = m.cond /\ q.trap = m.trap
  BY <1>d DEF Did
<1>3. r # m.pend.reg /\ r # p.commit.reg
  BY <1>r DEF Mid
<1>4. /\ Good(a) /\ a.hi = q.hi /\ a.mem = q.mem /\ a.cond = q.cond /\ a.trap = q.trap
      /\ \A x \in Regs : Sees(a, x) = IF x = q.pend.reg THEN q.ldv ELSE Sees(q, x)
  BY <1>1, AppliedDoes
<1>5. b = [a EXCEPT !.pend = pd, !.ldv = v, !.v0 = 0]
  <2>1. b = [a EXCEPT !.ldv = v, !.pend = pd, !.v0 = 0]
    BY <1>2, <1>3, <1>d DEF After
  <2> HIDE DEF a, b
  <2>2. a \in Machines
    BY <1>4 DEF Good, HostOK
  <2> QED BY <2>1, <2>2 DEF Machines
<1> HIDE DEF a, b
<1>6. pd \in [reg : Src, now : BOOLEAN] /\ pd.reg = r /\ pd.now = FALSE /\ a \in Machines
  BY <1>r, <1>4 DEF Good, HostOK
<1> HIDE DEF pd
<1>7. SameRegs(a, b) /\ b.pend = pd /\ b.ldv = v /\ b.hi = a.hi /\ b.mem = a.mem /\ b.cond = a.cond /\ b.trap = a.trap
  <2>1. OnlyPend(a, [a EXCEPT !.pend = pd, !.ldv = v, !.v0 = 0], pd, v)
    BY <1>6, SetPend, CompilerConstants
  <2>2. OnlyPend(a, b, pd, v)
    BY <1>5, <2>1
  <2> QED BY <2>2 DEF OnlyPend
<1>8. Good(b) /\ \A x \in Regs : Sees(b, x) = IF x = m.pend.reg THEN m.ldv ELSE Sees(m, x)
  BY <1>1, <1>2, <1>4, <1>7, SameRegsGood
<1>9. SameRest(b, it)
  BY <1>2, <1>4, <1>7 DEF SameRest, IGot
<1>h. h.reg = r /\ h.uses = TRUE
  OBVIOUS
<1> HIDE DEF h
<1>10. it.delay.reg = r /\ it.delay.val = v /\ it.commit = p.commit /\ it.regs = p.regs
  BY DEF IGot
<1>c. p.commit.reg # 0 => p.commit.reg \in Regs
  BY ProcessorFields, LoadFields DEF ItpOK
<1>11. Delayed(b, it, h)
  <2>0. m.pend.reg # 0 => m.pend.reg = p.commit.reg /\ m.ldv = p.commit.val
    BY DEF Mid
  <2>1. ASSUME NEW x \in Regs, x # it.commit.reg, x # it.delay.reg PROVE Sees(b, x) = it.regs[x]
    <3>1. x # m.pend.reg
      BY <2>0, <2>1, <1>r, <1>10
    <3> QED BY <2>1, <3>1, <1>8, <1>10 DEF Mid
  <2>2. ASSUME it.commit.reg \notin {0, it.delay.reg}
        PROVE  b.pend.reg # it.commit.reg /\ Sees(b, it.commit.reg) = it.commit.val
    <3>1. p.commit.reg \in Regs /\ p.commit.reg # 0 /\ p.commit.reg # r
      BY <2>2, <1>c, <1>10
    <3>2. CASE m.pend.reg = 0
      BY <3>1, <3>2, <1>6, <1>7, <1>8, <1>10 DEF Mid
    <3>3. CASE m.pend.reg # 0
      BY <3>1, <3>3, <2>0, <1>6, <1>7, <1>8, <1>10
    <3> QED BY <3>2, <3>3
  <2>3. b.pend.reg = it.delay.reg /\ ~b.pend.now /\ b.ldv = it.delay.val /\ h.reg = it.delay.reg /\ h.uses
    BY <1>6, <1>7, <1>10, <1>h
  <2>4. Sees(b, it.delay.reg) = it.regs[it.delay.reg]
    <3>1. Sees(b, r) = Sees(m, r)
      BY <1>3, <1>8, <1>r
    <3> QED BY <3>1, <1>3, <1>r, <1>10 DEF Mid
  <2> QED BY <2>1, <2>2, <2>3, <2>4 DEF Delayed
<1> QED BY <1>8, <1>9, <1>11 DEF b, h

(* Both trap or neither does.                                              *)
LEMMA TrapsSame ==
  ASSUME NEW m, Good(m), NEW p, ItpOK(p), NEW i \in Instructions, Mid(m, p, i), NEW e,
         NoStale(m, i.rs), NoStale(m, i.rt)
  PROVE  Traps(m, i, e) <=> ITraps(p, i)
<1>i. i.rs \in Src /\ i.rt \in Src /\ 8 \in Scratch
  BY CompilerConstants DEF Scratch
<1>1. CASE i.op = "lw"
  <2> DEFINE w == mark_vreg_var(m, i.rt)
             n == reg_cache_invalidate(w)
  <2>1. /\ HostOK(n) /\ CopiesOK(n) /\ ConstsOK(n) /\ KnownOK(n) /\ Operand(n, i.rs) = Operand(m, i.rs)
    BY <1>i, Prepared
  <2>2. HostOK(w)
    BY <1>i, MarkVar DEF Good, Kept
  <2>3. Traps(m, i, e) <=> GenericPath(w, i, e) /\ ~Aligned(Value(n, i.rs, 8))
    BY <1>1 DEF Traps
  <2> HIDE DEF w
  <2>4. n.k = w.k /\ n.known = w.known
    BY <2>2, InvalidateFields DEF SameHost
  <2> HIDE DEF n
  <2>5. Value(n, i.rs, 8) = Operand(m, i.rs)
    BY <2>1, <1>i, ValueIs
  <2>6. ~GenericPath(w, i, e) => Aligned(Operand(m, i.rs))
    <3>1. is_vreg_const(w, i.rs) => get_vreg_const(w, i.rs) = Operand(m, i.rs)
      <4>1. is_vreg_const(n, i.rs) => get_vreg_const(n, i.rs) = Operand(m, i.rs)
        BY <2>1, <1>i, ConstIs
      <4> QED BY <4>1, <2>4 DEF is_vreg_const, get_vreg_const
    <3>2. KnownPath(w, i) => Operand(m, i.rs) \in Ram
      BY <2>1, <2>4 DEF KnownPath, KnownOK, Operand, is_vreg_const
    <3> QED BY <3>1, <3>2 DEF GenericPath, ConstTo, Aligned
  <2>7. Operand(m, i.rs) = IVal(p, i.rs)
    BY <1>1, <1>i, ReadsSame DEF Reads
  <2> QED BY <1>1, <2>3, <2>5, <2>6, <2>7 DEF ITraps
<1>2. CASE i.op = "sw"
  <2> DEFINE n == reg_cache_invalidate(m)
  <2>1. /\ HostOK(n) /\ CopiesOK(n) /\ Operand(n, i.rs) = Operand(m, i.rs)
    BY <1>i, StorePrepared
  <2>3. Traps(m, i, e) <=> GenericPath(m, i, e) /\ ~Aligned(Value(n, i.rs, 8))
    BY <1>2 DEF Traps
  <2> HIDE DEF n
  <2>5. Value(n, i.rs, 8) = Operand(m, i.rs)
    BY <2>1, <1>i, ValueIs
  <2>6. ~GenericPath(m, i, e) => Aligned(Operand(m, i.rs))
    <3>1. is_vreg_const(m, i.rs) => get_vreg_const(m, i.rs) = Operand(m, i.rs)
      BY <1>i, ConstIs DEF Good
    <3>2. KnownPath(m, i) => Operand(m, i.rs) \in Ram
      BY DEF KnownPath, KnownOK, Operand, is_vreg_const, Good
    <3> QED BY <3>1, <3>2 DEF GenericPath, ConstTo, Aligned
  <2>7. Operand(m, i.rs) = IVal(p, i.rs)
    BY <1>2, <1>i, ReadsSame DEF Reads
  <2> QED BY <1>2, <2>3, <2>5, <2>6, <2>7 DEF ITraps
<1>3. CASE i.op = "add"
  <2>1. Operand(m, i.rs) = IVal(p, i.rs) /\ Operand(m, i.rt) = IVal(p, i.rt)
    BY <1>3, <1>i, ReadsSame DEF Reads
  <2>2. Value(m, i.rs, 8) = Operand(m, i.rs) /\ Value(emit_use_reg(m, i.rs, 8), i.rt, 9) = Operand(m, i.rt)
    BY TwoSourcesDo DEF Good
  <2> QED BY <1>3, <2>1, <2>2 DEF Traps, ITraps
<1>4. CASE i.op \notin {"lw", "sw", "add"}
  BY <1>4 DEF Traps, ITraps
<1> QED BY <1>1, <1>2, <1>3, <1>4

(* What is left out when none of the known defects is shown.               *)
LEMMA AllowedMeans ==
  ASSUME NEW m, NEW i, NEW e, Shown = {}, Allowed(m, i, e)
  PROVE  /\ NoStale(m, i.rs) /\ NoStale(m, i.rt)
         /\ i.op = "lw" => NoSplit(m, i, e)
         /\ i.op = "sw" => NoDeviceHazard(m, i, e) /\ ~(e.code /\ e.slow /\ ConstTo(m, i, Ram) /\ i.rt \in Plain)
         /\ i.op \in {"addu", "add", "addiu"} /\ i.rd = 0 => i.rs = 0 /\ i.rt = 0
         /\ ~(m.pend.now /\ e.d /\ i.rt = m.pend.reg)
         /\ i.op \in {"beq", "jr", "jal"} /\ m.pend.now => m.pend.reg \notin Reads(i) \cup Writes(i)
         /\ i.op = "jal" /\ i.rd # 0 => m.pend.reg # i.rd /\ (i.rd \in m.known => i.v \in Ram)
<1>0. \A what \in Hazards : ~Wrong(m, i, e, what)
  BY DEF Allowed
<1>1. NoStale(m, i.rs) /\ NoStale(m, i.rt)
  <2>1. ~Wrong(m, i, e, "lazy")
    BY <1>0 DEF Hazards
  <2>2. ~\E r \in {i.rs, i.rt} \cap Plain \cap m.lazy : \E s \in Scratch : m.sc[s].reg = r
    BY <2>1 DEF Wrong
  <2> QED BY <2>2 DEF NoStale
<1>2. ~Wrong(m, i, e, "split") /\ ~Wrong(m, i, e, "mask") /\ ~Wrong(m, i, e, "smc") /\ ~Wrong(m, i, e, "zero")
      /\ ~Wrong(m, i, e, "late") /\ ~Wrong(m, i, e, "link") /\ ~Wrong(m, i, e, "drop")
  BY <1>0 DEF Hazards
<1>3. i.op = "lw" => NoSplit(m, i, e)
  BY <1>2 DEF Wrong, NoSplit
<1>4. i.op = "sw" => NoDeviceHazard(m, i, e)
  BY <1>2 DEF Wrong, NoDeviceHazard
<1>5. i.op = "sw" => ~(e.code /\ e.slow /\ ConstTo(m, i, Ram) /\ i.rt \in Plain)
  BY <1>2 DEF Wrong
<1>6. i.op \in {"addu", "add", "addiu"} /\ i.rd = 0 => i.rs = 0 /\ i.rt = 0
  <2>1. ~(i.op \in {"addu", "add", "addiu"} /\ i.rd = 0 /\ {i.rs, i.rt} # {0})
    BY <1>2 DEF Wrong
  <2> QED BY <2>1
<1>7. ~(m.pend.now /\ e.d /\ i.rt = m.pend.reg)
  BY <1>2 DEF Wrong
<1>8. i.op \in {"beq", "jr", "jal"} /\ m.pend.now => m.pend.reg \notin Reads(i) \cup Writes(i)
  BY <1>2 DEF Wrong
<1>9. i.op = "jal" /\ i.rd # 0 => m.pend.reg # i.rd /\ (i.rd \in m.known => i.v \in Ram)
  BY <1>2 DEF Wrong
<1> QED BY <1>1, <1>3, <1>4, <1>5, <1>6, <1>7, <1>8, <1>9

(* Both halves of an instruction, of each kind.                            *)
Together(m, q, i, d, it) ==
  LET b == After(q, i, d)
      h == IF IsLoad(i) THEN [reg |-> i.rt, uses |-> d] ELSE NoHint
  IN  Good(b) /\ ItpOK(it) /\ Delayed(b, it, h) /\ SameRest(b, it) /\ (m.pend.reg = 0 /\ ~d => b.pend.reg = 0)

(* An instruction that is no load, on both sides.                          *)
LEMMA NoLoadTogether ==
  ASSUME NEW m, Good(m), NEW p, ItpOK(p), NEW i, Mid(m, p, i), SameRest(m, p), ~IsLoad(i),
         NEW q, NEW it, NEW r \in Src, NEW v, NEW hi, NEW mem,
         Did(m, q, r, v, hi, mem), IDid(p, it, r, v, hi, mem), Writes(i) = {r} \ {0}
  PROVE  Together(m, q, i, FALSE, it)
<1>1. ItpOK(it)
  BY DEF IDid
<1>2. LET b == After(q, i, FALSE) IN
      Good(b) /\ Delayed(b, it, NoHint) /\ SameRest(b, it) /\ (m.pend.reg = 0 => b.pend.reg = 0)
  BY AfterNoLoad
<1> QED BY <1>1, <1>2 DEF Together

(* A load, on both sides.                                                  *)
LEMMA LoadTogether ==
  ASSUME NEW m, Good(m), NEW p, ItpOK(p), NEW i \in Instructions, Mid(m, p, i), SameRest(m, p), IsLoad(i),
         NEW d \in BOOLEAN, d => i.rt # 0 /\ ~(m.pend.now /\ i.rt = m.pend.reg),
         NEW q, NEW it, NEW v \in Words, Got(m, q, i, v, d), IGot(p, it, i.rt, v)
  PROVE  Together(m, q, i, d, it)
<1>1. ItpOK(it)
  BY DEF IGot
<1>2. CASE d
  <2>0. d = TRUE
    BY <1>2
  <2>1. LET b == After(q, i, TRUE) IN
        Good(b) /\ Delayed(b, it, [reg |-> i.rt, uses |-> TRUE]) /\ SameRest(b, it)
    BY <2>0, AfterDeferred
  <2> QED BY <1>1, <2>0, <2>1 DEF Together
<1>3. CASE ~d
  <2>0. d = FALSE
    BY <1>3
  <2>1. LET b == After(q, i, FALSE) IN
        /\ Good(b) /\ Delayed(b, it, [reg |-> i.rt, uses |-> FALSE]) /\ SameRest(b, it)
        /\ (m.pend.reg = 0 => b.pend.reg = 0)
    BY <2>0, AfterLoad
  <2> QED BY <1>1, <2>0, <2>1 DEF Together
<1> QED BY <1>2, <1>3

(* The code of every instruction does what the interpreter does.           *)
LEMMA InsnDoes ==
  ASSUME Shown = {}, NEW m, Good(m), NEW p, ItpOK(p), NEW i \in Instructions, Mid(m, p, i), SameRest(m, p), Straight(i),
         NEW e \in Encounters, e.d => IsLoad(i) /\ i.rt # 0, Allowed(m, i, e), ~Traps(m, i, e),
         KeepsRam(m, i) /\ i.rd # 0 => Exec(p, i, e).regs[i.rd] \in Ram,
         i.op = "mtc0" => Sees(m, Sp) \in Ram,
         i.op \in {"lwx", "swx"} => Aligned(IVal(p, i.rs))
  PROVE  Together(m, emit_instruction(m, i, e), i, e.d, Exec(p, i, e))
<1> DEFINE q == emit_instruction(m, i, e)
           it == Exec(p, i, e)
           a == IVal(p, i.rs)
           b == IVal(p, i.rt)
<1>i. i.rd \in Src /\ i.rs \in Src /\ i.rt \in Src /\ i.v \in Words /\ 0 \in Src /\ 0 \in Words
  BY CompilerConstants DEF Src
<1>e. e.io \in Words /\ e.d \in BOOLEAN
  BY DEF Encounters
<1>h. /\ NoStale(m, i.rs) /\ NoStale(m, i.rt)
      /\ i.op = "lw" => NoSplit(m, i, e)
      /\ i.op = "sw" => NoDeviceHazard(m, i, e) /\ ~(e.code /\ e.slow /\ ConstTo(m, i, Ram) /\ i.rt \in Plain)
      /\ i.op \in {"addu", "add", "addiu"} /\ i.rd = 0 => i.rs = 0 /\ i.rt = 0
      /\ ~(m.pend.now /\ e.d /\ i.rt = m.pend.reg)
  BY AllowedMeans
<1>t. ~ITraps(p, i)
  BY <1>h, TrapsSame
<1>m. m.hi = p.hi /\ m.mem = p.mem /\ HostOK(m) /\ m \in Machines /\ p \in Processors
  BY DEF SameRest, Good, HostOK, ItpOK
<1>op. i.op \in {"addu", "addiu", "lui", "add", "mthi", "mfhi", "mult", "mtc0", "cop", "lw", "lwx", "sw", "swx"}
  BY CompilerAssumption DEF Straight
<1>d. ~IsLoad(i) => e.d = FALSE
  BY <1>e
<1>r. \A r \in Regs : r # 0
  BY CompilerConstants
<1>w. a \in Words /\ b \in Words
  <2>1. \A r \in Src : IVal(p, r) \in Words
    BY <1>m, <1>i, ProcessorFields DEF IVal, Src
  <2> QED BY <2>1, <1>i
<1>1. CASE i.op \in {"addu", "add"}
  <2>1. Operand(m, i.rs) = a /\ Operand(m, i.rt) = b
    BY <1>1, <1>i, ReadsSame DEF Reads
  <2> DEFINE v == Sum(a, b)
  <2>2. it = IWrite(p, i.rd, v)
    BY <1>1, <1>t DEF Exec
  <2>3. v \in Words
    BY <1>w, SumWord
  <2> HIDE DEF a, b
  <2>w. Writes(i) = {i.rd} \ {0} /\ ~IsLoad(i)
    BY <1>1 DEF Writes, IsLoad
  <2> HIDE DEF v
  <2>4. IDid(p, IWrite(p, i.rd, v), i.rd, v, p.hi, p.mem)
    BY <1>i, <2>3, IWriteDoes
  <2>5. i.rd # 0 => IWrite(p, i.rd, v).regs[i.rd] = v
    BY <2>4, <1>i DEF IDid, Src
  <2>6. Did(m, q, i.rd, v, m.hi, m.mem)
    <3>1. CASE i.op = "addu"
      <4>1. KeepsRam(m, i) /\ i.rd # 0 => v \in Ram
        BY <2>2, <2>5
      <4>2. q = EmitAlu(m, i)
        BY <3>1 DEF emit_instruction
      <4>3. i.rd = 0 => i.rs = 0 /\ i.rt = 0
        BY <1>h, <1>1
      <4>4. v = Sum(Operand(m, i.rs), Operand(m, i.rt))
        BY <2>1 DEF v
      <4> QED BY <4>1, <4>2, <4>3, <4>4, <1>h, AluDoes
    <3>2. CASE i.op = "add"
      <4>2. q = EmitAdd(m, i)
        BY <3>2 DEF emit_instruction
      <4>3. i.rd = 0 => i.rs = 0 /\ i.rt = 0
        BY <1>h, <1>1
      <4>4. v = Sum(Operand(m, i.rs), Operand(m, i.rt))
        BY <2>1 DEF v
      <4> QED BY <3>2, <4>2, <4>3, <4>4, <1>h, AddDoes
    <3> QED BY <1>1, <3>1, <3>2
  <2> HIDE DEF q, it
  <2>7. Together(m, q, i, FALSE, it)
    BY <2>2, <2>4, <2>6, <2>w, <1>i, <1>m, NoLoadTogether
  <2> QED BY <2>7, <2>w, <1>d DEF q, it
<1>2. CASE i.op = "addiu"
  <2>1. Operand(m, i.rs) = a
    BY <1>2, <1>i, ReadsSame DEF Reads
  <2> DEFINE v == Sum(a, i.v)
  <2>2. it = IWrite(p, i.rd, v)
    BY <1>2, <1>t DEF Exec
  <2>3. v \in Words
    BY <1>w, <1>i, SumWord
  <2> HIDE DEF a, b
  <2>w. Writes(i) = {i.rd} \ {0} /\ ~IsLoad(i)
    BY <1>2 DEF Writes, IsLoad
  <2> HIDE DEF v
  <2>4. IDid(p, IWrite(p, i.rd, v), i.rd, v, p.hi, p.mem)
    BY <1>i, <2>3, IWriteDoes
  <2>5. i.rd # 0 => IWrite(p, i.rd, v).regs[i.rd] = v
    BY <2>4, <1>i DEF IDid, Src
  <2>6. Did(m, q, i.rd, v, m.hi, m.mem)
    <3>1. KeepsRam(m, i) /\ i.rd # 0 => v \in Ram
      BY <2>2, <2>5
    <3>2. q = EmitImm(m, i)
      BY <1>2 DEF emit_instruction
    <3>3. i.rd = 0 => i.rs = 0
      BY <1>h, <1>2
    <3>4. v = Sum(Operand(m, i.rs), i.v)
      BY <2>1 DEF v
    <3> QED BY <3>1, <3>2, <3>3, <3>4, <1>h, ImmDoes
  <2> HIDE DEF q, it
  <2>7. Together(m, q, i, FALSE, it)
    BY <2>2, <2>4, <2>6, <2>w, <1>i, <1>m, NoLoadTogether
  <2> QED BY <2>7, <2>w, <1>d DEF q, it
<1>3. CASE i.op = "lui"
  <2>1. it = IWrite(p, i.rd, i.v) /\ q = mark_vreg_const_lazy(m, i.rd, i.v)
    BY <1>3, <1>t DEF Exec, emit_instruction
  <2>w. Writes(i) = {i.rd} \ {0} /\ ~IsLoad(i)
    BY <1>3 DEF Writes, IsLoad
  <2> HIDE DEF q, it
  <2>2. IDid(p, it, i.rd, i.v, p.hi, p.mem)
    BY <1>i, <2>1, IWriteDoes
  <2>3. Wrote(m, q, i.rd, i.v) /\ CopiesOK(q) /\ BaseOK(q)
    BY <1>i, <2>1, ConstLazy DEF Good
  <2>4. Did(m, q, i.rd, i.v, m.hi, m.mem)
    BY <2>3, WroteDid
  <2>5. Together(m, q, i, FALSE, it)
    BY <2>2, <2>4, <2>w, <1>i, <1>m, NoLoadTogether
  <2> QED BY <2>5, <2>w, <1>d DEF q, it
<1>4. CASE i.op = "mfhi"
  <2>1. it = IWrite(p, i.rd, p.hi) /\ q = emit_cpu_field_to_psx_reg(m, i.rd, m.hi)
    BY <1>4, <1>t DEF Exec, emit_instruction, EmitMfhi
  <2>w. Writes(i) = {i.rd} \ {0} /\ ~IsLoad(i) /\ m.hi \in Words
    BY <1>4, <1>m, MachineFields DEF Writes, IsLoad
  <2> HIDE DEF q, it
  <2>2. IDid(p, it, i.rd, p.hi, p.hi, p.mem)
    BY <1>i, <1>m, <2>1, <2>w, IWriteDoes
  <2>3. Wrote(m, q, i.rd, m.hi) /\ CopiesOK(q) /\ BaseOK(q)
    BY <1>i, <2>1, <2>w, FromField DEF Good
  <2>4. Did(m, q, i.rd, m.hi, m.hi, m.mem)
    BY <2>3, WroteDid
  <2>5. Together(m, q, i, FALSE, it)
    BY <2>2, <2>4, <2>w, <1>i, <1>m, NoLoadTogether
  <2> QED BY <2>5, <2>w, <1>d DEF q, it
<1>5. CASE i.op \in {"mthi", "mult"}
  <2> DEFINE v == IF i.op = "mthi" THEN a ELSE Sum(a, b)
  <2>1. Operand(m, i.rs) = a /\ (i.op = "mult" => Operand(m, i.rt) = b)
    BY <1>5, <1>i, ReadsSame DEF Reads
  <2>2. it = [p EXCEPT !.hi = v] /\ v \in Words
    <3>1. v \in Words
      BY <1>w, SumWord
    <3>2. it = [p EXCEPT !.hi = v]
      BY <1>5, <1>t DEF Exec
    <3> QED BY <3>1, <3>2
  <2>3. Did(m, q, 0, 0, v, m.mem)
    <3> HIDE DEF a, b
    <3>1. CASE i.op = "mthi"
      <4>1. q = EmitMthi(m, i)
        BY <3>1 DEF emit_instruction
      <4> QED BY <3>1, <4>1, <2>1, <1>h, MthiDoes
    <3>2. CASE i.op = "mult"
      <4>1. q = EmitMult(m, i)
        BY <3>2 DEF emit_instruction
      <4>2. v = Sum(Operand(m, i.rs), Operand(m, i.rt))
        BY <3>2, <2>1
      <4> HIDE DEF v
      <4> QED BY <4>1, <4>2, <1>h, MultDoes
    <3> QED BY <1>5, <3>1, <3>2
  <2>w. Writes(i) = {0} \ {0} /\ ~IsLoad(i)
    BY <1>5 DEF Writes, IsLoad
  <2> HIDE DEF q, it, v
  <2>4. IDid(p, it, 0, 0, v, p.mem)
    BY <2>2, IHiDoes
  <2>5. Together(m, q, i, FALSE, it)
    BY <2>3, <2>4, <2>w, <1>i, <1>m, NoLoadTogether
  <2> QED BY <2>5, <2>w, <1>d DEF q, it
<1>6. CASE i.op \in {"mtc0", "cop"}
  <2>1. it = p
    BY <1>6, <1>t DEF Exec
  <2>2. Did(m, q, 0, 0, m.hi, m.mem)
    <3>1. CASE i.op = "mtc0"
      BY <3>1, <1>h, CallDoes DEF emit_instruction
    <3>2. CASE i.op = "cop"
      BY <3>2, CopDoes DEF emit_instruction
    <3> QED BY <1>6, <3>1, <3>2
  <2>w. Writes(i) = {0} \ {0} /\ ~IsLoad(i)
    BY <1>6 DEF Writes, IsLoad
  <2> HIDE DEF q, it
  <2>4. IDid(p, it, 0, 0, p.hi, p.mem)
    BY <2>1, <1>r DEF IDid
  <2>5. Together(m, q, i, FALSE, it)
    BY <2>2, <2>4, <2>w, <1>i, <1>m, NoLoadTogether
  <2> QED BY <2>5, <2>w, <1>d DEF q, it
<1>7. CASE i.op \in {"sw", "swx"}
  <2>1. Operand(m, i.rs) = a /\ Operand(m, i.rt) = b
    BY <1>7, <1>i, ReadsSame DEF Reads
  <2>a. At(m, a) = At(p, a)
    BY <1>m DEF At
  <2> DEFINE v == IF i.op = "sw" THEN b ELSE Sum(At(p, a), b)
  <2>2. it = Poke(p, a, v) /\ (a \in Ram => v \in Words)
    <3>1. it = Poke(p, a, v)
      BY <1>7, <1>t DEF Exec
    <3>2. a \in Ram => At(p, a) \in Words
      BY <1>m, ProcessorFields DEF At
    <3>3. a \in Ram => v \in Words
      BY <3>2, <1>w, SumWord
    <3> QED BY <3>1, <3>3
  <2> HIDE DEF a, b
  <2>3. Did(m, q, 0, 0, m.hi, Poke(m, a, v).mem)
    <3>1. CASE i.op = "sw"
      <4>1. q = emit_memory_write(m, i, e)
        BY <3>1 DEF emit_instruction
      <4> QED BY <3>1, <4>1, <2>1, <1>h, WriteDoes
    <3>2. CASE i.op = "swx"
      <4>1. q = emit_memory_swx(m, i, e)
        BY <3>2 DEF emit_instruction
      <4>2. v = Sum(At(m, a), b)
        BY <3>2, <2>a
      <4> HIDE DEF v
      <4> QED BY <4>1, <4>2, <2>1, SwxDoes
    <3> QED BY <1>7, <3>1, <3>2
  <2>w. Writes(i) = {0} \ {0} /\ ~IsLoad(i)
    BY <1>7 DEF Writes, IsLoad
  <2> HIDE DEF q, it, v
  <2>3a. /\ IDid(p, Poke(p, a, v), 0, 0, p.hi, Poke(p, a, v).mem)
         /\ Poke(p, a, v).mem = IF a \in Ram THEN [p.mem EXCEPT ![a] = v] ELSE p.mem
    BY <2>2, IPokeDoes, ZenonT(60)
  <2>3b. Poke(p, a, v).mem = Poked(p, a, v)
    BY <2>3a DEF Poked
  <2>4. IDid(p, it, 0, 0, p.hi, Poke(p, a, v).mem) /\ Poke(p, a, v).mem = Poked(p, a, v)
    BY <2>2, <2>3a, <2>3b
  <2>5. Poke(m, a, v).mem = Poked(m, a, v)
    BY <2>2, <1>m, SetMem DEF OnlyMem
  <2>6. Poked(m, a, v) = Poked(p, a, v)
    BY <1>m DEF Poked
  <2>7. Together(m, q, i, FALSE, it)
    BY <2>3, <2>4, <2>5, <2>6, <2>w, <1>i, <1>m, NoLoadTogether
  <2> QED BY <2>7, <2>w, <1>d DEF q, it
<1>8. CASE i.op \in {"lw", "lwx"}
  <2>1. Operand(m, i.rs) = a /\ (i.op = "lwx" => Operand(m, i.rt) = b)
    BY <1>8, <1>i, ReadsSame DEF Reads
  <2>2. Aligned(a)
    BY <1>8, <1>t DEF ITraps
  <2>3. Fetched(m, a, e) = (IF a = Io THEN e.io ELSE At(p, a)) /\ Fetched(m, a, e) \in Words
    <3>1. Fetched(m, a, e) = (IF a = Io THEN e.io ELSE At(p, a))
      BY <1>m DEF Fetched, At
    <3> QED BY <3>1, <2>2, <1>m, <1>e, FetchedWord
  <2>l. IsLoad(i)
    BY <1>8 DEF IsLoad
  <2> DEFINE f == Fetched(m, a, e)
             old == IF p.commit.reg = i.rt THEN p.commit.val ELSE b
             oldm == IF m.pend.reg = i.rt THEN m.ldv ELSE Operand(m, i.rt)
             v == IF i.op = "lw" THEN f ELSE Sum(oldm, f)
  <2>4. i.rt # 0 /\ i.op = "lwx" => oldm = old
    <3> SUFFICES ASSUME i.rt # 0, i.op = "lwx" PROVE oldm = old
      OBVIOUS
    <3>1. CASE m.pend.reg = 0
      BY <3>1, <2>1, <2>l DEF Mid
    <3>2. CASE m.pend.reg # 0
      BY <3>2, <2>1 DEF Mid
    <3> QED BY <3>1, <3>2
  <2>5. v \in Words
    <3>1. oldm \in Words
      BY <1>m, <1>i, OperandWord, PendFields
    <3> QED BY <3>1, <2>3, SumWord
  <2>6. it = ILoad(p, i.rt, v)
    <3>1. CASE i.op = "lw"
      <4>1. it = ILoad(p, i.rt, IF a = Io THEN e.io ELSE At(p, a))
        BY <3>1, <1>t DEF Exec
      <4> QED BY <3>1, <4>1, <2>3
    <3>2. CASE i.op = "lwx"
      <4>1. it = ILoad(p, i.rt, Sum(old, IF a = Io THEN e.io ELSE At(p, a)))
        BY <3>2, <1>t DEF Exec
      <4>2. it = ILoad(p, i.rt, Sum(old, f))
        BY <4>1, <2>3
      <4>3. v = Sum(oldm, f)
        BY <3>2
      <4> HIDE DEF old, oldm, f, v, it
      <4>4. CASE i.rt = 0
        BY <4>2, <4>4 DEF ILoad
      <4>5. CASE i.rt # 0
        BY <4>2, <4>3, <4>5, <3>2, <2>4
      <4> QED BY <4>4, <4>5
    <3> QED BY <1>8, <3>1, <3>2
  <2> HIDE DEF a, b
  <2>7. Got(m, q, i, v, e.d)
    <3>1. CASE i.op = "lw"
      <4>1. q = emit_memory_read(m, i, e) /\ v = f
        BY <3>1 DEF emit_instruction
      <4> HIDE DEF q, v
      <4> QED BY <3>1, <4>1, <2>1, <2>2, <1>h, ReadDoes
    <3>2. CASE i.op = "lwx"
      <4>1. q = emit_memory_lwx(m, i, e) /\ v = Sum(oldm, f)
        BY <3>2 DEF emit_instruction
      <4>2. Got(m, emit_memory_lwx(m, i, e), i, Sum(oldm, f), e.d)
        BY <2>1, <2>2, LwxDoes
      <4> HIDE DEF q, v
      <4> QED BY <4>1, <4>2
    <3> QED BY <1>8, <3>1, <3>2
  <2> HIDE DEF q, it, v
  <2>8. IGot(p, it, i.rt, v)
    BY <1>i, <2>5, <2>6, ILoadDoes DEF Mid
  <2>9. Together(m, q, i, e.d, it)
    BY <2>l, <2>5, <2>7, <2>8, <1>e, <1>h, LoadTogether
  <2> QED BY <2>9 DEF q, it
<1> QED BY <1>op, <1>1, <1>2, <1>3, <1>4, <1>5, <1>6, <1>7, <1>8

-----------------------------------------------------------------------------
(* Branches, and the ways out of a block.                                  *)

(* The registers with every load in flight landed, from each half.         *)
LEMMA DelayedAgrees ==
  ASSUME NEW m, NEW it, NEW h, ItpOK(it), Delayed(m, it, h)
  PROVE  \A r \in Regs : (IF m.pend.reg = r THEN m.ldv ELSE Sees(m, r)) = Drained(it).regs[r]
<1>1. \A r \in Regs : Drained(it).regs[r] = IF it.delay.reg = r THEN it.delay.val
                                            ELSE IF it.commit.reg = r THEN it.commit.val ELSE it.regs[r]
  BY DrainedIs
<1>2. \A r \in Regs : r # 0
  BY CompilerConstants
<1> SUFFICES ASSUME NEW r \in Regs PROVE (IF m.pend.reg = r THEN m.ldv ELSE Sees(m, r)) = Drained(it).regs[r]
  OBVIOUS
<1>3. CASE r = it.delay.reg
  BY <1>1, <1>2, <1>3 DEF Delayed
<1>4. CASE r # it.delay.reg /\ r = it.commit.reg
  BY <1>1, <1>2, <1>4 DEF Delayed
<1>5. CASE r # it.delay.reg /\ r # it.commit.reg
  <2>1. m.pend.reg # r
    BY <1>2, <1>5 DEF Delayed
  <2> QED BY <1>1, <1>5, <2>1 DEF Delayed
<1> QED BY <1>3, <1>4, <1>5

(* The same just before an instruction, with nothing deferred.             *)
LEMMA MidAgrees ==
  ASSUME NEW m, NEW p, NEW i, ItpOK(p), Mid(m, p, i), m.pend.reg = 0
  PROVE  \A r \in Regs : Sees(m, r) = Drained(p).regs[r]
<1>1. \A r \in Regs : Drained(p).regs[r] = IF p.delay.reg = r THEN p.delay.val
                                           ELSE IF p.commit.reg = r THEN p.commit.val ELSE p.regs[r]
  BY DrainedIs
<1>2. (\A r \in Regs : r # 0) /\ p.delay.reg = 0
  BY CompilerConstants, NothingIsACopy DEF Mid
<1> QED BY <1>1, <1>2 DEF Mid

(* Draining a pipeline that has moved.                                     *)
LEMMA DrainedTwice ==
  ASSUME NEW it, ItpOK(it)
  PROVE  \A r \in Regs : Drained(Pipeline(it)).regs[r] = Drained(it).regs[r]
<1> DEFINE p == Pipeline(it)
<1>1. /\ ItpOK(p) /\ p.delay = Nothing /\ p.commit = it.delay
      /\ \A r \in Regs : p.regs[r] = IF it.commit.reg = r /\ it.delay.reg # r THEN it.commit.val ELSE it.regs[r]
  BY PipelineIs
<1> HIDE DEF p
<1>2. \A r \in Regs : Drained(p).regs[r] = IF p.delay.reg = r THEN p.delay.val
                                           ELSE IF p.commit.reg = r THEN p.commit.val ELSE p.regs[r]
  BY <1>1, DrainedIs
<1>3. \A r \in Regs : Drained(it).regs[r] = IF it.delay.reg = r THEN it.delay.val
                                            ELSE IF it.commit.reg = r THEN it.commit.val ELSE it.regs[r]
  BY DrainedIs
<1>4. (\A r \in Regs : r # 0) /\ p.delay.reg = 0
  BY <1>1, CompilerConstants, NothingIsACopy
<1>5. ASSUME NEW r \in Regs PROVE Drained(p).regs[r] = Drained(it).regs[r]
  BY <1>1, <1>2, <1>3, <1>4
<1> QED BY <1>5 DEF p

(* Everything is in cpu.regs[] at the exit.                                *)
LEMMA ExitedDoes ==
  ASSUME NEW m, HostOK(m), CopiesOK(m)
  PROVE  LET q == Exited(m) IN
         /\ HostOK(q) /\ CopiesOK(q) /\ \A r \in Regs : q.regs[r] = Sees(m, r)
         /\ q.hi = m.hi /\ q.mem = m.mem /\ q.cond = m.cond /\ q.trap = m.trap
<1> DEFINE f == flush_dirty_consts(m)
           g == dyn_flush_dirty_slots(f)
           q == Stored(g, Pinned)
<1>1. Kept(m, f) /\ CopiesOK(f) /\ f.lazy = {} /\ HostOK(f)
  BY FlushConsts DEF Kept
<1> HIDE DEF f
<1>2. Kept(f, g) /\ CopiesOK(g) /\ g.lazy = f.lazy /\ g.dirty = {} /\ HostOK(g)
  BY <1>1, FlushSlots DEF Kept
<1> HIDE DEF g
<1>3. /\ Kept(g, q) /\ CopiesOK(q) /\ q.lazy = g.lazy /\ q.home = g.home /\ q.dirty = g.dirty /\ q.loaded = g.loaded
      /\ \A r \in Regs : q.regs[r] = IF r \in Pinned THEN g.home[r] ELSE g.regs[r]
  BY <1>2, StoredFields
<1> HIDE DEF q
<1>4. Kept(m, q)
  BY <1>1, <1>2, <1>3, KeptTwice
<1>5. HostOK(q) /\ Rest(q) = Rest(m) /\ \A r \in Regs : Sees(q, r) = Sees(m, r)
  BY <1>4 DEF Kept
<1>6. ASSUME NEW r \in Regs PROVE q.regs[r] = Sees(q, r)
  <2>1. Sees(q, r) = Settled(q, r)
    BY <1>1, <1>2, <1>3 DEF Sees, Holds
  <2>2. r \in q.loaded => q.home[r] = q.regs[r]
    BY <1>2, <1>3, <1>5 DEF HostOK
  <2>3. r \in Pinned => q.home[r] = q.regs[r]
    BY <1>3
  <2> QED BY <2>1, <2>2, <2>3 DEF Settled
<1>7. q.hi = m.hi /\ q.mem = m.mem /\ q.cond = m.cond /\ q.trap = m.trap
  BY <1>5, RestIs
<1>8. q = Exited(m)
  BY DEF Exited, q, g, f
<1> QED BY <1>3, <1>5, <1>6, <1>7, <1>8

(* What is known when two processors differ in nothing a drain looks at.   *)
LEMMA DrainedSame ==
  ASSUME NEW p, NEW it, ItpOK(p), ItpOK(it), it.regs = p.regs, it.delay = p.delay, it.commit = p.commit
  PROVE  \A r \in Regs : Drained(it).regs[r] = Drained(p).regs[r]
<1>1. \A r \in Regs : Drained(p).regs[r] = IF p.delay.reg = r THEN p.delay.val
                                           ELSE IF p.commit.reg = r THEN p.commit.val ELSE p.regs[r]
  BY DrainedIs
<1>2. \A r \in Regs : Drained(it).regs[r] = IF it.delay.reg = r THEN it.delay.val
                                            ELSE IF it.commit.reg = r THEN it.commit.val ELSE it.regs[r]
  BY DrainedIs
<1> QED BY <1>1, <1>2

(* Two register files that agree everywhere are one.                       *)
LEMMA SameFile ==
  ASSUME NEW m, HostOK(m), NEW it, ItpOK(it), \A r \in Regs : m.regs[r] = Drained(it).regs[r]
  PROVE  m.regs = Drained(it).regs
<1>1. m.regs \in [Regs -> Words]
  BY MachineFields DEF HostOK
<1>2. Drained(it).regs \in [Regs -> Words]
  BY DrainedIs, ProcessorFields DEF ItpOK
<1> QED BY <1>1, <1>2

(* The state the cold path of a trap finds.                                *)
LEMMA AbortKept ==
  ASSUME NEW m, Good(m), NEW i \in Instructions, NoStale(m, i.rs), NoStale(m, i.rt)
  PROVE  LET x == AbortState(m, i) IN Kept(m, x) /\ CopiesOK(x)
<1>i. i.rd \in Src /\ i.rs \in Src /\ i.rt \in Src /\ 8 \in Scratch
  BY CompilerConstants DEF Scratch
<1>m. HostOK(m) /\ CopiesOK(m) /\ BaseOK(m)
  BY DEF Good
<1>1. CASE i.op = "add"
  <2> DEFINE w == mark_vreg_var(m, i.rd)
             n == NoBase(w)
             q == TwoSources(n, i)
             rs == {i.rd} \cap (Pinned \cup q.dirty)
  <2>1. Kept(m, w) /\ HostOK(w) /\ CopiesOK(w) /\ NoStale(w, i.rs) /\ NoStale(w, i.rt)
    BY MarkThenRead
  <2>x. AbortState(m, i) = Stored(q, rs)
    BY <1>1, NoBaseAgain DEF AbortState
  <2> HIDE DEF w
  <2>2. Kept(w, n) /\ CopiesOK(n) /\ HostOK(n)
    BY <2>1, NoBaseFields DEF Kept
  <2> HIDE DEF n
  <2>3. NoStale(n, i.rs) /\ NoStale(n, i.rt)
    BY <2>1, <2>2, KeptBeliefs
  <2>4. Kept(n, q) /\ CopiesOK(q) /\ HostOK(q)
    BY <2>2, <2>3, TwoSourcesDo DEF Kept
  <2> HIDE DEF q
  <2>5. rs \subseteq Pinned \cup q.loaded
    BY <2>4 DEF HostOK
  <2> HIDE DEF rs
  <2>6. Kept(q, Stored(q, rs)) /\ CopiesOK(Stored(q, rs))
    BY <2>4, <2>5, StoredFields
  <2> QED BY <2>1, <2>2, <2>4, <2>6, <2>x, KeptTwice
<1>2. CASE i.op # "add"
  <2> DEFINE w == IF i.op = "lw" THEN mark_vreg_var(m, i.rt) ELSE m
             u == emit_use_reg(w, i.rs, 8)
             x == flush_dirty_consts(u)
  <2>x. AbortState(m, i) = x
    BY <1>2 DEF AbortState
  <2>1. Kept(m, w) /\ CopiesOK(w)
    BY <1>i, <1>m, MarkVar, KeptSelf
  <2> HIDE DEF w
  <2>2. HostOK(w) /\ NoStale(w, i.rs)
    BY <2>1, <1>m, KeptBeliefs DEF Kept
  <2>3. Kept(w, u) /\ CopiesOK(u) /\ HostOK(u)
    BY <2>1, <2>2, <1>i, UseReg DEF Kept
  <2> HIDE DEF u
  <2>4. Kept(u, x) /\ CopiesOK(x)
    BY <2>3, FlushConsts
  <2> HIDE DEF x
  <2> QED BY <2>1, <2>3, <2>4, <2>x, KeptTwice
<1> QED BY <1>1, <1>2

(* A branch's code: the condition is computed, the link register written,  *)
(* and nothing else changes.                                               *)
LinkOf(i) == IF i.op = "jal" THEN i.rd ELSE 0
Condition(i, a, b) ==
  CASE i.op = "beq" -> (IF a = b THEN 1 ELSE 0) [] i.op = "jr" -> a [] i.op = "jal" -> 1
Branched(m, q, r, v, c) ==
  /\ Good(q) /\ \A x \in Regs : Sees(q, x) = IF x = r THEN v ELSE Sees(m, x)
  /\ q.hi = m.hi /\ q.mem = m.mem /\ q.pend = m.pend /\ q.ldv = m.ldv /\ q.trap = m.trap /\ q.cond = c

(* A branch condition or target is a word.                                 *)
LEMMA CondWord ==
  ASSUME NEW i, i.op \in {"beq", "jr", "jal"}, NEW a \in Words, NEW b
  PROVE  Condition(i, a, b) \in 0 .. V
<1>1. 0 \in 0 .. V /\ 1 \in 0 .. V /\ a \in 0 .. V
  BY CompilerConstants
<1> QED BY <1>1 DEF Condition

(* The condition is written last.                                          *)
LEMMA ThenCond ==
  ASSUME NEW m, NEW q, NEW r, NEW v, Did(m, q, r, v, m.hi, m.mem), NEW c \in 0 .. V
  PROVE  Branched(m, [q EXCEPT !.cond = c], r, v, c)
<1> DEFINE b == [q EXCEPT !.cond = c]
<1>1. q \in Machines /\ Good(q)
  BY DEF Did, Good, HostOK
<1>2. /\ SameRegs(q, b) /\ b.hi = q.hi /\ b.mem = q.mem
      /\ b.pend = q.pend /\ b.ldv = q.ldv /\ b.cond = c /\ b.trap = q.trap
  BY <1>1, SetCond
<1> HIDE DEF b
<1>3. Good(b) /\ \A x : Sees(b, x) = Sees(q, x)
  BY <1>1, <1>2, SameRegsGood
<1>4. Branched(m, b, r, v, c)
  BY <1>2, <1>3 DEF Branched, Did
<1> QED BY <1>4 DEF b

(* The code of a branch, folded or not.                                    *)
LEMMA BranchDoes ==
  ASSUME Good(blk), NEW i \in Instructions, i.op \in {"beq", "jr", "jal"}, NoStale(blk, i.rs), NoStale(blk, i.rt),
         i.op = "jal" /\ i.rd \in blk.known => i.v \in Ram
  PROVE  Branched(blk, BranchCode(blk, i), LinkOf(i), i.v, Condition(i, Operand(blk, i.rs), Operand(blk, i.rt)))
<1> DEFINE m == blk
           a == Operand(m, i.rs)
           b == Operand(m, i.rt)
           c == Condition(i, a, b)
           p == emit_load_psx_reg(m, i.rs, 8)
<1>i. i.rd \in Src /\ i.rs \in Src /\ i.rt \in Src /\ i.v \in Words /\ 8 \in Scratch /\ 9 \in Scratch
  BY CompilerConstants DEF Scratch
<1>m. HostOK(m) /\ CopiesOK(m) /\ BaseOK(m) /\ ConstsOK(m)
  BY DEF Good
<1>c. c \in 0 .. V
  BY <1>i, <1>m, OperandWord, CondWord
<1>p. Kept(m, p) /\ CopiesOK(p) /\ p.hb = m.hb /\ HostOK(p)
  BY <1>i, <1>m, LoadReg DEF Kept
<1>v. Value(m, i.rs, 8) = a
  BY <1>i, <1>m, ValueIs
<1>1. CASE i.op = "beq" /\ Folds(i)
  <2>1. get_vreg_const(m, i.rs) = a /\ get_vreg_const(m, i.rt) = b
    BY <1>1, <1>i, <1>m, ConstIs DEF Folds
  <2>2. BranchCode(m, i) = [m EXCEPT !.cond = c]
    BY <1>1, <2>1 DEF BranchCode, Condition
  <2>3. Did(m, m, 0, i.v, m.hi, m.mem)
    BY <1>m, KeptSelf, KeptDid
  <2>4. LinkOf(i) = 0
    BY <1>1 DEF LinkOf
  <2> HIDE DEF c
  <2> QED BY <1>c, <2>2, <2>3, <2>4, ThenCond DEF c
<1>2. CASE i.op = "beq" /\ ~Folds(i)
  <2> DEFINE u == emit_load_psx_reg(p, i.rt, 9)
             q == NoBase(u)
  <2>0. BranchCode(m, i) = [q EXCEPT !.cond = IF Value(m, i.rs, 8) = Value(p, i.rt, 9) THEN 1 ELSE 0]
    BY <1>2 DEF BranchCode
  <2> HIDE DEF p
  <2>1. Operand(p, i.rt) = b /\ NoStale(p, i.rt)
    BY <1>i, <1>m, <1>p, KeptBeliefs
  <2>2. Value(p, i.rt, 9) = b
    BY <1>i, <1>p, <2>1, ValueIs
  <2>3. Kept(p, u) /\ CopiesOK(u) /\ HostOK(u)
    BY <1>i, <1>p, <2>1, LoadReg DEF Kept
  <2> HIDE DEF u
  <2>4. Kept(u, q) /\ BaseOK(q) /\ CopiesOK(q)
    BY <2>3, NoBaseFields
  <2> HIDE DEF q
  <2>5. Kept(m, q)
    BY <1>p, <2>3, <2>4, KeptTwice
  <2>6. Did(m, q, 0, i.v, m.hi, m.mem)
    BY <2>4, <2>5, KeptDid
  <2>7. BranchCode(m, i) = [q EXCEPT !.cond = c]
    BY <1>2, <1>v, <2>0, <2>2 DEF Condition
  <2>8. LinkOf(i) = 0
    BY <1>2 DEF LinkOf
  <2> HIDE DEF c
  <2> QED BY <1>c, <2>6, <2>7, <2>8, ThenCond DEF c
<1>3. CASE i.op = "jr"
  <2>1. BranchCode(m, i) = [p EXCEPT !.cond = c]
    BY <1>3, <1>v DEF BranchCode, Condition
  <2>2. LinkOf(i) = 0
    BY <1>3 DEF LinkOf
  <2> HIDE DEF p, c
  <2>3. BaseOK(p)
    BY <1>m, <1>p, BaseKept
  <2>4. Did(m, p, 0, i.v, m.hi, m.mem)
    BY <1>p, <2>3, KeptDid
  <2> QED BY <1>c, <2>1, <2>2, <2>4, ThenCond DEF c
<1>4. CASE i.op = "jal"
  <2> DEFINE q == PutAndForget(mark_vreg_const(m, i.rd, i.v), i.rd, i.v)
  <2>1. BranchCode(m, i) = [q EXCEPT !.cond = c] /\ LinkOf(i) = i.rd
    BY <1>4 DEF BranchCode, Condition, LinkOf
  <2>2. Wrote(m, q, i.rd, i.v) /\ CopiesOK(q) /\ BaseOK(q)
    BY <1>4, <1>i, <1>m, LinkReg
  <2> HIDE DEF q, c
  <2>3. Did(m, q, i.rd, i.v, m.hi, m.mem)
    BY <2>2, WroteDid
  <2> QED BY <1>c, <2>1, <2>3, ThenCond DEF c
<1> QED BY <1>1, <1>2, <1>3, <1>4

(* The interpreter's half.                                                 *)
LEMMA IBranchDoes ==
  ASSUME NEW p, ItpOK(p), NEW i \in Instructions, i.op \in {"beq", "jr", "jal"}, NEW e
  PROVE  LET it == Exec(p, i, e)
             r == LinkOf(i)
         IN  /\ ItpOK(it) /\ \A x \in Regs : it.regs[x] = IF x = r THEN i.v ELSE p.regs[x]
             /\ it.commit = (IF r # 0 /\ p.commit.reg = r THEN Nothing ELSE p.commit) /\ it.delay = p.delay
             /\ it.hi = p.hi /\ it.mem = p.mem /\ it.trap = p.trap
             /\ it.cond = Condition(i, IVal(p, i.rs), IVal(p, i.rt))
<1> DEFINE it == Exec(p, i, e)
           c == Condition(i, IVal(p, i.rs), IVal(p, i.rt))
           w == IWrite(p, LinkOf(i), i.v)
<1>i. i.rd \in Src /\ i.rs \in Src /\ i.rt \in Src /\ i.v \in Words /\ LinkOf(i) \in Src
  BY CompilerConstants DEF LinkOf, Src
<1>r. \A x \in Regs : x # 0
  BY CompilerConstants
<1>a. IVal(p, i.rs) \in Words
  BY <1>i, ProcessorFields, CompilerConstants DEF IVal, ItpOK, Src
<1>c. c \in 0 .. V
  BY <1>a, CondWord
<1>1. IDid(p, w, LinkOf(i), i.v, p.hi, p.mem)
  BY <1>i, IWriteDoes
<1>2. it = [w EXCEPT !.cond = c]
  <2>1. ~ITraps(p, i)
    BY DEF ITraps
  <2>2. CASE i.op = "beq"
    BY <2>1, <2>2 DEF Exec, Condition, IWrite, LinkOf
  <2>3. CASE i.op = "jr"
    BY <2>1, <2>3 DEF Exec, Condition, IWrite, LinkOf
  <2>4. CASE i.op = "jal"
    BY <2>1, <2>4 DEF Exec, Condition, LinkOf
  <2> QED BY <2>2, <2>3, <2>4
<1> HIDE DEF w, c
<1>3. w \in Processors
  BY <1>1 DEF IDid, ItpOK
<1> HIDE DEF it
<1>4. /\ it \in Processors /\ it.cond = c /\ it.regs = w.regs /\ it.commit = w.commit /\ it.delay = w.delay
      /\ it.hi = w.hi /\ it.mem = w.mem /\ it.trap = w.trap
  BY <1>2, <1>3, <1>c DEF Processors
<1>5. ItpOK(it)
  BY <1>1, <1>4 DEF IDid, ItpOK
<1> QED BY <1>1, <1>4, <1>5 DEF IDid, it, c

(* Nothing is in flight in the interpreter but what was before the branch. *)
BothWrote(m, b, p, it, r, v) ==
  /\ \A x \in Regs : Sees(b, x) = IF x = r THEN v ELSE Sees(m, x)
  /\ \A x \in Regs : it.regs[x] = IF x = r THEN v ELSE p.regs[x]
  /\ it.commit = (IF r # 0 /\ p.commit.reg = r THEN Nothing ELSE p.commit) /\ it.delay = p.delay
  /\ m.pend.reg = 0 => b.pend.reg = 0
  /\ m.pend.reg # 0 => b.pend = m.pend /\ b.ldv = m.ldv /\ m.pend.reg # r

(* The compiler is ahead by as much as it was before the branch.           *)
LEMMA DelayedAfter ==
  ASSUME NEW m, NEW p, ItpOK(p), NEW i, Mid(m, p, i), NEW b, NEW it, NEW r, NEW v, NEW h,
         BothWrote(m, b, p, it, r, v)
  PROVE  Delayed(b, it, h)
<1> USE DEF BothWrote
<1>9. it.delay.reg = 0
  BY NothingIsACopy DEF Mid
<1>c. p.commit.reg # 0 => p.commit.reg \in Regs
  BY ProcessorFields, LoadFields DEF ItpOK
<1>1. ASSUME NEW x \in Regs, x # it.commit.reg PROVE Sees(b, x) = it.regs[x]
  <2>1. CASE x = r
    BY <2>1
  <2>2. CASE x # r
    <3>1. x # p.commit.reg
      BY <2>2, <1>1
    <3> QED BY <2>2, <3>1 DEF Mid
  <2> QED BY <2>1, <2>2
<1>2. ASSUME it.commit.reg # 0
      PROVE  IF b.pend.reg = it.commit.reg THEN b.ldv = it.commit.val ELSE Sees(b, it.commit.reg) = it.commit.val
  <2>1. it.commit = p.commit /\ p.commit.reg # 0 /\ p.commit.reg # r
    BY <1>2, NothingIsACopy
  <2>2. CASE m.pend.reg = 0
    BY <2>1, <2>2, <1>c DEF Mid
  <2>3. CASE m.pend.reg # 0
    BY <2>1, <2>3 DEF Mid
  <2> QED BY <2>2, <2>3
<1>3. ASSUME b.pend.reg # 0 PROVE b.pend.now /\ b.pend.reg = it.commit.reg
  BY <1>3 DEF Mid
<1> QED BY <1>9, <1>1, <1>2, <1>3 DEF Delayed

(* The code of a branch, then the pending load, and its interpretation.    *)
SetNow(m) == IF m.pend.now THEN Applied(m) ELSE [m EXCEPT !.pend.now = m.pend.reg # 0]

(* A branch, on both sides: the load pending before it is applied after    *)
(* it or is due in the delay slot.                                         *)
LEMMA BranchTogether ==
  ASSUME Shown = {}, Good(blk), ItpOK(itp), Delayed(blk, itp, hint), SameRest(blk, itp),
         NEW i \in Instructions, Fits(i), i.op \in {"beq", "jr", "jal"}, NEW e, Allowed(blk, i, e)
  PROVE  LET b == SetNow(BranchCode(blk, i))
             it == Exec(Pipeline(itp), i, e)
         IN  /\ Good(b) /\ ItpOK(it) /\ Delayed(b, it, NoHint) /\ SameRest(b, it)
             /\ b.pend.reg # 0 => b.pend.now
<1> DEFINE q == BranchCode(blk, i)
           b == SetNow(q)
           p == Pipeline(itp)
           it == Exec(p, i, e)
           m == Before(blk, i, FALSE)
           r == LinkOf(i)
           v == i.v
           pr == blk.pend.reg
           c == Condition(i, Operand(blk, i.rs), Operand(blk, i.rt))
<1>i. i.rd \in Src /\ i.rs \in Src /\ i.rt \in Src /\ i.v \in Words
  BY CompilerConstants
<1>a. /\ NoStale(blk, i.rs) /\ NoStale(blk, i.rt)
      /\ i.op \in {"beq", "jr", "jal"} /\ blk.pend.now => blk.pend.reg \notin Reads(i) \cup Writes(i)
      /\ i.op = "jal" /\ i.rd # 0 => blk.pend.reg # i.rd /\ (i.rd \in blk.known => i.v \in Ram)
  BY AllowedMeans
<1>k. i.op = "jal" /\ i.rd \in blk.known => i.v \in Ram
  <2>1. blk.known \subseteq Regs
    BY MachineFields DEF Good, HostOK
  <2> QED BY <2>1, <1>a, CompilerConstants
<1>q. Branched(blk, q, r, v, c)
  BY <1>a, <1>k, BranchDoes
<1>m. Good(m) /\ Mid(m, p, i) /\ SameRest(m, p) /\ ItpOK(p)
  BY BeforeDoes
<1>t. /\ ItpOK(it) /\ \A x \in Regs : it.regs[x] = IF x = r THEN v ELSE p.regs[x]
      /\ it.commit = (IF r # 0 /\ p.commit.reg = r THEN Nothing ELSE p.commit) /\ it.delay = p.delay
      /\ it.hi = p.hi /\ it.mem = p.mem /\ it.trap = p.trap
      /\ it.cond = Condition(i, IVal(p, i.rs), IVal(p, i.rt))
  BY <1>m, IBranchDoes
<1>p. blk.pend.reg \in Src /\ blk.pend.now \in BOOLEAN /\ blk.pend \in [reg : Src, now : BOOLEAN] /\ blk.ldv \in Words
  BY PendFields DEF Good
<1>l. pr # 0 => pr # r
  <2>1. Writes(i) = {r} \ {0}
    BY DEF Writes, LinkOf, IsLoad
  <2> QED BY <1>a DEF LinkOf
<1> HIDE DEF q, p, it, c
<1>g. Good(q) /\ q.pend = blk.pend /\ q.ldv = blk.ldv /\ (\A x \in Regs : Sees(q, x) = IF x = r THEN v ELSE Sees(blk, x))
      /\ q.hi = blk.hi /\ q.mem = blk.mem /\ q.trap = blk.trap /\ q.cond = c
  BY <1>q DEF Branched
<1>b. /\ Good(b) /\ b.hi = q.hi /\ b.mem = q.mem /\ b.trap = q.trap /\ b.cond = q.cond
      /\ (b.pend.reg # 0 => b.pend.now) /\ (blk.pend.now => b.pend.reg = 0)
      /\ (~blk.pend.now => b.pend.reg = pr /\ (pr # 0 => b.pend.now) /\ b.ldv = blk.ldv)
      /\ b.pend \in [reg : Src, now : BOOLEAN]
      /\ \A x \in Regs : Sees(b, x) = IF blk.pend.now /\ x = pr THEN blk.ldv ELSE Sees(q, x)
  <2>1. CASE blk.pend.now
    <3>1. b = Applied(q)
      BY <2>1, <1>g DEF SetNow
    <3>2. /\ Good(b) /\ b.pend.reg = 0 /\ b.hi = q.hi /\ b.mem = q.mem /\ b.cond = q.cond /\ b.trap = q.trap
          /\ \A x \in Regs : Sees(b, x) = IF x = q.pend.reg THEN q.ldv ELSE Sees(q, x)
      BY <3>1, <1>g, AppliedDoes
    <3> HIDE DEF b
    <3>3. b.pend \in [reg : Src, now : BOOLEAN]
      BY <3>2, PendFields DEF Good
    <3> QED BY <2>1, <3>2, <3>3, <1>g
  <2>2. CASE ~blk.pend.now
    <3> DEFINE pd == [q.pend EXCEPT !.now = (q.pend.reg # 0)]
    <3>1. pd \in [reg : Src, now : BOOLEAN] /\ pd.reg = pr /\ pd.now = (pr # 0)
      BY <1>g, <1>p
    <3>2. b = [q EXCEPT !.pend = pd]
      BY <2>2, <1>g DEF SetNow
    <3> HIDE DEF pd
    <3>3. q \in Machines /\ q.ldv \in Words /\ q.v0 \in Words
      BY <1>g, PendFields DEF Good
    <3> HIDE DEF b
    <3>4. b = [q EXCEPT !.pend = pd, !.ldv = q.ldv, !.v0 = q.v0]
      BY <3>2, <3>3 DEF Machines
    <3>5. OnlyPend(q, [q EXCEPT !.pend = pd, !.ldv = q.ldv, !.v0 = q.v0], pd, q.ldv)
      BY <3>1, <3>3, SetPend
    <3>6. OnlyPend(q, b, pd, q.ldv)
      BY <3>4, <3>5
    <3>7. SameRegs(q, b) /\ b.pend = pd /\ b.ldv = q.ldv /\ b.hi = q.hi /\ b.mem = q.mem /\ b.cond = q.cond /\ b.trap = q.trap
      BY <3>6 DEF OnlyPend
    <3>8. Good(b) /\ \A x : Sees(b, x) = Sees(q, x)
      BY <1>g, <3>7, SameRegsGood
    <3> QED BY <2>2, <3>1, <3>7, <3>8, <1>g
  <2> QED BY <2>1, <2>2
<1> HIDE DEF b
<1>s. /\ \A x \in Regs : Sees(m, x) = IF blk.pend.now /\ x = pr THEN blk.ldv ELSE Sees(blk, x)
      /\ m.pend.reg = (IF blk.pend.now THEN 0 ELSE pr) /\ (pr # 0 /\ ~blk.pend.now => m.pend.now = TRUE /\ m.ldv = blk.ldv)
      /\ m.pend \in [reg : Src, now : BOOLEAN]
  <2>0. m.pend \in [reg : Src, now : BOOLEAN]
    BY <1>m, PendFields DEF Good
  <2>1. CASE pr = 0
    <3>1. m = blk
      BY <2>1 DEF Before
    <3> QED BY <2>0, <2>1, <3>1, CompilerConstants
  <2>2. CASE pr # 0 /\ blk.pend.now
    <3>1. m = Applied(blk)
      BY <2>2 DEF Before
    <3>2. m.pend.reg = 0 /\ \A x \in Regs : Sees(m, x) = IF x = blk.pend.reg THEN blk.ldv ELSE Sees(blk, x)
      BY <3>1, AppliedDoes
    <3> HIDE DEF m
    <3> QED BY <2>0, <2>2, <3>2
  <2>3. CASE pr # 0 /\ ~blk.pend.now
    <3> DEFINE pd == [blk.pend EXCEPT !.now = TRUE]
    <3>1. pd \in [reg : Src, now : BOOLEAN] /\ pd.reg = pr /\ pd.now = TRUE
      BY <1>p
    <3>2. m = [blk EXCEPT !.pend = pd]
      BY <2>3 DEF Before
    <3> HIDE DEF pd
    <3>3. blk \in Machines /\ blk.ldv \in Words /\ blk.v0 \in Words
      BY PendFields DEF Good
    <3> HIDE DEF m
    <3>4. m = [blk EXCEPT !.pend = pd, !.ldv = blk.ldv, !.v0 = blk.v0]
      BY <3>2, <3>3 DEF Machines
    <3>5. OnlyPend(blk, [blk EXCEPT !.pend = pd, !.ldv = blk.ldv, !.v0 = blk.v0], pd, blk.ldv)
      BY <3>1, <3>3, SetPend
    <3>6. OnlyPend(blk, m, pd, blk.ldv)
      BY <3>4, <3>5
    <3>7. SameRegs(blk, m) /\ m.pend = pd /\ m.ldv = blk.ldv
      BY <3>6 DEF OnlyPend
    <3>8. \A x : Sees(m, x) = Sees(blk, x)
      BY <3>7, SameRegsGood
    <3> QED BY <2>0, <2>3, <3>1, <3>7, <3>8
  <2> QED BY <1>p, <2>1, <2>2, <2>3
<1> HIDE DEF m
<1>1. \A x \in Regs : Sees(b, x) = IF x = r THEN v ELSE Sees(m, x)
  <2> SUFFICES ASSUME NEW x \in Regs PROVE Sees(b, x) = IF x = r THEN v ELSE Sees(m, x)
    OBVIOUS
  <2>1. CASE x = r
    <3>1. x # pr
      BY <2>1, <1>l, CompilerConstants
    <3> QED BY <2>1, <3>1, <1>b, <1>g
  <2>2. CASE x # r
    BY <2>2, <1>b, <1>g, <1>s
  <2> QED BY <2>1, <2>2
<1>2. m.pend.reg # 0 => b.pend = m.pend /\ b.ldv = m.ldv /\ m.pend.reg # r
  <2> SUFFICES ASSUME m.pend.reg # 0 PROVE b.pend = m.pend /\ b.ldv = m.ldv /\ m.pend.reg # r
    OBVIOUS
  <2>1. ~blk.pend.now /\ pr # 0 /\ m.pend.reg = pr
    BY <1>s
  <2>2. b.pend.reg = m.pend.reg /\ b.pend.now = m.pend.now /\ b.ldv = m.ldv
    BY <2>1, <1>b, <1>s
  <2>3. b.pend = m.pend
    BY <2>2, <1>b, <1>s
  <2> QED BY <2>1, <2>2, <2>3, <1>l
<1>3. m.pend.reg = 0 => b.pend.reg = 0
  BY <1>b, <1>s
<1>4. Delayed(b, it, NoHint)
  <2>1. BothWrote(m, b, p, it, r, v)
    BY <1>1, <1>2, <1>3, <1>t DEF BothWrote
  <2> QED BY <2>1, <1>m, DelayedAfter
<1>5. ASSUME NEW x \in Src, x \in Reads(i) \cup {0} PROVE Operand(blk, x) = IVal(p, x)
  <2>1. Operand(m, x) = IVal(p, x)
    BY <1>5, <1>m, ReadsSame
  <2>2. CASE x = 0
    BY <2>1, <2>2 DEF Operand
  <2>3. CASE x # 0
    <3>1. x \in Regs /\ x \in Reads(i)
      BY <1>5, <2>3 DEF Src
    <3>2. Sees(m, x) = Sees(blk, x)
      BY <3>1, <1>a, <1>s
    <3> QED BY <2>1, <2>3, <3>2 DEF Operand
  <2> QED BY <2>2, <2>3
<1>6. it.cond = c
  <2>1. CASE i.op = "beq"
    <3>1. Operand(blk, i.rs) = IVal(p, i.rs) /\ Operand(blk, i.rt) = IVal(p, i.rt)
      BY <2>1, <1>5, <1>i DEF Reads
    <3> QED BY <3>1, <1>t DEF c
  <2>2. CASE i.op = "jr"
    <3>1. Operand(blk, i.rs) = IVal(p, i.rs)
      BY <2>2, <1>5, <1>i DEF Reads
    <3> QED BY <2>2, <3>1, <1>t DEF c, Condition
  <2>3. CASE i.op = "jal"
    BY <2>3, <1>t DEF c, Condition
  <2> QED BY <2>1, <2>2, <2>3
<1>7. SameRest(b, it)
  <2>1. p.hi = itp.hi /\ p.mem = itp.mem /\ p.trap = itp.trap
    BY PipelineIs DEF p
  <2> QED BY <2>1, <1>b, <1>g, <1>t, <1>6 DEF SameRest
<1> QED BY <1>4, <1>7, <1>b, <1>t DEF b, q, it, p

-----------------------------------------------------------------------------
(* The inductive invariant: inside a block every belief is true and the    *)
(* compiler is ahead of the interpreter by the load in flight only; no     *)
(* deferred load survives a delay slot; outside cpu.regs[] is exact.       *)
CompilerInv ==
  /\ HostOK(blk) /\ CopiesOK(blk) /\ ItpOK(itp) /\ SameRest(blk, itp)
  /\ hint \in [reg : Src, uses : BOOLEAN]
  /\ phase \in {"run", "jump", "branch", "leave", "fork", "out"}
  /\ phase # "out" => Good(blk) /\ Delayed(blk, itp, hint)
  /\ phase \in {"leave", "fork"} => blk.pend.reg = 0
  /\ phase \in {"jump", "branch"} /\ blk.pend.reg # 0 => blk.pend.now
  /\ phase = "out" => blk.regs = Drained(itp).regs

(* No look-ahead.                                                          *)
LEMMA NoHintIs == NoHint \in [reg : Src, uses : BOOLEAN]
BY DEF NoHint, Src

(* What an instruction may meet; a load in a delay slot is not deferred.   *)
LEMMA MeetsIs ==
  ASSUME NEW i \in Instructions, NEW e \in Meets(i)
  PROVE  e \in Encounters /\ (e.d => IsLoad(i) /\ i.rt # 0 /\ phase = "run")
<1>0. IoVals \subseteq Words /\ 0 \in Words
  BY CompilerConstants
<1> DEFINE dev == IF ConstTo(blk, i, {Io}) THEN {"field", "mask", "split", "call", "other"} ELSE {"other"}
           either == IF is_vreg_const(blk, i.rs) THEN BOOLEAN ELSE {FALSE}
           defer == IF phase = "run" /\ insns + 1 < MaxInsns /\ i.rt # 0 THEN BOOLEAN ELSE {FALSE}
<1>1. CASE IsLoad(i)
  <2>0. i.op # "sw"
    BY <1>1 DEF IsLoad
  <2>1. e \in [d : defer, dev : dev, code : {FALSE}, slow : either, io : IoVals]
    BY <1>1, <2>0, Zenon DEF Meets
  <2>2. e.d \in defer /\ e \in [d : BOOLEAN, dev : {"field", "mask", "split", "call", "other"}, code : BOOLEAN, slow : BOOLEAN, io : Words]
    BY <2>1, <1>0
  <2> QED BY <1>1, <2>2 DEF Encounters
<1>2. CASE ~IsLoad(i) /\ i.op = "sw"
  <2>1. e \in [d : {FALSE}, dev : dev, code : either, slow : either, io : {0}]
    BY <1>2 DEF Meets
  <2>2. e.d = FALSE /\ e \in [d : BOOLEAN, dev : {"field", "mask", "split", "call", "other"}, code : BOOLEAN, slow : BOOLEAN, io : Words]
    BY <2>1, <1>0
  <2> QED BY <2>2 DEF Encounters
<1>3. CASE ~IsLoad(i) /\ i.op # "sw"
  <2>1. e = [d |-> FALSE, dev |-> "other", code |-> FALSE, slow |-> FALSE, io |-> 0]
    BY <1>3 DEF Meets
  <2> QED BY <2>1, <1>0 DEF Encounters
<1> QED BY <1>1, <1>2, <1>3

(* One lemma per action: the invariant is preserved.                       *)
LEMMA InsnStep ==
  ASSUME Shown = {}, CompilerInv, NEW i \in Instructions, Insn(i)
  PROVE  CompilerInv'
<1>1. PICK e \in Meets(i) :
        LET m == Before(blk, i, e.d)
        IN  /\ ~Traps(m, i, e) /\ Speculated(m, i, e) /\ Allowed(blk, i, e) /\ Allowed(m, i, e)
            /\ blk' = After(emit_instruction(m, i, e), i, e.d)
            /\ itp' = Exec(Pipeline(itp), i, e)
            /\ hint' = IF IsLoad(i) THEN [reg |-> i.rt, uses |-> e.d] ELSE NoHint
  BY DEF Insn
<1> DEFINE m == Before(blk, i, e.d)
           p == Pipeline(itp)
           q == emit_instruction(m, i, e)
           it == Exec(p, i, e)
<1>2. e \in Encounters /\ (e.d => IsLoad(i) /\ i.rt # 0 /\ phase = "run") /\ e.d \in BOOLEAN
  BY MeetsIs DEF Encounters
<1>3. Good(blk) /\ Delayed(blk, itp, hint) /\ ItpOK(itp) /\ SameRest(blk, itp)
  BY DEF CompilerInv, Insn, InSlot
<1>4. ~(blk.pend.now /\ e.d /\ i.rt = blk.pend.reg)
  BY <1>1, AllowedMeans
<1>5. /\ Good(m) /\ Mid(m, p, i) /\ SameRest(m, p) /\ ItpOK(p)
      /\ blk.pend.reg = 0 \/ blk.pend.now => m.pend.reg = 0
  BY <1>2, <1>3, <1>4, BeforeDoes DEF Insn
<1>6. Straight(i) /\ Fits(i)
  BY DEF Insn
<1>7. i.op = "mtc0" => Sees(m, Sp) \in Ram
  <2> SUFFICES ASSUME i.op = "mtc0" PROVE Sees(m, Sp) \in Ram
    OBVIOUS
  <2>1. Drained(itp).regs[Sp] \in Ram
    BY <1>1 DEF Speculated
  <2>2. m.pend.reg = 0
    <3>1. Reads(i) = {} /\ ~IsLoad(i)
      BY DEF Reads, IsLoad
    <3> QED BY <3>1, <1>5 DEF Mid
  <2>3. Sp \in Regs
    BY CompilerConstants
  <2> HIDE DEF m
  <2>4. Sees(m, Sp) = Drained(p).regs[Sp]
    BY <2>2, <2>3, <1>5, MidAgrees
  <2>5. Drained(p).regs[Sp] = Drained(itp).regs[Sp]
    BY <2>3, <1>3, DrainedTwice
  <2> QED BY <2>1, <2>4, <2>5
<1>8. Together(m, q, i, e.d, it)
  <2>1. /\ KeepsRam(m, i) /\ i.rd # 0 => Exec(p, i, e).regs[i.rd] \in Ram
        /\ i.op \in {"lwx", "swx"} => Aligned(IVal(p, i.rs))
        /\ Allowed(m, i, e) /\ ~Traps(m, i, e)
    BY <1>1 DEF Speculated
  <2> HIDE DEF m, p
  <2> QED BY <2>1, <1>2, <1>5, <1>6, <1>7, InsnDoes
<1> HIDE DEF m, p, q, it
<1>9. blk' = After(q, i, e.d) /\ itp' = it /\ hint' = IF IsLoad(i) THEN [reg |-> i.rt, uses |-> e.d] ELSE NoHint
  BY <1>1 DEF m, p, q, it
<1>10. Good(blk') /\ ItpOK(itp') /\ Delayed(blk', itp', hint') /\ SameRest(blk', itp')
       /\ (m.pend.reg = 0 /\ ~e.d => blk'.pend.reg = 0)
  BY <1>8, <1>9 DEF Together
<1>11. hint' \in [reg : Src, uses : BOOLEAN]
  BY <1>2, <1>9, NoHintIs, CompilerConstants
<1>12. /\ phase' \in {"run", "leave", "fork"}
       /\ phase' # "run" => phase \in {"jump", "branch"}
  BY DEF Insn, InSlot
<1>13. phase' \in {"leave", "fork"} => blk'.pend.reg = 0
  <2> SUFFICES ASSUME phase' \in {"leave", "fork"} PROVE blk'.pend.reg = 0
    OBVIOUS
  <2>1. phase \in {"jump", "branch"}
    BY <1>12
  <2>2. m.pend.reg = 0 /\ ~e.d
    BY <2>1, <1>2, <1>5 DEF CompilerInv
  <2> QED BY <2>2, <1>10
<1> QED BY <1>10, <1>11, <1>12, <1>13 DEF CompilerInv, Good

LEMMA BranchStep ==
  ASSUME Shown = {}, CompilerInv, NEW i \in Instructions, Branch(i)
  PROVE  CompilerInv'
<1>1. PICK e \in Meets(i) : Allowed(blk, i, e) /\ itp' = Exec(Pipeline(itp), i, e)
  BY DEF Branch
<1>2. Good(blk) /\ Delayed(blk, itp, hint) /\ ItpOK(itp) /\ SameRest(blk, itp)
  BY DEF CompilerInv, Branch
<1>3. i.op \in {"beq", "jr", "jal"} /\ Fits(i) /\ hint' = NoHint /\ phase' \in {"jump", "branch"}
  BY DEF Branch
<1>4. blk' = SetNow(BranchCode(blk, i))
  BY DEF Branch, SetNow
<1>5. Good(blk') /\ ItpOK(itp') /\ Delayed(blk', itp', NoHint) /\ SameRest(blk', itp') /\ (blk'.pend.reg # 0 => blk'.pend.now)
  BY <1>1, <1>2, <1>3, <1>4, BranchTogether
<1> QED BY <1>3, <1>5, NoHintIs DEF CompilerInv, Good

(* The state outside a block.                                              *)
LEMMA OutIs ==
  ASSUME HostOK(blk'), CopiesOK(blk'), ItpOK(itp'), SameRest(blk', itp'), phase' = "out",
         hint' \in [reg : Src, uses : BOOLEAN], \A r \in Regs : blk'.regs[r] = Drained(itp').regs[r]
  PROVE  CompilerInv'
<1>1. blk'.regs = Drained(itp').regs
  BY SameFile
<1> QED BY <1>1 DEF CompilerInv

LEMMA SyscallStep ==
  ASSUME CompilerInv, NEW i \in Instructions, Syscall(i)
  PROVE  CompilerInv'
<1> DEFINE m == Before(blk, i, FALSE)
           p == Pipeline(itp)
           q == emit_call_c(m)
<1>1. Good(blk) /\ Delayed(blk, itp, hint) /\ ItpOK(itp) /\ SameRest(blk, itp) /\ Fits(i)
  BY DEF CompilerInv, Syscall
<1>2. m.pend.reg = 0 /\ blk' = Exited(q) /\ itp' = p /\ phase' = "out" /\ hint' = NoHint
  BY DEF Syscall
<1>3. Good(m) /\ Mid(m, p, i) /\ SameRest(m, p) /\ ItpOK(p)
  BY <1>1, BeforeDoes
<1> HIDE DEF m, p
<1>4. HostOK(q) /\ CopiesOK(q) /\ Rest(q) = Rest(m) /\ \A r \in Regs : Sees(q, r) = Sees(m, r)
  BY <1>3, CallC DEF Good
<1>5. q.hi = m.hi /\ q.mem = m.mem /\ q.cond = m.cond /\ q.trap = m.trap
  BY <1>4, RestIs
<1> HIDE DEF q
<1>6. /\ HostOK(blk') /\ CopiesOK(blk') /\ \A r \in Regs : blk'.regs[r] = Sees(q, r)
      /\ blk'.hi = q.hi /\ blk'.mem = q.mem /\ blk'.cond = q.cond /\ blk'.trap = q.trap
  BY <1>2, <1>4, ExitedDoes
<1>7. \A r \in Regs : Sees(m, r) = Drained(p).regs[r]
  BY <1>2, <1>3, MidAgrees
<1>8. SameRest(blk', itp')
  BY <1>2, <1>3, <1>5, <1>6 DEF SameRest
<1>9. \A r \in Regs : blk'.regs[r] = Drained(itp').regs[r]
  BY <1>2, <1>4, <1>6, <1>7
<1>10. ItpOK(itp') /\ phase' = "out" /\ hint' \in [reg : Src, uses : BOOLEAN]
  BY <1>2, <1>3, NoHintIs
<1> QED BY <1>6, <1>8, <1>9, <1>10, OutIs

LEMMA FaultStep ==
  ASSUME Shown = {}, CompilerInv, NEW i \in Instructions, Fault(i)
  PROVE  CompilerInv'
<1> DEFINE m == Before(blk, i, FALSE)
           p == Pipeline(itp)
           x == AbortState(m, i)
           s == Stored(x, Homed)
<1>1. PICK e \in Meets(i) :
        /\ ~e.d /\ Traps(m, i, e) /\ Allowed(m, i, e)
        /\ m.pend.reg = 0 /\ x.lazy = {} /\ Slotted \subseteq x.loaded
        /\ blk' = [s EXCEPT !.trap = TRUE] /\ itp' = Exec(p, i, e)
  BY DEF Fault
<1>2. Good(blk) /\ Delayed(blk, itp, hint) /\ ItpOK(itp) /\ SameRest(blk, itp) /\ Fits(i)
      /\ phase' = "out" /\ hint' = NoHint
  BY DEF CompilerInv, Fault
<1>3. Good(m) /\ Mid(m, p, i) /\ SameRest(m, p) /\ ItpOK(p)
  BY <1>2, BeforeDoes
<1> HIDE DEF m, p
<1>4. NoStale(m, i.rs) /\ NoStale(m, i.rt)
  BY <1>1, AllowedMeans
<1>5. Kept(m, x) /\ CopiesOK(x) /\ HostOK(x)
  BY <1>3, <1>4, AbortKept DEF Kept
<1> HIDE DEF x
<1>6. Homed \subseteq Pinned \cup x.loaded
  BY <1>1, CompilerConstants
<1>7. /\ Kept(x, s) /\ CopiesOK(s) /\ HostOK(s)
      /\ \A r \in Regs : s.regs[r] = IF r \in Homed THEN x.home[r] ELSE x.regs[r]
  BY <1>5, <1>6, StoredFields DEF Kept
<1> HIDE DEF s
<1>8. \A r \in Regs : s.regs[r] = Sees(m, r)
  <2> SUFFICES ASSUME NEW r \in Regs PROVE s.regs[r] = Sees(m, r)
    OBVIOUS
  <2>1. Sees(m, r) = Sees(x, r)
    BY <1>5 DEF Kept
  <2>2. Sees(x, r) = Settled(x, r)
    BY <1>1 DEF Sees, Holds
  <2>3. r \in Pinned \cup (Slotted \cap x.loaded) <=> r \in Homed
    BY <1>1, CompilerConstants
  <2> QED BY <2>1, <2>2, <2>3, <1>7 DEF Settled
<1>9. Rest(s) = Rest(m)
  BY <1>5, <1>7 DEF Kept
<1>10. s.hi = m.hi /\ s.mem = m.mem /\ s.cond = m.cond
  BY <1>9, RestIs
<1>11. /\ SameRegs(s, blk') /\ blk'.hi = s.hi /\ blk'.mem = s.mem /\ blk'.cond = s.cond /\ blk'.trap = TRUE
  <2>1. s \in Machines
    BY <1>7 DEF HostOK
  <2> QED BY <1>1, <2>1, SetTrap
<1>12. HostOK(blk') /\ CopiesOK(blk') /\ blk'.regs = s.regs
  BY <1>7, <1>11, SameRegsGood DEF SameRegs
<1>13. itp' = [p EXCEPT !.trap = TRUE]
  <2>1. ITraps(p, i)
    BY <1>1, <1>3, <1>4, TrapsSame
  <2>2. i.op \in {"lw", "sw", "add"}
    BY <2>1 DEF ITraps
  <2> QED BY <1>1, <2>1, <2>2 DEF Exec
<1>14. /\ ItpOK(itp') /\ itp'.regs = p.regs /\ itp'.delay = p.delay /\ itp'.commit = p.commit
       /\ itp'.hi = p.hi /\ itp'.mem = p.mem /\ itp'.cond = p.cond /\ itp'.trap = TRUE
  BY <1>13, <1>3 DEF ItpOK, Processors
<1>15. \A r \in Regs : Drained(itp').regs[r] = Drained(p).regs[r]
  BY <1>3, <1>14, DrainedSame
<1>16. \A r \in Regs : Sees(m, r) = Drained(p).regs[r]
  BY <1>1, <1>3, MidAgrees
<1>17. \A r \in Regs : blk'.regs[r] = Drained(itp').regs[r]
  BY <1>8, <1>12, <1>15, <1>16
<1>18. SameRest(blk', itp')
  BY <1>3, <1>10, <1>11, <1>14 DEF SameRest
<1> QED BY <1>2, <1>12, <1>14, <1>17, <1>18, NoHintIs, OutIs

LEMMA LeaveStep ==
  ASSUME CompilerInv, Leave
  PROVE  CompilerInv'
<1>1. Good(blk) /\ Delayed(blk, itp, hint) /\ ItpOK(itp) /\ SameRest(blk, itp) /\ blk.pend.reg = 0
      /\ hint \in [reg : Src, uses : BOOLEAN]
  BY DEF CompilerInv, Leave
<1>2. blk' = Exited(blk) /\ phase' = "out" /\ itp' = itp /\ hint' = hint
  BY DEF Leave
<1>3. /\ HostOK(blk') /\ CopiesOK(blk') /\ \A r \in Regs : blk'.regs[r] = Sees(blk, r)
      /\ blk'.hi = blk.hi /\ blk'.mem = blk.mem /\ blk'.cond = blk.cond /\ blk'.trap = blk.trap
  BY <1>1, <1>2, ExitedDoes DEF Good
<1>4. \A r \in Regs : (IF blk.pend.reg = r THEN blk.ldv ELSE Sees(blk, r)) = Drained(itp).regs[r]
  BY <1>1, DelayedAgrees
<1>5. \A r \in Regs : blk'.regs[r] = Drained(itp').regs[r]
  BY <1>1, <1>2, <1>3, <1>4, CompilerConstants
<1>6. SameRest(blk', itp')
  BY <1>1, <1>2, <1>3 DEF SameRest
<1> QED BY <1>1, <1>2, <1>3, <1>5, <1>6, OutIs

LEMMA SplitStep ==
  ASSUME CompilerInv, SplitBlock
  PROVE  CompilerInv'
<1> DEFINE a == Applied(blk)
<1>1. Good(blk) /\ Delayed(blk, itp, hint) /\ ItpOK(itp) /\ SameRest(blk, itp) /\ hint \in [reg : Src, uses : BOOLEAN]
  BY DEF CompilerInv, SplitBlock
<1>2. blk' = Exited(a) /\ phase' = "out" /\ itp' = itp /\ hint' = hint
  BY DEF SplitBlock
<1>3. /\ Good(a) /\ a.hi = blk.hi /\ a.mem = blk.mem /\ a.cond = blk.cond /\ a.trap = blk.trap
      /\ \A x \in Regs : Sees(a, x) = IF x = blk.pend.reg THEN blk.ldv ELSE Sees(blk, x)
  BY <1>1, AppliedDoes
<1> HIDE DEF a
<1>4. /\ HostOK(blk') /\ CopiesOK(blk') /\ \A r \in Regs : blk'.regs[r] = Sees(a, r)
      /\ blk'.hi = a.hi /\ blk'.mem = a.mem /\ blk'.cond = a.cond /\ blk'.trap = a.trap
  BY <1>2, <1>3, ExitedDoes DEF Good
<1>5. \A r \in Regs : (IF blk.pend.reg = r THEN blk.ldv ELSE Sees(blk, r)) = Drained(itp).regs[r]
  BY <1>1, DelayedAgrees
<1>6. \A r \in Regs : blk'.regs[r] = Drained(itp').regs[r]
  BY <1>2, <1>3, <1>4, <1>5
<1>7. SameRest(blk', itp')
  BY <1>1, <1>2, <1>3, <1>4 DEF SameRest
<1> QED BY <1>1, <1>2, <1>4, <1>6, <1>7, OutIs

LEMMA ContinueStep ==
  ASSUME CompilerInv, Continue
  PROVE  CompilerInv'
<1>1. phase = "fork" /\ phase' = "run" /\ blk' = blk /\ itp' = itp /\ hint' = hint
  BY DEF Continue
<1> QED BY <1>1 DEF CompilerInv

(* A block is entered with nothing believed and every value in place.      *)
EnteredWith(m, regs, hi, mem) ==
  /\ Good(m) /\ m.pend.reg = 0 /\ m.hi = hi /\ m.mem = mem /\ m.cond = 0 /\ m.trap = FALSE
  /\ \A r \in Regs : Sees(m, r) = regs[r]

(* The entry of a block is such a state.                                   *)
LEMMA EntryGood ==
  ASSUME NEW regs \in [Regs -> Words], NEW hi \in Words, NEW mem \in [Ram -> Words],
         NEW ls \in SUBSET Slotted, regs[Sp] \in Ram
  PROVE  EnteredWith(Entry(regs, hi, mem, ls), regs, hi, mem)
<1> DEFINE home == [r \in Homed |-> IF r \in Pinned \cup ls THEN regs[r] ELSE Junk]
           k == [r \in Regs |-> Junk]
           m == Entry(regs, hi, mem, ls)
<1>1. /\ home \in [Homed -> 0 .. V] /\ k \in [Regs -> 0 .. V]
      /\ \A r \in Pinned \cup ls : home[r] = regs[r] /\ home[r] \in Words /\ home[r] # Junk
      /\ \A r \in Regs : k[r] = Junk
  BY CompilerConstants
<1>2. NoScratch \in [Scratch -> [reg : Plain \cup {0}, val : 0 .. V]] /\ \A s \in Scratch : NoScratch[s].reg = 0
  BY NothingIsACopy DEF NoScratch
<1>3. Nothing \in [reg : Src, val : 0 .. V] /\ Nothing.reg = 0 /\ NoPend \in [reg : Src, now : BOOLEAN] /\ NoPend.reg = 0
  BY NothingIsACopy, NoPendIs
<1>4. {Sp} \subseteq Regs /\ 0 \in Words /\ 0 \in 0 .. V /\ Sp \in Pinned
  BY CompilerConstants
<1>5. m = [k |-> k, lazy |-> {}, known |-> {Sp}, home |-> home, dirty |-> {}, loaded |-> ls,
           sc |-> NoScratch, hb |-> Nothing, pend |-> NoPend,
           regs |-> regs, hi |-> hi, v0 |-> 0, ldv |-> 0, mem |-> mem, cond |-> 0, trap |-> FALSE]
  BY DEF Entry, NoPend
<1> HIDE DEF home, k, m
<1>6. m \in Machines
  BY <1>1, <1>2, <1>3, <1>4, <1>5 DEF Machines
<1>7. /\ m.k = k /\ m.lazy = {} /\ m.known = {Sp} /\ m.home = home /\ m.dirty = {} /\ m.loaded = ls
      /\ m.sc = NoScratch /\ m.hb = Nothing /\ m.pend = NoPend /\ m.regs = regs
      /\ m.hi = hi /\ m.mem = mem /\ m.cond = 0 /\ m.trap = FALSE
  BY <1>5
<1>8. \A r \in Regs : Sees(m, r) = regs[r]
  BY <1>1, <1>7 DEF Sees, Holds, Settled
<1>9. HostOK(m)
  BY <1>1, <1>6, <1>7 DEF HostOK
<1>10. CopiesOK(m) /\ ConstsOK(m) /\ BaseOK(m) /\ KnownOK(m)
  BY <1>1, <1>2, <1>3, <1>4, <1>7, <1>8 DEF CopiesOK, ConstsOK, BaseOK, KnownOK
<1> QED BY <1>3, <1>7, <1>8, <1>9, <1>10 DEF Good, EnteredWith, m

(* Nothing is in flight there.                                             *)
LEMMA EntryDelayed ==
  ASSUME NEW m, NEW it, NEW h, it.delay = Nothing, it.commit = Nothing, m.pend.reg = 0,
         \A r \in Regs : Sees(m, r) = it.regs[r]
  PROVE  Delayed(m, it, h)
BY NothingIsACopy DEF Delayed

LEMMA NewBlockStep ==
  ASSUME CompilerInv, NewBlock
  PROVE  CompilerInv'
<1> DEFINE d == Drained(itp)
<1>1. HostOK(blk) /\ ItpOK(itp) /\ SameRest(blk, itp) /\ blk.regs = d.regs /\ blk.regs[Sp] \in Ram
  BY DEF CompilerInv, NewBlock
<1>2. PICK ls \in SUBSET Slotted : blk' = Entry(blk.regs, blk.hi, blk.mem, ls)
  BY DEF NewBlock
<1>3. itp' = [d EXCEPT !.trap = FALSE, !.cond = 0] /\ phase' = "run" /\ hint' = NoHint
  BY DEF NewBlock
<1>4. ItpOK(d) /\ d.delay = Nothing /\ d.commit = Nothing /\ d.hi = itp.hi /\ d.mem = itp.mem
  BY <1>1, DrainedIs
<1> HIDE DEF d
<1>5. /\ ItpOK(itp') /\ itp'.delay = Nothing /\ itp'.commit = Nothing /\ itp'.hi = d.hi /\ itp'.mem = d.mem
      /\ itp'.regs = d.regs /\ itp'.cond = 0 /\ itp'.trap = FALSE
  BY <1>3, <1>4, CompilerConstants DEF ItpOK, Processors
<1>6. blk.regs \in [Regs -> Words] /\ blk.hi \in Words /\ blk.mem \in [Ram -> Words]
  BY <1>1, MachineFields DEF HostOK
<1>7. /\ Good(blk') /\ blk'.pend.reg = 0 /\ blk'.hi = blk.hi /\ blk'.mem = blk.mem /\ blk'.cond = 0 /\ blk'.trap = FALSE
      /\ \A r \in Regs : Sees(blk', r) = blk.regs[r]
  <2>1. EnteredWith(Entry(blk.regs, blk.hi, blk.mem, ls), blk.regs, blk.hi, blk.mem)
    BY <1>1, <1>6, EntryGood
  <2>2. EnteredWith(blk', blk.regs, blk.hi, blk.mem)
    BY <1>2, <2>1
  <2> QED BY <2>2 DEF EnteredWith
<1>8. Delayed(blk', itp', hint')
  BY <1>1, <1>5, <1>7, EntryDelayed
<1>9. SameRest(blk', itp')
  BY <1>1, <1>4, <1>5, <1>7 DEF SameRest
<1> QED BY <1>3, <1>5, <1>7, <1>8, <1>9, NoHintIs DEF CompilerInv, Good

(* The invariant holds at the start, and is preserved.                     *)
LEMMA CompilerStarts == BcInit => CompilerInv
<1> SUFFICES ASSUME BcInit PROVE CompilerInv
  OBVIOUS
<1> DEFINE regs == [r \in Regs |-> 0]
           mem == [a \in Ram |-> 1]
<1>1. 1 \in Words /\ 0 \in Words /\ 0 \in 0 .. V /\ 0 \in Ram /\ Sp \in Regs
  BY CompilerConstants, CompilerAssumption DEF Words
<1>2. itp = [regs |-> regs, hi |-> 0, mem |-> mem, delay |-> Nothing, commit |-> Nothing, cond |-> 0, trap |-> FALSE]
      /\ phase = "run" /\ hint = NoHint
  BY DEF BcInit
<1>3. regs \in [Regs -> Words] /\ mem \in [Ram -> Words] /\ regs[Sp] \in Ram
  BY <1>1
<1> HIDE DEF regs, mem
<1>4. /\ itp.regs = regs /\ itp.hi = 0 /\ itp.mem = mem /\ itp.delay = Nothing /\ itp.commit = Nothing
      /\ itp.cond = 0 /\ itp.trap = FALSE
  BY <1>2
<1>5. ItpOK(itp)
  BY <1>1, <1>2, <1>3, <1>4, LoadFields, NothingIsACopy DEF ItpOK, Processors
<1>6. PICK ls \in SUBSET Slotted : blk = Entry(itp.regs, 0, itp.mem, ls)
  BY DEF BcInit
<1>7. /\ Good(blk) /\ blk.pend.reg = 0 /\ blk.hi = 0 /\ blk.mem = itp.mem /\ blk.cond = 0 /\ blk.trap = FALSE
      /\ \A r \in Regs : Sees(blk, r) = itp.regs[r]
  <2>1. EnteredWith(Entry(itp.regs, 0, itp.mem, ls), itp.regs, 0, itp.mem)
    BY <1>1, <1>3, <1>4, EntryGood
  <2>2. EnteredWith(blk, itp.regs, 0, itp.mem)
    BY <1>6, <2>1
  <2> QED BY <2>2 DEF EnteredWith
<1>8. Delayed(blk, itp, hint)
  BY <1>4, <1>7, EntryDelayed
<1>9. SameRest(blk, itp)
  BY <1>4, <1>7 DEF SameRest
<1> QED BY <1>2, <1>5, <1>7, <1>8, <1>9, NoHintIs DEF CompilerInv, Good

LEMMA CompilerStep ==
  ASSUME Shown = {}, CompilerInv, [BcNext]_bcVars
  PROVE  CompilerInv'
<1>1. CASE \E i \in Instructions : Insn(i) \/ Branch(i) \/ Syscall(i) \/ Fault(i)
  <2> PICK i \in Instructions : Insn(i) \/ Branch(i) \/ Syscall(i) \/ Fault(i)
    BY <1>1
  <2>1. CASE Insn(i)
    BY <2>1, InsnStep
  <2>2. CASE Branch(i)
    BY <2>2, BranchStep
  <2>3. CASE Syscall(i)
    BY <2>3, SyscallStep
  <2>4. CASE Fault(i)
    BY <2>4, FaultStep
  <2> QED BY <2>1, <2>2, <2>3, <2>4
<1>2. CASE Continue
  BY <1>2, ContinueStep
<1>3. CASE Leave
  BY <1>3, LeaveStep
<1>4. CASE SplitBlock
  BY <1>4, SplitStep
<1>5. CASE NewBlock
  BY <1>5, NewBlockStep
<1>6. CASE UNCHANGED bcVars
  BY <1>6 DEF CompilerInv, bcVars
<1> QED BY <1>1, <1>2, <1>3, <1>4, <1>5, <1>6 DEF BcNext

(* What the properties call View is what the proof calls Sees.             *)
LEMMA ViewIs == \A r : View(r) = Sees(blk, r)
BY DEF View, Sees

(* The invariant implies the two properties.                               *)
LEMMA CompilerBeliefs == CompilerInv => BeliefsTrue
<1> SUFFICES ASSUME CompilerInv PROVE BeliefsTrue
  OBVIOUS
<1>1. BcTypeOK
  <2>1. HostOK(blk) /\ blk \in Machines /\ ItpOK(itp) /\ itp \in Processors
    BY DEF CompilerInv, HostOK, ItpOK
  <2>2. /\ blk.home \in [Homed -> 0 .. V] /\ blk.regs \in [Regs -> Words]
        /\ blk.k \in [Regs -> 0 .. V] /\ blk.mem \in [Ram -> Words]
        /\ blk.lazy \subseteq Regs /\ blk.known \subseteq Regs /\ blk.loaded \subseteq Slotted
    BY <2>1, MachineFields
  <2>3. blk.dirty \subseteq blk.loaded
    BY <2>1 DEF HostOK
  <2>4. itp.regs \in [Regs -> Words]
    BY <2>1, ProcessorFields
  <2>5. hint.reg \in Src
    BY DEF CompilerInv
  <2> QED BY <2>2, <2>3, <2>4, <2>5 DEF BcTypeOK
<1>2. ScratchTrue
  BY ViewIs DEF ScratchTrue, CompilerInv, CopiesOK
<1>3. ConstantsTrue
  BY ViewIs DEF ConstantsTrue, CompilerInv, Good, ConstsOK, BaseOK, KnownOK
<1> QED BY <1>1, <1>2, <1>3 DEF BeliefsTrue

LEMMA CompilerAgrees == CompilerInv => Agrees
<1> SUFFICES ASSUME CompilerInv PROVE Agrees
  OBVIOUS
<1>1. phase # "out" => \A r \in Regs : (IF blk.pend.reg = r THEN blk.ldv ELSE View(r)) = Drained(itp).regs[r]
  BY DelayedAgrees, ViewIs DEF CompilerInv
<1>2. ExitsExact
  BY DEF ExitsExact, CompilerInv
<1> QED BY <1>1, <1>2 DEF Agrees, CompilerInv, SameRest

(* Where none of the known defects is met, what the compiler believes of   *)
(* registers, constants, pointers and cached copies is true after every    *)
(* instruction of every block.                                             *)
THEOREM BeliefsHold ==
  ASSUME Shown = {}
  PROVE  BcSpec => []BeliefsTrue
<1>1. CompilerInv /\ [BcNext]_bcVars => CompilerInv'
  BY CompilerStep
<1> QED BY <1>1, CompilerStarts, CompilerBeliefs, PTL DEF BcSpec

(* There compiled code and the interpreter agree after every instruction,  *)
(* and at whatever exit a block is left by.                                *)
THEOREM CompiledAgrees ==
  ASSUME Shown = {}
  PROVE  BcSpec => []Agrees
<1>1. CompilerInv /\ [BcNext]_bcVars => CompilerInv'
  BY CompilerStep
<1> QED BY <1>1, CompilerStarts, CompilerAgrees, PTL DEF BcSpec
=============================================================================
