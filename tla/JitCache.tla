------------------------------ MODULE JitCache ------------------------------
(***************************************************************************)
(* The compiled blocks of src/dynarec_cache.c: the code buffer, the page   *)
(* table of blocks, the hash table that compiled jumps use, direct links   *)
(* between blocks and the sites that wait for one, the page generations    *)
(* and dirty flags by which writes to code are noticed, and the patch that *)
(* run_jit_chain puts on a polling block's entry.                          *)
(*                                                                         *)
(* Guest code at a pc is a version number, and its hash the version.  The  *)
(* code buffer is a sequence of natives: where the entry of one comes from *)
(* (first), what it was compiled from, the pages its stores check, and the *)
(* native each of its direct links leads to, 0 for the way back to C.  The *)
(* micro-cache holds the same entries as the page table and is left out.   *)
(***************************************************************************)
EXTENDS Integers, Sequences

CONSTANTS Pcs,           \* block addresses
          PageOf,        \* the page of each
          Links,         \* the pcs that each block jumps to directly
          Versions,      \* contents of the code at a pc
          CodeRoom,          \* natives that fit in the code buffer
          Gens,          \* 2^8: a page generation is a byte
          Epochs,        \* 2^16: smc_page_epoch
          WriteKinds,        \* ways the guest writes RAM, of const, bus and var
          MaxCodeWrites      \* bound: writes to code

ASSUME JitAssumption ==
  /\ Pcs \subseteq Nat \ {0}
  /\ PageOf \in [Pcs -> {PageOf[pc] : pc \in Pcs}]
  /\ Links \in [Pcs -> SUBSET Pcs]
  /\ Versions # {} /\ 0 \notin Versions
  /\ {CodeRoom, Gens, Epochs} \subseteq Nat \ {0}

VARIABLES ram,           \* the guest's code
          jit,           \* the tables
          native,           \* the native that runs, or 0 in C
          curpc,         \* its pc
          codeWrites

jitVars == <<ram, jit, native, curpc, codeWrites>>

Pages == {PageOf[pc] : pc \in Pcs}
NoCode == 0
NoBlock == [native |-> NoCode, ver |-> 0, gen |-> 0, epoch |-> 0]
NoBlocks == [pc \in Pcs |-> NoBlock]
EmptyHt == [pc \in Pcs |-> NoCode]

(* poll: poll_patched_addr, poll_detect_pc, and whether the buffer has     *)
(* been emptied since the entry was saved.                                 *)
JitInit ==
  /\ ram = [pc \in Pcs |-> CHOOSE v \in Versions : TRUE]
  /\ jit = [code |-> <<>>, tab |-> NoBlocks, ht |-> EmptyHt,
            sites |-> {},
            l2 |-> {}, dirty |-> {},
            gen |-> [p \in Pages |-> 0],
            epoch |-> 0, flushed |-> 0,
            poll |-> [addr |-> NoCode, pc |-> NoCode, old |-> FALSE]]
  /\ native = NoCode /\ curpc = NoCode /\ codeWrites = 0

-----------------------------------------------------------------------------
\* Mutant of ResetBuffer: the hash table survives.
ResetBufferKeepsHt(j) ==
  [j EXCEPT !.code = <<>>, !.tab = NoBlocks, !.l2 = {}, !.dirty = {}, !.sites = {},
            !.poll.old = j.poll.addr # NoCode]

(* compile_block, when the buffer is nearly full.                          *)
ResetBuffer(j) ==
  [j EXCEPT !.code = <<>>, !.tab = NoBlocks, !.ht = EmptyHt, !.l2 = {}, !.dirty = {}, !.sites = {},
            !.poll.old = j.poll.addr # NoCode]

(* The two-tier check of a block on a page that was written.               *)
Suspect(j, pc) == j.tab[pc].native # NoCode /\ j.tab[pc].gen # j.gen[PageOf[pc]]
CodeChanged(j, pc) == j.tab[pc].ver # ram[pc]
DropBlock(j, pc) == [j EXCEPT !.tab[pc] = NoBlock]
CodeVerified(j, pc) == [j EXCEPT !.tab[pc].gen = j.gen[PageOf[pc]]]
Checked(j, pc) ==
  CASE Suspect(j, pc) /\ CodeChanged(j, pc) -> NoBlock
    [] Suspect(j, pc) /\ ~CodeChanged(j, pc) -> [j.tab[pc] EXCEPT !.gen = j.gen[PageOf[pc]]]
    [] OTHER -> j.tab[pc]

(* The native new is emitted, with emit_direct_link for each target of ts: *)
(* the target is checked and linked to, or waited for.                     *)
emit_direct_link(j, new, ts) ==
  LET tab == [t \in Pcs |-> IF t \in ts THEN Checked(j, t) ELSE j.tab[t]]
      n == Len(j.code) + 1
  IN  [j EXCEPT !.tab = tab,
                !.code = Append(@, [new EXCEPT !.link = [t \in ts |-> tab[t].native]]),
                !.sites = @ \cup {<<n, t>> : t \in {u \in ts : tab[u].native = NoCode}}]

(* cache_block: a new code page starts a new epoch, and the page is clean  *)
(* again.                                                                  *)
cache_block(j, pc, n) ==
  LET p == PageOf[pc]
      e == IF p \in j.l2 THEN j.epoch ELSE (j.epoch + 1) % Epochs
  IN  [j EXCEPT !.l2 = @ \cup {p}, !.dirty = @ \ {p}, !.epoch = e,
                !.tab[pc] = [native |-> n, ver |-> ram[pc], gen |-> j.gen[p], epoch |-> e]]

compile_block(j, pc) ==
  LET k == IF Len(j.code) = CodeRoom THEN ResetBuffer(j) ELSE j
      new == [pc |-> pc, ver |-> ram[pc], knows |-> k.l2, first |-> "own",
              link |-> [t \in Links[pc] |-> NoCode]]
  IN  cache_block(emit_direct_link(k, new, Links[pc]), pc, Len(k.code) + 1)

apply_pending_patches(j, pc) ==
  LET n == j.tab[pc].native
      Waits(m, t) == t = pc /\ <<m, pc>> \in j.sites
  IN  [j EXCEPT !.sites = {s \in @ : s[2] # pc},
                !.code = [m \in DOMAIN j.code |-> [j.code[m] EXCEPT !.link =
                 [t \in DOMAIN @ |-> IF Waits(m, t) THEN n ELSE @[t]]]]]

jit_ht_add(j, pc) == [j EXCEPT !.ht[pc] = j.tab[pc].native]
jit_ht_remove(j, pc) == [j EXCEPT !.ht[pc] = NoCode]

dynarec_ensure_block(j, pc) ==
  IF j.tab[pc].native # NoCode THEN (IF j.ht[pc] = NoCode THEN jit_ht_add(j, pc) ELSE j)
  ELSE jit_ht_add(apply_pending_patches(compile_block(j, pc), pc), pc)

(* run_jit_chain: the epoch check, which first empties the hash table once *)
(* per epoch, then the generation and hash check.                          *)
EpochCheck(j, pc) ==
  IF j.tab[pc].epoch = j.epoch THEN j
  ELSE LET k == IF j.flushed = j.epoch THEN j ELSE [j EXCEPT !.ht = EmptyHt, !.flushed = j.epoch]
       IN  dynarec_ensure_block(jit_ht_remove(DropBlock(k, pc), pc), pc)

\* Mutant of GenCheck: a dropped block is not compiled again.
GenCheckTrusts(j, pc) == IF Suspect(j, pc) THEN CodeVerified(j, pc) ELSE j

GenCheck(j, pc) ==
  CASE Suspect(j, pc) /\ CodeChanged(j, pc) -> dynarec_ensure_block(jit_ht_remove(DropBlock(j, pc), pc), pc)
    [] Suspect(j, pc) /\ ~CodeChanged(j, pc) -> CodeVerified(j, pc)
    [] OTHER -> j

(* The saved words go back to the entry's address, whatever is there now.  *)
RestorePoll(j) ==
  LET a == j.poll.addr
  IN  IF a = NoCode THEN j
      ELSE [j EXCEPT !.poll.addr = NoCode, !.poll.old = FALSE,
                     !.code = IF a \in DOMAIN @ THEN [@ EXCEPT ![a].first = IF j.poll.old THEN "other" ELSE "own"]
                                                ELSE @]

-----------------------------------------------------------------------------
(* C dispatch to a pc that is not the polled one.                          *)
JitDispatch(pc) ==
  /\ native = NoCode /\ pc # jit.poll.pc
  /\ jit' = GenCheck(EpochCheck(dynarec_ensure_block(jit, pc), pc), pc)
  /\ native' = jit'.tab[pc].native /\ curpc' = pc
  /\ UNCHANGED <<ram, codeWrites>>

(* The polled pc again: its block is restored, and time leaps.             *)
DispatchPolled ==
  /\ native = NoCode /\ jit.poll.pc # NoCode
  /\ jit' = [RestorePoll(jit) EXCEPT !.poll.pc = NoCode]
  /\ UNCHANGED <<ram, native, curpc, codeWrites>>

InNative == native # NoCode /\ jit.code[native].first # "abort"

(* A direct link, and a jump through the hash table.                       *)
FollowLink(t) ==
  /\ InNative /\ t \in Links[curpc]
  /\ jit.code[native].link[t] # NoCode
  /\ native' = jit.code[native].link[t] /\ curpc' = t
  /\ UNCHANGED <<ram, jit, codeWrites>>
JumpHt(pc) ==
  /\ InNative /\ jit.ht[pc] # NoCode
  /\ native' = jit.ht[pc] /\ curpc' = pc
  /\ UNCHANGED <<ram, jit, codeWrites>>

(* The chain ends elsewhere than it began: any patch is undone.            *)
JitChainEnds ==
  /\ native # NoCode
  /\ jit' = [RestorePoll(jit) EXCEPT !.poll.pc = NoCode]
  /\ native' = NoCode /\ curpc' = NoCode
  /\ UNCHANGED <<ram, codeWrites>>

(* It ends where it began: the block is taken for a polling loop.          *)
ChainPolls(pc) ==
  /\ native # NoCode
  /\ jit' = [jit EXCEPT !.poll = [addr |-> IF @.addr = NoCode THEN jit.tab[pc].native ELSE @.addr,
                                  pc |-> pc, old |-> IF @.addr = NoCode THEN FALSE ELSE @.old],
                        !.code = IF jit.poll.addr = NoCode /\ jit.tab[pc].native # NoCode
                                   THEN [@ EXCEPT ![jit.tab[pc].native].first = "abort"] ELSE @]
  /\ native' = NoCode /\ curpc' = NoCode
  /\ UNCHANGED <<ram, codeWrites>>

-----------------------------------------------------------------------------
jit_smc_handler(j, p) ==
  IF p \in j.dirty \/ p \notin j.l2 THEN j
  ELSE [j EXCEPT !.dirty = @ \cup {p}, !.gen[p] = (@ + 1) % Gens,
                 !.ht = [pc \in Pcs |-> IF PageOf[pc] = p /\ j.tab[pc].native # NoCode THEN NoCode ELSE @[pc]]]
jit_invalidate_page(j, p) == IF p \in j.l2 THEN [j EXCEPT !.gen[p] = (@ + 1) % Gens] ELSE j

(* The write itself.                                                       *)
WriteCode(pc, v) ==
  /\ codeWrites < MaxCodeWrites /\ codeWrites' = codeWrites + 1
  /\ ram' = [ram EXCEPT ![pc] = v]

(* A word store to an address known when the block was compiled: checked   *)
(* if the page had code then.                                              *)
StoreConst(pc, v) ==
  /\ InNative /\ "const" \in WriteKinds
  /\ WriteCode(pc, v)
  /\ jit' = IF PageOf[pc] \in jit.code[native].knows THEN jit_smc_handler(jit, PageOf[pc]) ELSE jit
  /\ UNCHANGED <<native, curpc>>

(* WriteWord and DMA into RAM.                                             *)
WriteBus(pc, v) ==
  /\ "bus" \in WriteKinds
  /\ WriteCode(pc, v)
  /\ jit' = jit_invalidate_page(jit, PageOf[pc])
  /\ UNCHANGED <<native, curpc>>

(* A store to a computed address writes RAM and nothing else.              *)
StoreVar(pc, v) ==
  /\ InNative /\ "var" \in WriteKinds
  /\ WriteCode(pc, v)
  /\ UNCHANGED <<jit, native, curpc>>

JitNext ==
  \/ \E pc \in Pcs : JitDispatch(pc) \/ JumpHt(pc) \/ FollowLink(pc) \/ ChainPolls(pc)
  \/ DispatchPolled \/ JitChainEnds
  \/ \E pc \in Pcs, v \in Versions : StoreConst(pc, v) \/ WriteBus(pc, v) \/ StoreVar(pc, v)

JitSpec == JitInit /\ [][JitNext]_jitVars

-----------------------------------------------------------------------------
Natives ==
  [pc : Pcs, ver : Versions, knows : SUBSET Pages, first : {"own", "abort", "other"},
   link : UNION {[ts -> 0 .. CodeRoom] : ts \in SUBSET Pcs}]
Entries == [native : 0 .. CodeRoom, ver : Versions \cup {0}, gen : 0 .. Gens - 1, epoch : 0 .. Epochs - 1]
Tables ==
  [code : Seq(Natives), tab : [Pcs -> Entries], ht : [Pcs -> 0 .. CodeRoom],
   sites : SUBSET ((1 .. CodeRoom) \X Pcs), l2 : SUBSET Pages, dirty : SUBSET Pages,
   gen : [Pages -> 0 .. Gens - 1], epoch : 0 .. Epochs - 1, flushed : 0 .. Epochs - 1,
   poll : [addr : 0 .. CodeRoom, pc : Pcs \cup {NoCode}, old : BOOLEAN]]

JitTypeOK ==
  /\ ram \in [Pcs -> Versions]
  /\ jit \in Tables /\ Len(jit.code) <= CodeRoom /\ jit.dirty \subseteq jit.l2
  /\ native \in 0 .. CodeRoom /\ curpc \in Pcs \cup {NoCode}

(* However often the buffer is emptied, no table, link or site leads to    *)
(* code that is gone or that was compiled for another pc.                  *)
LiveCode(j) == 1 .. Len(j.code)
PointsTo(j, n, pc) == n = NoCode \/ (n \in LiveCode(j) /\ j.code[n].pc = pc)
NoDanglingCode(j) ==
  /\ \A pc \in Pcs : PointsTo(j, j.tab[pc].native, pc) /\ PointsTo(j, j.ht[pc], pc)
  /\ \A n \in LiveCode(j) : DOMAIN j.code[n].link = Links[j.code[n].pc]
  /\ \A n \in LiveCode(j) : \A t \in Links[j.code[n].pc] : PointsTo(j, j.code[n].link[t], t)
  /\ \A s \in j.sites : s[1] \in LiveCode(j)

(* An entry of the table remembers the version its code was made from.     *)
EntriesTrue(j) ==
  \A pc \in Pcs : j.tab[pc].native # NoCode => j.code[j.tab[pc].native].ver = j.tab[pc].ver

(* Every link is made or waits for its target, and none waits for one that *)
(* is already there: a compiled target is reached without going through C. *)
LinksWait(j) ==
  \A n \in LiveCode(j) : \A t \in Links[j.code[n].pc] :
    (j.code[n].link[t] = NoCode) <=> (<<n, t>> \in j.sites)
NoneWaitsInVain(j) == \A s \in j.sites : j.tab[s[2]].native = NoCode

(* The tables, the links and the code buffer belong together at all times. *)
CodeTablesSound ==
  /\ JitTypeOK
  /\ NoDanglingCode(jit) /\ PointsTo(jit, native, curpc)
  /\ EntriesTrue(jit) /\ LinksWait(jit) /\ NoneWaitsInVain(jit)

(* When C starts a block on a page whose generation has moved since the    *)
(* block was last checked, the block is the guest's code.                  *)
StartIsChecked ==
  \A pc \in Pcs : Suspect(jit, pc) /\ JitDispatch(pc) => native' # NoCode /\ jit'.code[native'].ver = ram[pc]
SuspectsAreChecked == [][StartIsChecked]_jitVars

(* Compiled code that starts is the guest's code of that moment, for       *)
(* stores that the code generator checks: "Removes all jit_ht entries for  *)
(* blocks on this page", "cleared on recompile".                           *)
NoStaleStart ==
  [][native' # NoCode /\ native' # native => jit'.code[native'].ver = ram[curpc']]_jitVars
=============================================================================
