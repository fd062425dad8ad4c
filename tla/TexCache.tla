----------------------------- MODULE TexCache ------------------------------
(* The PS2 backend's copies of PlayStation VRAM: psx_vram_shadow in main    *)
(* memory, its mirror in the GS, and the texture pages uploaded to the GS   *)
(* from the shadow (gpu_ps2_texture.c), kept current by generation counts   *)
(* per block of VRAM, per page slot and per entry of prim_tex_cache         *)
(* (gpu_ps2_primitives.c).                                                  *)
(*                                                                          *)
(* VRAM is a set of blocks that hold one value each.  A slot is a texture   *)
(* page in one format: its rows of blocks, and the page it shares with the  *)
(* slots of other formats.                                                  *)
EXTENDS Integers, Sequences, FiniteSets, FiniteSetsExt

CONSTANTS
  VramBlocks,
  TexSlots,
  SlotRows,      \* [TexSlots -> set of rows, each a set of blocks]
  SlotPage,      \* [TexSlots -> page]
  TexRegions,    \* sequences of blocks that an upload or a fill covers
  TexCopies,     \* [blocks, tracked]: what a copy covers and what it marks
  PackWords,     \* words the backend gathers before it sends them (4)
  MaxGen,        \* bound on vram_gen_counter
  TexShown       \* "abort", "reset", "wrap": see the actions that name them

VARIABLES
  vram_gen_counter, vram_page_gen, page_gen, prim_tex_cache,
  shadow, mirror, page,
  loading,       \* blocks an A0 transfer has still to receive
  target,        \* blocks the GS expects next
  pending,       \* words gathered for it
  untracked,     \* blocks last written without dirty tracking
  rendered,      \* blocks the GS has drawn to since the shadow was in step
  sampled        \* the slot just drawn with, or "none"

genVars == <<vram_gen_counter, vram_page_gen, page_gen, prim_tex_cache>>
texVars == <<genVars, shadow, mirror, page, loading, target, pending, untracked, rendered, sampled>>

Junk == 2
Content == {0, 1}
SlotBlocks(s) == UNION SlotRows[s]

ASSUME TexAssumption ==
  /\ \A s \in TexSlots : SlotBlocks(s) # {} /\ SlotBlocks(s) \subseteq VramBlocks
  /\ \A r \in TexRegions : r \in Seq(VramBlocks) /\ \A i, j \in DOMAIN r : r[i] = r[j] => i = j
  /\ PackWords \in Nat \ {0} /\ MaxGen \in Nat
  /\ TexShown \subseteq {"abort", "reset", "wrap"}

TexInit ==
  /\ vram_gen_counter = 0 /\ vram_page_gen = [b \in VramBlocks |-> 0]
  /\ page_gen = [s \in TexSlots |-> 0]
  /\ prim_tex_cache = [s \in TexSlots |-> [valid |-> FALSE, gen |-> 0, global |-> 0]]
  /\ shadow = [b \in VramBlocks |-> 0] /\ mirror = [b \in VramBlocks |-> 0]
  /\ page = [s \in TexSlots |-> [b \in SlotBlocks(s) |-> Junk]]
  /\ loading = <<>> /\ target = <<>> /\ pending = <<>>
  /\ untracked = {} /\ rendered = {} /\ sampled = "none"

----------------------------------------------------------------------------
BlocksOf(r) == {r[i] : i \in DOMAIN r}
Over(f, bs, v) == [b \in VramBlocks |-> IF b \in bs THEN v ELSE f[b]]

(* Mutant: each block counts its own writes.                                *)
DirtyByOne(bs) ==
  /\ vram_gen_counter' = vram_gen_counter + 1
  /\ vram_page_gen' = [b \in VramBlocks |-> IF b \in bs THEN vram_page_gen[b] + 1 ELSE vram_page_gen[b]]

(* vram_gen_counter++ and Tex_Cache_DirtyRegion.                            *)
Tex_Cache_DirtyRegion(bs) ==
  /\ vram_gen_counter' = vram_gen_counter + 1
  /\ vram_page_gen' = Over(vram_page_gen, bs, vram_gen_counter + 1)

(* Tex_Cache_GetPageGen.                                                    *)
get_region_gen(s) == Max({vram_page_gen[b] : b \in SlotBlocks(s)})

(* The words ws reach the blocks the GS expects next.                       *)
Sent(ws) == [b \in VramBlocks |->
  IF \E i \in 1..Len(ws) : i <= Len(target) /\ target[i] = b
  THEN ws[CHOOSE i \in 1..Len(ws) : target[i] = b] ELSE mirror[b]]

(* A written block is in step again unless its write is not tracked.        *)
Rewritten(bs, tracked) ==
  /\ untracked' = (untracked \ bs) \cup (bs \ tracked)
  /\ rendered' = rendered \ bs
  /\ sampled' = "none"

Idle == loading = <<>>

----------------------------------------------------------------------------
(* GP0(A0): the whole region is marked before its first word.               *)
LoadStart(r) ==
  /\ Idle /\ vram_gen_counter < MaxGen
  /\ Tex_Cache_DirtyRegion(BlocksOf(r))
  /\ loading' = r /\ target' = r
  /\ sampled' = "none"
  /\ UNCHANGED <<page_gen, prim_tex_cache, shadow, mirror, page, pending, untracked, rendered>>

(* GPU_Backend_VRAMWrite sends whole packets, GPU_Backend_VRAMFlush the     *)
(* rest.                                                                    *)
Flushes(ws, final) == Len(ws) >= PackWords \/ final

LoadWord(v) ==
  LET ws == Append(pending, v) IN
  /\ ~Idle
  /\ shadow' = [shadow EXCEPT ![Head(loading)] = v]
  /\ loading' = Tail(loading)
  /\ Rewritten({Head(loading)}, {Head(loading)})
  /\ IF Flushes(ws, Len(loading) = 1)
     THEN mirror' = Sent(ws) /\ pending' = <<>> /\ target' = SubSeq(target, Len(ws) + 1, Len(target))
     ELSE pending' = ws /\ UNCHANGED <<mirror, target>>
  /\ UNCHANGED <<genVars, page>>

(* GP1(01) ends the transfer.  Words already gathered stay in the backend   *)
(* and come first in the next transfer: avoided unless "abort" is shown.    *)
LoadAbort ==
  /\ ~Idle /\ (pending # <<>> => "abort" \in TexShown)
  /\ loading' = <<>> /\ target' = <<>>
  /\ UNCHANGED <<genVars, shadow, mirror, page, pending, untracked, rendered, sampled>>

(* GS_UploadRegionFast.                                                     *)
UploadFast(r, v) ==
  /\ Idle /\ vram_gen_counter < MaxGen
  /\ Tex_Cache_DirtyRegion(BlocksOf(r))
  /\ shadow' = Over(shadow, BlocksOf(r), v) /\ mirror' = Over(mirror, BlocksOf(r), v)
  /\ Rewritten(BlocksOf(r), BlocksOf(r))
  /\ UNCHANGED <<page_gen, prim_tex_cache, page, loading, target, pending>>

(* GP0(80): copied in the shadow, the destination uploaded from it.  A copy *)
(* that wraps is marked only up to the edge of VRAM.                        *)
CopyRect(bs, tracked, src) ==
  /\ Idle /\ vram_gen_counter < MaxGen /\ (tracked # bs => "wrap" \in TexShown)
  /\ Tex_Cache_DirtyRegion(tracked)
  /\ shadow' = Over(shadow, bs, shadow[src]) /\ mirror' = Over(mirror, bs, shadow[src])
  /\ Rewritten(bs, bs)
  /\ UNCHANGED <<page_gen, prim_tex_cache, page, loading, target, pending>>

(* GP0(02) fills the shadow and the mirror and marks nothing.               *)
FillRect(r, v) ==
  /\ Idle
  /\ shadow' = Over(shadow, BlocksOf(r), v) /\ mirror' = Over(mirror, BlocksOf(r), v)
  /\ Rewritten(BlocksOf(r), {})
  /\ UNCHANGED <<genVars, page, loading, target, pending>>

(* The GS draws to its own memory; GP0(C0) brings a region back.            *)
Render(b, v) ==
  /\ Idle
  /\ mirror' = [mirror EXCEPT ![b] = v]
  /\ rendered' = rendered \cup {b} /\ sampled' = "none"
  /\ UNCHANGED <<genVars, shadow, page, loading, target, pending, untracked>>

VRAMReadback(r) ==
  /\ Idle
  /\ shadow' = [b \in VramBlocks |-> IF b \in BlocksOf(r) THEN mirror[b] ELSE shadow[b]]
  /\ Rewritten(BlocksOf(r), {})
  /\ UNCHANGED <<genVars, mirror, page, loading, target, pending>>

(* GP1(00) clears VRAM and empties prim_tex_cache; the pages' generations   *)
(* stay, so that a page uploaded before is not uploaded again.              *)
ResetVram ==
  /\ prim_tex_cache' = [s \in TexSlots |-> [prim_tex_cache[s] EXCEPT !.valid = FALSE]]
  /\ shadow' = Over(shadow, VramBlocks, 0) /\ mirror' = Over(mirror, VramBlocks, 0)
  /\ pending # <<>> => "abort" \in TexShown
  /\ loading' = <<>> /\ target' = <<>>
  /\ Rewritten(VramBlocks, IF "reset" \in TexShown THEN VramBlocks ELSE {})
  /\ UNCHANGED <<vram_gen_counter, vram_page_gen, page_gen, page, pending>>

----------------------------------------------------------------------------

prim_tex_cache_lookup(s) ==
  LET e == prim_tex_cache[s]
  IN e.valid /\ (e.global = vram_gen_counter \/ e.gen = get_region_gen(s))

DrawHit(s) ==
  /\ Idle /\ prim_tex_cache_lookup(s)
  /\ prim_tex_cache' = [prim_tex_cache EXCEPT ![s].global = vram_gen_counter]
  /\ sampled' = s
  /\ UNCHANGED <<vram_gen_counter, vram_page_gen, page_gen, shadow, mirror, page, loading, target,
                 pending, untracked, rendered>>

(* The rows Decode_TexPage_Cached uploads: all of a page it has never       *)
(* uploaded, else those with a block written since.                         *)
DirtyRows(s) ==
  IF page_gen[s] = 0 THEN SlotRows[s]
  ELSE {row \in SlotRows[s] : \E b \in row : vram_page_gen[b] > page_gen[s]}

PrimEntry(s) == [valid |-> TRUE, gen |-> get_region_gen(s), global |-> vram_gen_counter]

(* prim_tex_decode.  A page is drawn only after something was written to it.*)
DrawMiss(s) ==
  LET dirty == page_gen[s] # get_region_gen(s)
      rows == IF dirty THEN UNION DirtyRows(s) ELSE {}
  IN /\ Idle /\ ~prim_tex_cache_lookup(s) /\ get_region_gen(s) > 0
     /\ page' = [page EXCEPT ![s] = [b \in SlotBlocks(s) |-> IF b \in rows THEN shadow[b] ELSE @[b]]]
     /\ page_gen' = [page_gen EXCEPT ![s] = get_region_gen(s)]
     /\ prim_tex_cache' = [t \in TexSlots |->
          IF t = s THEN PrimEntry(s)
          ELSE IF dirty /\ SlotPage[t] = SlotPage[s] THEN [prim_tex_cache[t] EXCEPT !.valid = FALSE]
          ELSE prim_tex_cache[t]]
     /\ sampled' = s
     /\ UNCHANGED <<vram_gen_counter, vram_page_gen, shadow, mirror, loading, target, pending,
                    untracked, rendered>>

TexWrites ==
  \/ \E r \in TexRegions : LoadStart(r) \/ VRAMReadback(r)
  \/ \E r \in TexRegions, v \in Content : UploadFast(r, v) \/ FillRect(r, v)
  \/ \E c \in TexCopies, b \in VramBlocks : CopyRect(c.blocks, c.tracked, b)
  \/ \E b \in VramBlocks, v \in Content : Render(b, v)

TexNext ==
  \/ TexWrites
  \/ \E v \in Content : LoadWord(v)
  \/ LoadAbort
  \/ ResetVram
  \/ \E s \in TexSlots : DrawHit(s) \/ DrawMiss(s)

TexSpec == TexInit /\ [][TexNext]_texVars

----------------------------------------------------------------------------
(* No generation is ahead of the counter.                                   *)
TexTypeOK ==
  /\ vram_gen_counter \in 0..MaxGen
  /\ vram_page_gen \in [VramBlocks -> 0..vram_gen_counter]
  /\ page_gen \in [TexSlots -> 0..vram_gen_counter]
  /\ prim_tex_cache \in [TexSlots -> [valid : BOOLEAN, gen : 0..vram_gen_counter, global : 0..vram_gen_counter]]
  /\ shadow \in [VramBlocks -> Content] /\ mirror \in [VramBlocks -> Content]
  /\ Len(pending) < PackWords /\ sampled \in TexSlots \cup {"none"}

(* A primitive samples the page as it stands in VRAM: every block of it     *)
(* whose last write is tracked has been uploaded since (prim_tex_cache      *)
(* lookup, get_region_gen, Decode_TexPage_Cached's partial uploads).        *)
PageIsCurrent ==
  sampled # "none" =>
    \A b \in SlotBlocks(sampled) \ untracked : page[sampled][b] = shadow[b]

(* The GS's own copy of VRAM, which palettes and 15-bit textures are read   *)
(* from, agrees with the shadow wherever the GS has not drawn.              *)
MirrorIsCurrent ==
  Idle => \A b \in VramBlocks \ rendered : mirror[b] = shadow[b]

(* All copies of VRAM agree where they are used.                            *)
CopiesAreCurrent == TexTypeOK /\ PageIsCurrent /\ MirrorIsCurrent
=============================================================================
