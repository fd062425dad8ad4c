------------------------------ MODULE GsState ------------------------------
(* Drawing through the GS of the PS2 (gpu_ps2_primitives.c).  The backend   *)
(* remembers in gs_state what it last wrote to the GS's registers and skips *)
(* writes that would change nothing; a fast path skips even the comparison  *)
(* when a key of the command is the last one's; triangles of a linked list  *)
(* gather in a batch that is drawn later.  A primitive is right when the    *)
(* registers in force at its vertices are the ones its command asks for.    *)
(*                                                                          *)
(* Coordinates, colours and the GIF's packets are left out.                 *)
EXTENDS Integers, Sequences

CONSTANTS
  GsSlots,       \* texture pages, each in one format
  HwSlots,       \* the 4 and 8 bit ones, whose palette the GS applies
  GsPage,        \* [GsSlots -> page]
  Cluts,
  WrittenCluts,  \* the palettes the guest rewrites
  GsPrims,       \* records [kind, tex, raw, semi, shaded, slot, clut, mode]
  DrawModes,     \* GP0(E1): records [slot, mode, dither, flip]
  BatchMax,      \* BATCH_MAX_TRIS
  BatchSubs,     \* BATCH_MAX_SUBS
  GsShown        \* the hazards below that the model is to show

VARIABLES
  psx,           \* what the guest has set
  st,            \* gs_state
  gs,            \* the registers of the GS, and the palette it has loaded
  cached,        \* slots whose prim_tex_cache entry would hit
  cluts,         \* version of the palettes in VRAM
  batch,
  right          \* the primitives drawn by the last step were drawn as commanded

gsVars == <<psx, st, gs, cached, cluts, batch, right>>

GsRegs == {"dthe", "alpha", "tex0", "clamp", "texclut", "test"}
Unknown == [dthe |-> -1, alpha |-> -1, tex0 |-> <<"unknown", FALSE>>, clamp |-> -1,
            texclut |-> "unknown", test |-> <<FALSE, FALSE, "unknown">>]
NoBatch == [active |-> FALSE, cmd |-> <<>>, semi |-> FALSE, page |-> -1, clut |-> "unknown",
            subs |-> 0, tris |-> <<>>]
Hazards == {"mode", "abe", "format", "window", "clut", "clamp", "rect15", "fill", "line"}

ASSUME GsAssumption ==
  /\ HwSlots \subseteq GsSlots /\ WrittenCluts \subseteq Cluts /\ BatchMax \in Nat \ {0} /\ BatchSubs \in Nat \ {0}
  /\ {"unknown", "vram"} \cap (GsSlots \cup Cluts) = {}
  /\ GsPrims \subseteq [kind : {"tri", "quad", "rect", "line", "fill"}, tex : BOOLEAN, raw : BOOLEAN, semi : BOOLEAN,
                        shaded : BOOLEAN, slot : GsSlots, clut : Cluts, mode : Nat]
  /\ \A p \in GsPrims : (p.kind \in {"line", "fill"} => ~p.tex) /\ (p.kind = "fill" => ~p.semi)
  /\ DrawModes \subseteq [slot : GsSlots, mode : Nat, dither : BOOLEAN, flip : BOOLEAN]
  /\ GsShown \subseteq Hazards

Bit(b) == IF b THEN 1 ELSE 0
TestReg(at, date) == <<at, date, "known">>

(* Setup_GS_Environment.                                                    *)
GsInit ==
  /\ \E m \in DrawModes : psx = [slot |-> m.slot, mode |-> m.mode, dither |-> m.dither, flip |-> m.flip,
                                 win |-> 0, mask |-> FALSE]
  /\ st = [valid |-> FALSE, key |-> <<>>, slot |-> "unknown", reg |-> Unknown]
  /\ gs = [reg |-> [Unknown EXCEPT !.dthe = 0, !.clamp = 0, !.test = TestReg(FALSE, FALSE)], pal |-> <<"unknown", 0>>]
  /\ cached = {} /\ cluts = [c \in Cluts |-> 0]
  /\ batch = NoBatch /\ right = TRUE

----------------------------------------------------------------------------
(* What a primitive needs of the GS.                                        *)
IsPoly(p) == p.kind \in {"tri", "quad"}
use_dither(p) == psx.dither /\ IsPoly(p) /\ (p.shaded \/ (p.tex /\ ~p.raw))
SlotOf(p) == IF IsPoly(p) /\ p.tex THEN p.slot ELSE psx.slot
ModeOf(p) == IF IsPoly(p) /\ p.tex THEN p.mode ELSE psx.mode
Tex0For(p, s) == <<IF s \in HwSlots THEN s ELSE "vram", p.raw>>

Need(p) ==
  LET s == SlotOf(p) IN
  [dthe  |-> IF p.kind = "line" THEN Bit(psx.dither /\ p.shaded) ELSE Bit(use_dither(p)),
   alpha |-> IF p.semi THEN ModeOf(p) ELSE -1,
   tex0  |-> IF p.tex THEN Tex0For(p, s) ELSE <<"unknown", FALSE>>,
   clamp |-> IF p.tex THEN (IF s \in HwSlots THEN psx.win ELSE 0) ELSE -1,
   pal   |-> IF p.tex /\ s \in HwSlots THEN <<p.clut, cluts[p.clut]>> ELSE <<"unknown", 0>>,
   at    |-> p.tex,
   date  |-> psx.mask /\ p.kind # "fill"]

(* The registers of g suit the need n.                                      *)
Suits(n, g) ==
  /\ g.reg.dthe = n.dthe
  /\ n.alpha # -1 => g.reg.alpha = n.alpha
  /\ n.tex0[1] # "unknown" => g.reg.tex0 = n.tex0
  /\ n.clamp # -1 => g.reg.clamp = n.clamp
  /\ n.pal[1] # "unknown" => g.pal = n.pal
  /\ n.at => g.reg.test[1]
  /\ g.reg.test[2] = n.date

BatchSuits == \A i \in DOMAIN batch.tris : Suits(batch.tris[i], gs)

(* cmd_key, with the mode the caller reads.                                 *)
cmd_key(p, mode) == <<p.raw, use_dither(p), p.semi, mode, p.tex>>

(* The fast path's test: same key, same slot, same palette.                 *)
SameState(p, s, mode) ==
  /\ st.valid /\ st.key = cmd_key(p, mode)
  /\ p.tex => s \in cached /\ st.slot = s /\ (s \in HwSlots => st.reg.texclut = p.clut)

----------------------------------------------------------------------------
(* The register writes of the cold paths.  uses: the registers the          *)
(* primitive depends on; forced: those written whatever gs_state says;      *)
(* resets: those gs_state forgets when it was not valid.                    *)
Want(p, s, mode) ==
  [dthe |-> Bit(use_dither(p)), alpha |-> mode, tex0 |-> Tex0For(p, s),
   clamp |-> IF s \in HwSlots THEN psx.win ELSE 0, texclut |-> p.clut, test |-> TestReg(TRUE, psx.mask)]

(* Mutant: a palette register written without the TEX0 that loads it.       *)
ReloadsNever(emit) == emit

(* CSM2: a new TEXCLUT takes effect when TEX0 is written.                   *)
Reloads(emit) == IF "texclut" \in emit THEN emit \cup {"tex0"} ELSE emit

Written(uses, want, forced) ==
  Reloads({r \in uses : ~st.valid \/ st.reg[r] # want[r] \/ r \in forced})

GsAfter(emit, want) ==
  LET regs == [r \in GsRegs |-> IF r \in emit THEN want[r] ELSE gs.reg[r]] IN
  [reg |-> regs,
   pal |-> IF "tex0" \in emit /\ want.tex0[1] # "vram" THEN <<regs.texclut, cluts[regs.texclut]>> ELSE gs.pal]

Tracked(uses, want, resets) ==
  [r \in GsRegs |-> IF r \in uses THEN want[r]
                    ELSE IF ~st.valid /\ r \in resets THEN Unknown[r] ELSE st.reg[r]]

PolyUses(p) ==
  {"dthe"} \cup {r \in {"alpha"} : p.semi} \cup {r \in {"tex0", "test"} : p.tex}
  \cup {r \in {"clamp", "texclut"} : p.tex /\ p.slot \in HwSlots}
PolyResets == {"alpha", "tex0", "test", "clamp"}

Flips(p) == p.tex /\ psx.flip /\ psx.slot \notin HwSlots
RectUses(p) ==
  {"dthe"} \cup {r \in {"alpha"} : p.semi}
  \cup {r \in {"test"} : p.tex}
  \cup {r \in {"tex0"} : p.tex /\ (psx.slot \in HwSlots \/ p.raw)}
  \cup {r \in {"clamp", "texclut"} : p.tex /\ psx.slot \in HwSlots}
  \cup {r \in {"clamp"} : Flips(p)}

(* prim_tex_cache after a lookup of s: a page uploaded anew drops its other *)
(* formats.                                                                 *)
CachedAfter(s) ==
  IF s \in cached THEN {cached}
  ELSE {cached \cup {s}, {t \in cached : GsPage[t] # GsPage[s]} \cup {s}}

(* emit_poly_state_and_verts, and the rectangle's paths (flat, sprite, and  *)
(* the flipped one, which writes without comparing).                        *)
Uses(p) == IF IsPoly(p) THEN PolyUses(p) ELSE RectUses(p)
Wanted(p) == Want(p, SlotOf(p), ModeOf(p))
Forced(p) ==
  IF ~IsPoly(p) /\ Flips(p) THEN {"dthe", "alpha", "test", "tex0"}
  ELSE {r \in {"tex0"} : p.tex /\ SlotOf(p) \notin cached /\ (SlotOf(p) \in HwSlots \/ ~IsPoly(p))}
Resets(p) == IF p.tex /\ (IsPoly(p) \/ "tex0" \in RectUses(p)) THEN {"alpha"} ELSE PolyResets
SameAsLast(p) == IsPoly(p) /\ SameState(p, SlotOf(p), ModeOf(p))
Emitted(p) == IF SameAsLast(p) THEN {} ELSE Written(Uses(p), Wanted(p), Forced(p))

Cold(p, flushed) ==
  LET s == SlotOf(p)
      after == GsAfter(Emitted(p), Wanted(p))
  IN /\ gs' = after
     /\ st' = [valid |-> TRUE,
               key |-> IF IsPoly(p) THEN cmd_key(p, ModeOf(p)) ELSE <<>>,
               slot |-> IF IsPoly(p) /\ p.tex THEN s ELSE st.slot,
               reg |-> IF SameAsLast(p) THEN st.reg ELSE Tracked(Uses(p), Wanted(p), Resets(p))]
     /\ IF p.tex /\ (IsPoly(p) \/ s \in HwSlots \/ psx.win # 0) THEN cached' \in CachedAfter(s) ELSE UNCHANGED cached
     /\ psx' = [psx EXCEPT !.slot = s, !.mode = ModeOf(p)]
     /\ right' = (flushed /\ Suits(Need(p), after))

(* Emit_Line_Segment_AD writes ALPHA without asking.                        *)
Line(p, flushed) ==
  LET after == IF p.semi THEN [gs EXCEPT !.reg.alpha = psx.mode] ELSE gs IN
  /\ gs' = after
  /\ st' = IF p.semi THEN [st EXCEPT !.reg.alpha = psx.mode] ELSE st
  /\ right' = (flushed /\ Suits(Need(p), after))
  /\ UNCHANGED <<psx, cached>>

(* GP0(02) draws with the registers as they are.                            *)
Fill(p, flushed) ==
  /\ right' = (flushed /\ Suits(Need(p), gs))
  /\ UNCHANGED <<psx, st, gs, cached>>

Translate_GP0_to_GS(p, flushed) ==
  CASE p.kind = "line" -> Line(p, flushed)
    [] p.kind = "fill" -> Fill(p, flushed)
    [] OTHER -> Cold(p, flushed)

----------------------------------------------------------------------------
(* GPU_TryFastEmit: the key is built with the mode before the command's.    *)
FastRect(p) == ~(p.tex /\ psx.flip) /\ (p.tex => psx.win # 0 \/ psx.slot \in HwSlots)
TakesFast(p) ==
  \/ IsPoly(p) /\ SameState(p, p.slot, psx.mode)
  \/ p.kind = "rect" /\ FastRect(p) /\ SameState(p, psx.slot, psx.mode)

FastEmit(p, flushed) ==
  /\ psx' = [psx EXCEPT !.slot = SlotOf(p), !.mode = ModeOf(p)]
  /\ right' = (flushed /\ Suits(Need(p), gs))
  /\ UNCHANGED <<st, gs, cached>>

(* GPU_TryBatchAdd joins the batch: same command but for semi-transparency, *)
(* same page and palette.                                                   *)
BatchCmd(p) == <<p.shaded, p.tex, p.raw, use_dither(p), psx.mode>>

BatchFull == Len(batch.tris) >= BatchMax

Joins(p) ==
  /\ p.kind = "tri" /\ batch.active /\ batch.cmd = BatchCmd(p) /\ ~BatchFull
  /\ p.tex => GsPage[p.slot] = batch.page /\ p.clut = batch.clut
  /\ p.semi # batch.semi => batch.subs < BatchSubs

Join(p) ==
  /\ batch' = [batch EXCEPT !.tris = Append(@, Need(p)), !.semi = p.semi,
                            !.subs = IF p.semi # batch.semi THEN @ + 1 ELSE @]
  /\ psx' = [psx EXCEPT !.slot = SlotOf(p), !.mode = ModeOf(p)]
  /\ right' = TRUE
  /\ UNCHANGED <<st, gs, cached>>

StartBatch(p) ==
  /\ batch' = [active |-> TRUE, cmd |-> BatchCmd(p), semi |-> p.semi, page |-> GsPage[p.slot], clut |-> p.clut,
               subs |-> 1, tris |-> <<Need(p)>>]
  /\ psx' = [psx EXCEPT !.slot = SlotOf(p), !.mode = ModeOf(p)]
  /\ right' = BatchSuits
  /\ UNCHANGED <<st, gs, cached>>

----------------------------------------------------------------------------
(* The known hazards, named for what they get wrong, happen to p only if    *)
(* the model is to show them.                                               *)
OnlyShown(p) ==
  LET joins == Joins(p)
      fast == joins \/ TakesFast(p)
      Hazard(h, happens) == happens => h \in GsShown
  IN /\ Hazard("mode", fast /\ ModeOf(p) # psx.mode)
     /\ Hazard("abe", joins /\ p.semi /\ gs.reg.alpha # ModeOf(p))
     /\ Hazard("fill", p.kind = "fill" /\ (psx.mask \/ gs.reg.dthe # 0))
     /\ Hazard("line", p.kind = "line" /\ gs.reg.dthe # Bit(psx.dither /\ p.shaded))
     /\ p.tex =>
          /\ Hazard("format", joins /\ p.slot # psx.slot)
          /\ Hazard("window", st.reg.clamp # psx.win /\ (fast \/ SameState(p, p.slot, p.mode)))
          /\ Hazard("clut", st.valid /\ st.reg.texclut = p.clut /\ gs.pal # <<p.clut, cluts[p.clut]>>)
          /\ Hazard("clamp", SlotOf(p) \notin HwSlots /\ gs.reg.clamp # 0)
          /\ Hazard("rect15", p.kind = "rect" /\ ~p.raw /\ psx.slot \notin HwSlots
                                /\ gs.reg.tex0 # Tex0For(p, psx.slot))

(* A command written to GP0 by the CPU: GPU_Backend_TryFastPoly or          *)
(* Translate_GP0_to_GS.                                                     *)
TryFastPoly(p) == IsPoly(p) /\ ~p.tex /\ ~p.semi /\ ~p.shaded /\ st.valid /\ st.reg.dthe = 0

DrawCpu(p) ==
  /\ ~batch.active
  /\ IF TryFastPoly(p) THEN FastEmit(p, TRUE) ELSE Translate_GP0_to_GS(p, TRUE)
  /\ UNCHANGED <<cluts, batch>>

(* GPU_ProcessDmaBlock.                                                     *)
DrawBlock(p) ==
  /\ ~batch.active
  /\ IF TakesFast(p) THEN FastEmit(p, TRUE) ELSE Translate_GP0_to_GS(p, TRUE)
  /\ UNCHANGED <<cluts, batch>>

(* A command of a linked list.                                              *)
DrawList(p) ==
  /\ LET fast == TakesFast(p) IN
     IF Joins(p) THEN Join(p)
     ELSE IF fast /\ p.kind = "tri" THEN StartBatch(p)
     ELSE /\ IF fast THEN FastEmit(p, BatchSuits) ELSE Translate_GP0_to_GS(p, BatchSuits)
          /\ batch' = NoBatch
  /\ UNCHANGED cluts

Prim_FlushBatch == batch' = NoBatch /\ right' = BatchSuits

ListEnds == batch.active /\ Prim_FlushBatch /\ UNCHANGED <<psx, st, gs, cached, cluts>>

Prim_InvalidateGSState == [st EXCEPT !.valid = FALSE, !.key = <<>>, !.slot = "unknown"]

(* GP0(E1), GP0(E2) and GP0(E6).                                            *)
SetDrawMode(m) ==
  /\ psx' = [psx EXCEPT !.slot = m.slot, !.mode = m.mode, !.dither = m.dither, !.flip = m.flip]
  /\ st' = Prim_InvalidateGSState /\ Prim_FlushBatch
  /\ UNCHANGED <<gs, cached, cluts>>

SetWindow(w) ==
  /\ psx' = [psx EXCEPT !.win = w] /\ Prim_FlushBatch
  /\ UNCHANGED <<st, gs, cached, cluts>>

SetMask(m) ==
  /\ psx' = [psx EXCEPT !.mask = m] /\ st' = Prim_InvalidateGSState /\ Prim_FlushBatch
  /\ gs' = [gs EXCEPT !.reg.test = TestReg(FALSE, m)]
  /\ UNCHANGED <<cached, cluts>>

(* Writes to VRAM: a palette, or a texture page that has to be uploaded.    *)
WriteClut(c) ==
  /\ cluts' = [cluts EXCEPT ![c] = 1 - @] /\ Prim_FlushBatch
  /\ UNCHANGED <<psx, st, gs, cached>>

WritePage(s) ==
  /\ s \in cached /\ cached' = cached \ {s} /\ Prim_FlushBatch
  /\ UNCHANGED <<psx, st, gs, cluts>>

GsNext ==
  \/ \E p \in GsPrims : OnlyShown(p) /\ (DrawCpu(p) \/ DrawBlock(p) \/ DrawList(p))
  \/ ListEnds
  \/ \E m \in DrawModes : SetDrawMode(m)
  \/ \E w \in 0..1 : SetWindow(w)
  \/ \E m \in BOOLEAN : SetMask(m)
  \/ \E c \in WrittenCluts : WriteClut(c)
  \/ \E s \in HwSlots : WritePage(s)

GsSpec == GsInit /\ [][GsNext]_gsVars

----------------------------------------------------------------------------
(* A batch within its bounds, of at least one triangle while active.        *)
GsTypeOK ==
  /\ psx.slot \in GsSlots /\ psx.win \in 0..1 /\ cached \subseteq GsSlots
  /\ Len(batch.tris) <= BatchMax /\ batch.subs <= BatchSubs
  /\ batch.active <=> batch.tris # <<>>

(* What gs_state claims to know of a register is what the GS holds,         *)
(* whichever mix of cold, lazy and fast paths wrote it.                     *)
TrackedTrue ==
  st.valid => \A r \in GsRegs : st.reg[r] # Unknown[r] => st.reg[r] = gs.reg[r]

(* Every primitive is drawn with the registers its command asks for, also   *)
(* when it was batched or took a fast path that wrote none of them.         *)
DrawnAsCommanded == GsTypeOK /\ TrackedTrue /\ right
=============================================================================
