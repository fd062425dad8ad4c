----------------------------- MODULE MCGraphics -----------------------------
(***************************************************************************)
(* The GPU: its command stream, the copies of VRAM and the GS's registers. *)
(* As in MCDevices one part is chosen and the others rest.                 *)
(***************************************************************************)
EXTENDS Gpu, TexCache, GsState

CONSTANT Stages
VARIABLE stage

GraphicsVars == <<gpuVars, texVars, gsVars, stage>>

C(op) == [op |-> op, page |-> 0, shaded |-> FALSE, w |-> 1, h |-> 1]
SomeCommands ==
  { C("irq"), C("fill"), C("copy"), C("env"), [C("env") EXCEPT !.page = 1], [C("poly") EXCEPT !.page = 1],
    [C("store") EXCEPT !.w = 3], [C("load") EXCEPT !.w = 3], [C("load") EXCEPT !.h = 0],
    C("line"), [C("line") EXCEPT !.shaded = TRUE] }

(* Two blocks: a 4-bit page has them in two rows, an 8-bit one side by     *)
(* side.                                                                   *)
TwoRows == [s \in {"p4", "p8"} |-> IF s = "p4" THEN {{1}, {2}} ELSE {{1, 2}}]
OnePage == [s \in {"p4", "p8"} |-> 0]
SomeRegions == {<<1>>, <<2, 1>>}
Cp(bs, tracked) == [blocks |-> bs, tracked |-> tracked]
SomeCopies == {Cp({1}, {1}), Cp({1, 2}, {1, 2}), Cp({1, 2}, {2})}

T(kind, raw, semi, slot, clut, mode) ==
  [kind |-> kind, tex |-> TRUE, raw |-> raw, semi |-> semi, shaded |-> FALSE, slot |-> slot, clut |-> clut, mode |-> mode]
F(kind, semi, shaded) ==
  [kind |-> kind, tex |-> FALSE, raw |-> FALSE, semi |-> semi, shaded |-> shaded, slot |-> "d", clut |-> "c1", mode |-> 0]
SomePrims ==
  { T("tri", FALSE, FALSE, "p4", "c1", 0), T("tri", FALSE, TRUE, "p4", "c1", 1), T("quad", TRUE, FALSE, "p8", "c1", 0),
    T("rect", FALSE, TRUE, "d", "c2", 0), F("tri", FALSE, FALSE), F("rect", FALSE, FALSE), F("line", TRUE, FALSE),
    F("fill", FALSE, FALSE) }
TwoModes ==
  { [slot |-> "p4", mode |-> 0, dither |-> TRUE, flip |-> FALSE], [slot |-> "d", mode |-> 1, dither |-> FALSE, flip |-> TRUE] }
TwoPages == [s \in {"p4", "p8", "d"} |-> IF s = "d" THEN 1 ELSE 0]

GraphicsInit == stage \in Stages /\ GpuInit /\ TexInit /\ GsInit /\ (stage # "gs" => psx.slot = "d")

StreamStep == stage = "stream" /\ GpuNext /\ UNCHANGED <<texVars, gsVars, stage>>
TextureStep == stage = "texture" /\ TexNext /\ UNCHANGED <<gpuVars, gsVars, stage>>
GsStep == stage = "gs" /\ GsNext /\ UNCHANGED <<gpuVars, texVars, stage>>

GraphicsSpec == GraphicsInit /\ [][StreamStep \/ TextureStep \/ GsStep]_GraphicsVars
=============================================================================
