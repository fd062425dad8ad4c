------------------------------- MODULE Gpu ---------------------------------
(* The GP0 command stream (gpu_commands.c) and the two ways DMA channel 2   *)
(* feeds it: blocks (GPU_ProcessDmaBlock) and linked lists (GPU_DMA2).      *)
(*                                                                          *)
(* A word is what the parser can tell of it: the command its top byte names *)
(* (op), the size it gives as a dimensions word, whether it ends a          *)
(* polyline.  own and pos say which command of the guest it belongs to and  *)
(* where, fx what the guest expects once it is consumed; the parser reads   *)
(* none of the three.  A parameter names no command: its op is "nop".       *)
(*                                                                          *)
(* The drawing commands are scaled to PolyWords words and full-size images  *)
(* (a dimension of 0) to FullW by FullH.  GpuShown names the disagreements  *)
(* with the guest that the model may show; the guest avoids the others.     *)
EXTENDS Integers, Sequences, SequencesExt

CONSTANTS
  GpuCommands,    \* the commands the guest may send
  GpuPages,       \* texture pages
  FullW, FullH,   \* what a dimension of 0 stands for
  MaxPackets,     \* packets of a linked list
  GpuShown        \* "split", "size", "e1", "reset"

VARIABLES
  gpu,    \* the parser's registers
  feed,   \* who feeds it: "cpu", "block", or a list's "slow", "dispatch", "words"
  blk,    \* the words of the block or packet still to be consumed
  rest,   \* the words of the guest's command that are still to be sent
  packets,\* packets sent by the list in progress
  due,    \* what the guest expects of the words just consumed
  want    \* the texture page last commanded

gpuVars == <<gpu, feed, blk, rest, packets, due, want>>

PolyWords == 3
Vertices == 2     \* vertices of a polyline after its first segment

GpuOps == {"env", "irq", "nop", "poly", "fill", "copy", "store", "load", "line"}

ASSUME GpuAssumption ==
  /\ FullW \in Nat \ {0} /\ FullH \in Nat \ {0} /\ MaxPackets \in Nat \ {0}
  /\ 0 \in GpuPages
  /\ GpuCommands \subseteq [op : GpuOps, page : GpuPages, shaded : BOOLEAN, w : Nat, h : Nat]
  /\ GpuShown \subseteq {"split", "size", "e1", "reset"}

----------------------------------------------------------------------------
(* The guest's commands as words.                                           *)

Word == [op |-> "nop", w |-> 1, h |-> 1, page |-> 0, shaded |-> FALSE, end |-> FALSE]

(* Mutant: the odd last pixel forgotten.                                    *)
ImageWordsEven(d) == ((IF d.w = 0 THEN FullW ELSE d.w) * (IF d.h = 0 THEN FullH ELSE d.h)) \div 2

(* w * h pixels are packed two to a word.                                   *)
ImageWords(d) == ((IF d.w = 0 THEN FullW ELSE d.w) * (IF d.h = 0 THEN FullH ELSE d.h) + 1) \div 2

(* A linked list counts them in its own way.                                *)
ListImageWords(d) == (d.w * d.h) \div 2

(* What the guest sends: a word for every two pixels and for an odd last.   *)
PixelWords(c) ==
  LET n == (IF c.w = 0 THEN FullW ELSE c.w) * (IF c.h = 0 THEN FullH ELSE c.h) IN (n \div 2) + (n % 2)

FirstSegment(shaded) == IF shaded THEN 4 ELSE 3

Body(c) ==
  CASE c.op \in {"env", "irq", "nop"} -> <<>>
    [] c.op \in {"poly", "fill"} -> [i \in 1..(PolyWords - 1) |-> [Word EXCEPT !.page = c.page]]
    [] c.op = "copy"  -> [i \in 1..3 |-> Word]
    [] c.op = "store" -> <<Word, [Word EXCEPT !.w = c.w, !.h = c.h]>>
    [] c.op = "load"  -> <<Word, [Word EXCEPT !.w = c.w, !.h = c.h]>> \o [i \in 1..PixelWords(c) |-> Word]
    [] c.op = "line"  -> [i \in 1..(FirstSegment(c.shaded) - 1) |-> Word]
                         \o [i \in 1..(IF c.shaded THEN 2 * Vertices ELSE Vertices) |-> Word]
                         \o <<[Word EXCEPT !.end = TRUE]>>

(* What is expected of word i of n of a command.                            *)
Effect(c, i, n) ==
  CASE c.op \in {"poly", "fill", "copy", "store"} -> IF i = n THEN <<c.op>> ELSE <<>>
    [] c.op = "load" -> IF i = 3 THEN <<"load">> ELSE IF i > 3 THEN <<"pixel">> ELSE <<>>
    [] c.op = "line" -> LET j == i - FirstSegment(c.shaded)
                        IN IF j = 0 THEN <<"line">>
                           ELSE IF j > 0 /\ i < n /\ (c.shaded => j % 2 = 0) THEN <<"segment">> ELSE <<>>
    [] OTHER -> <<>>

CommandWords(c) ==
  LET ws == <<[Word EXCEPT !.op = c.op, !.page = c.page, !.shaded = c.shaded]>> \o Body(c)
  IN [i \in 1..Len(ws) |-> [x |-> ws[i], own |-> c, pos |-> i, fx |-> Effect(c, i, Len(ws)),
                            last |-> i = Len(ws)]]

----------------------------------------------------------------------------
(* GPU_WriteGP0: g is the parser, x the word.                               *)

GpuBusy(g) == g.left > 0 \/ g.xfer > 0 \/ g.poly

Emit(g, e) == [g EXCEPT !.out = @ \o e]

(* A word of an image that is being loaded.                                 *)
GP0Pixel(g) == Emit([g EXCEPT !.xfer = @ - 1], <<"pixel">>)

(* Mutant: the colours of a shaded polyline taken for vertices.             *)
GP0PolylineFlat(g, x) ==
  IF x.end THEN [g EXCEPT !.poly = FALSE] ELSE Emit(g, <<"segment">>)

(* A word of a polyline: the terminator, a colour or a vertex.              *)
GP0Polyline(g, x) ==
  IF x.end THEN [g EXCEPT !.poly = FALSE]
  ELSE IF g.shaded /\ g.color THEN [g EXCEPT !.color = FALSE]
  ELSE Emit([g EXCEPT !.color = g.shaded], <<"segment">>)

(* A textured polygon also sets the texture page.                           *)
Translate(g, b) ==
  Emit([g EXCEPT !.page = IF b[1].op = "poly" THEN b[2].page ELSE @], <<b[1].op>>)

(* The command whose last parameter has arrived.                            *)
Execute(g) ==
  CASE g.buf[1].op = "load"  -> Emit([g EXCEPT !.xfer = ImageWords(g.buf[3])], <<"load">>)
    [] g.buf[1].op = "store" -> Emit([g EXCEPT !.read = ImageWords(g.buf[3]), !.ready = TRUE], <<"store">>)
    [] g.buf[1].op = "line"  -> [Translate(g, g.buf) EXCEPT !.poly = TRUE, !.shaded = g.buf[1].shaded,
                                                            !.color = g.buf[1].shaded]
    [] OTHER -> Translate(g, g.buf)

GP0Parameter(g, x) ==
  LET n == [g EXCEPT !.left = @ - 1, !.buf = Append(@, x)]
  IN IF n.left = 0 THEN [Execute(n) EXCEPT !.buf = <<>>] ELSE n

(* gpu_cmd_size, where 0 is a command of variable length.                   *)
gpu_cmd_size(op) ==
  CASE op \in {"poly", "fill"} -> PolyWords [] op = "copy" -> 4
    [] op \in {"load", "store", "line"} -> 0 [] OTHER -> 1

Parameters(x) ==
  CASE x.op \in {"load", "store"} -> 2
    [] x.op = "line" -> FirstSegment(x.shaded) - 1
    [] OTHER -> gpu_cmd_size(x.op) - 1

(* E1 is skipped when it equals the last one; 1F is an edge.                *)
GP0Command(g, x) ==
  CASE x.op = "nop" -> g
    [] x.op = "env" -> IF g.e1 = <<x.page>> THEN g ELSE [g EXCEPT !.e1 = <<x.page>>, !.page = x.page]
    [] x.op = "irq" -> IF g.irq THEN g ELSE Emit([g EXCEPT !.irq = TRUE], <<"irq">>)
    [] OTHER -> [g EXCEPT !.buf = <<x>>, !.left = Parameters(x)]

GPU_WriteGP0(g, x) ==
  IF g.xfer > 0 THEN GP0Pixel(g)
  ELSE IF g.poly THEN GP0Polyline(g, x)
  ELSE IF g.left > 0 THEN GP0Parameter(g, x)
  ELSE GP0Command(g, x)

----------------------------------------------------------------------------
GpuTypeOK ==
  /\ gpu.left \in 0..3 /\ gpu.xfer \in Nat /\ gpu.read \in Nat
  /\ {gpu.poly, gpu.shaded, gpu.color, gpu.ready, gpu.irq} \subseteq BOOLEAN
  /\ gpu.page \in GpuPages /\ want \in GpuPages
  /\ gpu.left > 0 => gpu.buf # <<>> /\ gpu.left + Len(gpu.buf) \in 3..4
  /\ feed \in {"cpu", "block", "slow", "dispatch", "words"}
  /\ packets \in 0..MaxPackets

GpuReset == [left |-> 0, buf |-> <<>>, xfer |-> 0, poly |-> FALSE, shaded |-> FALSE, color |-> FALSE,
             read |-> 0, ready |-> FALSE, irq |-> FALSE, page |-> 0, e1 |-> <<>>, out |-> <<>>]

GpuInit ==
  /\ gpu = GpuReset /\ feed = "cpu" /\ blk = <<>> /\ rest = <<>> /\ packets = 0
  /\ due = <<>> /\ want = 0

(* The guest's side of consuming words: what it expects, and the page.      *)
Expected(ws) ==
  FlattenSeq([i \in 1..Len(ws) |->
    IF ws[i].own.op = "irq" THEN IF gpu.irq THEN <<>> ELSE <<"irq">> ELSE ws[i].fx])

Commanded(ws) ==
  LET sets == {i \in DOMAIN ws : ws[i].last /\ ws[i].own.op \in {"env", "poly"}}
  IN IF sets = {} THEN want ELSE ws[Max(sets)].own.page

Consumed(ws, g) == gpu' = g /\ due' = Expected(ws) /\ want' = Commanded(ws)

(* The first n words of the block, as far as they are there: the fast paths *)
(* do not look at the block's end.                                          *)
Consume(n, g) ==
  LET k == IF n <= Len(blk) THEN n ELSE Len(blk) IN
  /\ Consumed(SubSeq(blk, 1, k), g)
  /\ blk' = SubSeq(blk, k + 1, Len(blk))

Fresh == [gpu EXCEPT !.out = <<>>]
Feed1 == Consume(1, GPU_WriteGP0(Fresh, blk[1].x))
Fits(n) == n <= Len(blk)
Raw(i) == IF Fits(i) THEN blk[i].x ELSE Word

(* GPU_Backend_UploadRegionFast.                                            *)
Upload(n) == Consume(3 + n, Emit(Fresh, <<"load">> \o [i \in 1..n |-> "pixel"]))

Draw == Consume(PolyWords, Translate(Fresh, [i \in 1..PolyWords |-> Raw(i)]))

----------------------------------------------------------------------------
(* What the guest sends next: the rest of a command that was cut and up to  *)
(* two more, cut anywhere in the last of them.                              *)

(* An E1 equal to the last one after a polygon has changed the page.        *)
SkippedE1(cs) ==
  \E i \in DOMAIN cs :
    LET before == IF i > 1 THEN <<cs[i - 1]>> ELSE IF rest # <<>> THEN <<rest[1].own>> ELSE <<>>
        sets(op) == before # <<>> /\ before[1].op = op
    IN /\ cs[i].op = "env"
       /\ (IF sets("env") THEN <<before[1].page>> ELSE gpu.e1) = <<cs[i].page>>
       /\ (IF sets("env") \/ sets("poly") THEN before[1].page ELSE want) # cs[i].page

(* Blocks may cut anything but a polygon, which the fast path takes whole;  *)
(* list packets only a polyline past its first segment.                     *)
CutKept(list, w) ==
  \/ ~list /\ w.own.op # "poly"
  \/ list /\ w.own.op = "line" /\ w.pos > FirstSegment(w.own.shaded)

(* A list's count of an image's words differs from the parser's.            *)
Miscounted(s) ==
  \E i \in DOMAIN s : s[i].own.op = "load" /\ ListImageWords(s[i].own) # PixelWords(s[i].own)

Streams ==
  {<<>>} \cup {<<c>> : c \in GpuCommands} \cup
  (IF rest = <<>> THEN {<<c, d>> : c \in GpuCommands, d \in GpuCommands} ELSE {})

Send(list) ==
  \E cs \in Streams :
    LET s == rest \o FlattenSeq([i \in 1..Len(cs) |-> CommandWords(cs[i])])
        final == IF cs = <<>> THEN rest ELSE CommandWords(Last(cs))
    IN /\ SkippedE1(cs) => "e1" \in GpuShown
       /\ list /\ Miscounted(s) => "size" \in GpuShown
       /\ \E n \in (Len(s) - Len(final) + 1)..Len(s) :
            /\ n < Len(s) => CutKept(list, s[n + 1]) \/ "split" \in GpuShown
            /\ blk' = SubSeq(s, 1, n)
            /\ rest' = SubSeq(s, n + 1, Len(s))
            /\ gpu' = Fresh /\ due' = <<>> /\ UNCHANGED want

----------------------------------------------------------------------------
(* The processor writes GP0 one word at a time.                             *)
CpuWord ==
  /\ feed = "cpu"
  /\ \E c \in GpuCommands :
       /\ rest = <<>> /\ SkippedE1(<<c>>) => "e1" \in GpuShown
       /\ LET s == IF rest # <<>> THEN rest ELSE CommandWords(c)
          IN Consumed(<<s[1]>>, GPU_WriteGP0(Fresh, s[1].x)) /\ rest' = Tail(s)
  /\ UNCHANGED <<feed, blk, packets>>

(* GPU_DMA2 in block mode.                                                  *)
StartBlock ==
  /\ feed = "cpu" /\ Send(FALSE) /\ feed' = "block" /\ UNCHANGED packets

(* One turn of GPU_ProcessDmaBlock: what is in progress goes word by word,  *)
(* whole images and drawing commands at once.                               *)
GPU_ProcessDmaBlock ==
  /\ feed = "block" /\ blk # <<>>
  /\ LET op == blk[1].x.op IN
     \/ GpuBusy(gpu) /\ Feed1
     \/ /\ ~GpuBusy(gpu) /\ op = "load"
        /\ IF Fits(3) /\ Fits(3 + ImageWords(Raw(3))) THEN Upload(ImageWords(Raw(3))) ELSE Feed1
     \/ /\ ~GpuBusy(gpu) /\ op = "poly"       \* GPU_TryFastEmit succeeds
        /\ Draw
     \/ /\ ~GpuBusy(gpu) /\ op \in {"poly", "fill"}
        /\ IF Fits(PolyWords) THEN Draw ELSE Feed1
     \/ ~GpuBusy(gpu) /\ op \notin {"load", "poly", "fill"} /\ Feed1
  /\ UNCHANGED <<feed, rest, packets>>

(* GPU_DMA2 in linked-list mode, packet by packet.  Only a polyline in      *)
(* progress makes a packet go word by word.                                 *)
NextPacket ==
  /\ feed # "block" /\ blk = <<>> /\ packets < MaxPackets
  /\ Send(TRUE)
  /\ feed' = IF gpu.poly THEN "slow" ELSE "dispatch"
  /\ packets' = packets + 1

ListWord ==
  /\ feed \in {"slow", "words"} /\ blk # <<>>
  /\ Feed1
  /\ feed' = IF feed = "words" /\ ~GpuBusy(gpu') THEN "dispatch" ELSE feed
  /\ UNCHANGED <<rest, packets>>

ListDispatch ==
  /\ feed = "dispatch" /\ blk # <<>>
  /\ LET op == blk[1].x.op IN
     \/ /\ op = "load" /\ Fits(3 + ListImageWords(Raw(3)))
        /\ Upload(ListImageWords(Raw(3))) /\ UNCHANGED feed
     \/ /\ op \in {"load", "store", "line"} /\ (op = "load" => ~Fits(3 + ListImageWords(Raw(3))))
        /\ Feed1 /\ feed' = IF GpuBusy(gpu') THEN "words" ELSE feed
     \/ op \in {"poly", "fill"} /\ Draw /\ UNCHANGED feed
     \/ /\ op = "copy" /\ Fits(4)
        /\ Consume(4, GPU_WriteGP0(GPU_WriteGP0(GPU_WriteGP0(GPU_WriteGP0(Fresh, Raw(1)), Raw(2)), Raw(3)), Raw(4)))
        /\ UNCHANGED feed
     \/ (op = "copy" => ~Fits(4)) /\ op \notin {"load", "store", "line", "poly", "fill"}
        /\ Feed1 /\ UNCHANGED feed
  /\ UNCHANGED <<rest, packets>>

DmaDone ==
  /\ feed # "cpu" /\ blk = <<>>
  /\ feed' = "cpu" /\ packets' = 0 /\ gpu' = Fresh /\ due' = <<>>
  /\ UNCHANGED <<blk, rest, want>>

(* GPU_Read: a word of VRAM while a transfer to the processor is active.    *)
GPU_Read ==
  /\ feed = "cpu" /\ gpu.read > 0
  /\ gpu' = [Fresh EXCEPT !.read = @ - 1, !.ready = gpu.read > 1]
  /\ due' = <<>>
  /\ UNCHANGED <<feed, blk, rest, packets, want>>

(* GP1(00), GP1(01) and GP1(02).  The reset leaves a polyline and a read of *)
(* VRAM in progress; the guest starts afresh.                               *)
GP1Reset ==
  /\ feed = "cpu" /\ gpu # GpuReset
  /\ gpu.poly \/ gpu.read > 0 => "reset" \in GpuShown
  /\ gpu' = [GpuReset EXCEPT !.poly = gpu.poly, !.shaded = gpu.shaded, !.color = gpu.color,
                             !.read = gpu.read]
  /\ rest' = <<>> /\ due' = <<>> /\ want' = 0
  /\ UNCHANGED <<feed, blk, packets>>

GP1ResetBuffer ==
  /\ feed = "cpu" /\ GpuBusy(gpu)
  /\ gpu' = [Fresh EXCEPT !.left = 0, !.buf = <<>>, !.xfer = 0, !.poly = FALSE]
  /\ rest' = <<>> /\ due' = <<>>
  /\ UNCHANGED <<feed, blk, packets, want>>

GP1Ack ==
  /\ feed = "cpu" /\ gpu.irq
  /\ gpu' = [Fresh EXCEPT !.irq = FALSE] /\ due' = <<>>
  /\ UNCHANGED <<feed, blk, rest, packets, want>>

GpuNext ==
  \/ CpuWord \/ StartBlock \/ GPU_ProcessDmaBlock \/ NextPacket \/ ListWord \/ ListDispatch
  \/ DmaDone \/ GPU_Read \/ GP1Reset \/ GP1ResetBuffer \/ GP1Ack

GpuSpec == GpuInit /\ [][GpuNext]_gpuVars

----------------------------------------------------------------------------
(* However the words are cut into register writes, blocks and packets, the  *)
(* commands carried out are those the guest sent, each when its last word   *)
(* is consumed (GPU_WriteGP0, GPU_ProcessDmaBlock, GPU_DMA2).               *)
CommandsAsSent == gpu.out = due

(* Between transfers the parser is inside a command exactly when the guest  *)
(* is: no word is taken for a parameter of the wrong command.               *)
InStep == feed = "cpu" => (GpuBusy(gpu) <=> rest # <<>>)

(* The texture page in force is the last one commanded, by E1 or by a       *)
(* polygon, although a repeated E1 is skipped.                              *)
PageAsCommanded == feed = "cpu" => gpu.page = want

(* GPUSTAT bit 27, on which the guest waits, is set while words of VRAM     *)
(* remain to be read and at no other time.                                  *)
ReadReady == gpu.ready <=> gpu.read > 0

(* What the guest can see of the parser between transfers is as it asked.   *)
ParserInStep == GpuTypeOK /\ InStep /\ PageAsCommanded /\ ReadReady

=============================================================================
