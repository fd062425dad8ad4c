--------------------------- MODULE GraphicsProofs ---------------------------
(***************************************************************************)
(* The PS2 backend's copies of VRAM, for any blocks, pages and regions,    *)
(* and its drawing paths, for any primitives, palettes and size of batch;  *)
(* and the GP0 parser, for any commands, images and cuts of their stream.  *)
(***************************************************************************)
EXTENDS TexCache, GsState, Gpu, SequenceTheorems, WellFoundedInduction, TLAPS

(* What the draw paths rest on: an uploaded page has every block that was  *)
(* not written since its generation; an entry of prim_tex_cache stands for *)
(* its page's generation; a block still to be received is newer than any   *)
(* page.                                                                   *)
Uploaded ==
  \A s \in TexSlots : page_gen[s] > 0 =>
    \A b \in SlotBlocks(s) \ untracked : vram_page_gen[b] <= page_gen[s] => page[s][b] = shadow[b]

UpToDate(s) == page_gen[s] > 0 /\ \A b \in SlotBlocks(s) : vram_page_gen[b] <= page_gen[s]

EntriesTrue ==
  \A s \in TexSlots : prim_tex_cache[s].valid =>
    /\ prim_tex_cache[s].gen = page_gen[s] /\ page_gen[s] > 0
    /\ prim_tex_cache[s].global = vram_gen_counter => UpToDate(s)

LoadMarked == \A b \in BlocksOf(loading), s \in TexSlots : vram_page_gen[b] > page_gen[s]

(* The words gathered are those of the first blocks the GS expects, and    *)
(* the blocks still to be received are the others.                         *)
Gathered ==
  /\ target \in Seq(VramBlocks) /\ loading \in Seq(VramBlocks) /\ pending \in Seq(Content)
  /\ \A i, j \in 1..Len(target) : target[i] = target[j] => i = j
  /\ Len(target) = Len(pending) + Len(loading)
  /\ \A i \in 1..Len(loading) : loading[i] = target[Len(pending) + i]
  /\ \A i \in 1..Len(pending) : shadow[target[i]] = pending[i]
  /\ loading = <<>> => pending = <<>>
MirrorBehind ==
  \A b \in VramBlocks \ rendered : (\A i \in 1..Len(pending) : target[i] # b) => mirror[b] = shadow[b]

TexIInv ==
  /\ TexTypeOK /\ page = [s \in TexSlots |-> page[s]]
  /\ Uploaded /\ EntriesTrue /\ LoadMarked /\ (sampled # "none" => UpToDate(sampled))
  /\ Gathered /\ MirrorBehind

-----------------------------------------------------------------------------
LEMMA MaxOK ==
  ASSUME NEW g \in Nat, NEW S \in SUBSET (0 .. g), S # {}
  PROVE  Max(S) \in S /\ \A y \in S : y <= Max(S)
<1> DEFINE R == {ss \in Nat \X Nat : ss[1] < ss[2]}
           T == {g - x : x \in S}
<1>1. IsWellFoundedOn(R, Nat)
  BY NatLessThanWellFounded DEF OpToRel
<1>2. T \subseteq Nat /\ T # {}
  <2>1. PICK x : x \in S
    OBVIOUS
  <2>2. g - x \in T
    BY <2>1
  <2>3. \A y \in S : g - y \in Nat
    OBVIOUS
  <2>4. T \subseteq Nat
    BY <2>3
  <2> QED BY <2>2, <2>4
<1> HIDE DEF T, R
<1>3. PICK m \in T : \A y \in T : ~(<<y, m>> \in R)
  BY <1>1, <1>2, WFMin
<1>4. \A y \in T : m <= y
  <2> TAKE y \in T
  <2>1. y \in Nat /\ m \in Nat /\ ~(<<y, m>> \in R)
    BY <1>2, <1>3
  <2>2. ~(y < m)
    BY <2>1 DEF R
  <2> QED BY <2>1, <2>2
<1>5. PICK x \in S : m = g - x
  BY DEF T
<1>6. \A y \in S : x >= y
  <2> TAKE y \in S
  <2>1. g - y \in T
    BY DEF T
  <2> QED BY <1>4, <1>5, <2>1
<1>7. /\ Max(S) \in S /\ \A y \in S : Max(S) >= y
  BY <1>6 DEF Max
<1> QED BY <1>7

LEMMA RegionGen ==
  ASSUME TexTypeOK, NEW s \in TexSlots
  PROVE  /\ get_region_gen(s) \in 0 .. vram_gen_counter
         /\ \A b \in SlotBlocks(s) : vram_page_gen[b] <= get_region_gen(s)
<1> DEFINE S == {vram_page_gen[b] : b \in SlotBlocks(s)}
<1>1. SlotBlocks(s) \subseteq VramBlocks /\ SlotBlocks(s) # {}
  BY TexAssumption
<1>2. vram_gen_counter \in Nat /\ vram_page_gen \in [VramBlocks -> 0 .. vram_gen_counter]
  BY TexAssumption DEF TexTypeOK
<1>3. S \in SUBSET (0 .. vram_gen_counter) /\ S # {}
  BY <1>1, <1>2
<1>4. Max(S) \in S /\ \A y \in S : y <= Max(S)
  <2> HIDE DEF S
  <2> QED BY <1>2, <1>3, MaxOK
<1> QED BY <1>3, <1>4 DEF get_region_gen

LEMMA TexInitOK == TexInit => TexIInv
<1> SUFFICES ASSUME TexInit PROVE TexIInv
  OBVIOUS
<1> USE DEF TexInit
<1>1. TexTypeOK
  BY TexAssumption DEF TexTypeOK, Content
<1>2. Uploaded /\ EntriesTrue
  BY DEF Uploaded, EntriesTrue
<1>3. LoadMarked /\ sampled = "none"
  BY DEF LoadMarked, BlocksOf
<1>4. Gathered
  BY DEF Gathered
<1>5. MirrorBehind
  BY DEF MirrorBehind
<1>6. page = [s \in TexSlots |-> page[s]]
  OBVIOUS
<1> QED BY <1>1, <1>2, <1>3, <1>4, <1>5, <1>6 DEF TexIInv

(* The invariant says that the copies agree.                               *)
LEMMA TexGoal == TexIInv => CopiesAreCurrent
<1> SUFFICES ASSUME TexIInv PROVE CopiesAreCurrent
  OBVIOUS
<1>1. PageIsCurrent
  BY DEF TexIInv, PageIsCurrent, Uploaded, UpToDate, TexTypeOK
<1>2. MirrorIsCurrent
  BY DEF TexIInv, MirrorIsCurrent, MirrorBehind, Gathered, Idle
<1> QED BY <1>1, <1>2 DEF CopiesAreCurrent, TexIInv

-----------------------------------------------------------------------------
GensOK ==
  /\ vram_gen_counter \in 0..MaxGen
  /\ vram_page_gen \in [VramBlocks -> 0..vram_gen_counter]
  /\ page_gen \in [TexSlots -> 0..vram_gen_counter]
  /\ prim_tex_cache \in [TexSlots -> [valid : BOOLEAN, gen : 0..vram_gen_counter, global : 0..vram_gen_counter]]

(* A marked block is newer than any page, and no entry is trusted by the   *)
(* counter alone.                                                          *)
LEMMA Dirtied ==
  ASSUME TexIInv, NEW bs, vram_gen_counter < MaxGen, Tex_Cache_DirtyRegion(bs),
         UNCHANGED <<page_gen, prim_tex_cache>>
  PROVE  /\ GensOK' /\ EntriesTrue'
         /\ \A b \in VramBlocks \cap bs, s \in TexSlots : vram_page_gen'[b] > page_gen[s]
         /\ \A b \in VramBlocks \ bs : vram_page_gen'[b] = vram_page_gen[b]
<1>1. /\ vram_gen_counter \in 0..MaxGen /\ MaxGen \in Nat
      /\ vram_page_gen \in [VramBlocks -> 0..vram_gen_counter]
      /\ page_gen \in [TexSlots -> 0..vram_gen_counter]
      /\ prim_tex_cache \in [TexSlots -> [valid : BOOLEAN, gen : 0..vram_gen_counter, global : 0..vram_gen_counter]]
  BY TexAssumption DEF TexIInv, TexTypeOK
<1> DEFINE g == vram_gen_counter
<1>2. /\ vram_gen_counter' = g + 1
      /\ vram_page_gen' = [b \in VramBlocks |-> IF b \in bs THEN g + 1 ELSE vram_page_gen[b]]
  BY DEF Tex_Cache_DirtyRegion, Over
<1>3. 0 .. g \subseteq 0 .. g + 1 /\ g + 1 \in 0 .. g + 1 /\ g + 1 \in 0 .. MaxGen
  BY <1>1
<1>4. GensOK'
  <2>1. vram_page_gen' \in [VramBlocks -> 0 .. g + 1]
    BY <1>1, <1>2, <1>3
  <2>2. page_gen' \in [TexSlots -> 0 .. g + 1]
    BY <1>1, <1>3
  <2>3. prim_tex_cache' \in [TexSlots -> [valid : BOOLEAN, gen : 0 .. g + 1, global : 0 .. g + 1]]
    BY <1>1, <1>3
  <2> QED BY <1>2, <1>3, <2>1, <2>2, <2>3 DEF GensOK
<1>5. \A s \in TexSlots : prim_tex_cache[s].global # g + 1
  BY <1>1
<1>6. EntriesTrue'
  BY <1>2, <1>5 DEF EntriesTrue, TexIInv
<1> QED BY <1>1, <1>2, <1>4, <1>6

LEMMA LoadStartOK ==
  ASSUME TexIInv, NEW r \in TexRegions, LoadStart(r)
  PROVE  TexIInv'
<1> USE DEF LoadStart
<1>0. /\ GensOK' /\ EntriesTrue'
      /\ \A b \in VramBlocks \cap BlocksOf(r), s \in TexSlots : vram_page_gen'[b] > page_gen[s]
      /\ \A b \in VramBlocks \ BlocksOf(r) : vram_page_gen'[b] = vram_page_gen[b]
  BY Dirtied
<1>1. r \in Seq(VramBlocks) /\ (\A i, j \in 1..Len(r) : r[i] = r[j] => i = j) /\ BlocksOf(r) \subseteq VramBlocks
  BY TexAssumption DEF BlocksOf
<1>2. TexTypeOK'
  BY <1>0 DEF TexIInv, TexTypeOK, GensOK
<1>3. Uploaded'
  <2> SUFFICES ASSUME NEW s \in TexSlots, page_gen[s] > 0, NEW b \in SlotBlocks(s) \ untracked,
                      vram_page_gen'[b] <= page_gen[s]
               PROVE  page[s][b] = shadow[b]
    BY DEF Uploaded
  <2>1. b \in VramBlocks
    BY TexAssumption
  <2>2. vram_page_gen' \in [VramBlocks -> Nat] /\ page_gen[s] \in Nat
    BY <1>0, TexAssumption DEF GensOK
  <2>3. b \notin BlocksOf(r)
    BY <1>0, <2>1, <2>2
  <2>4. vram_page_gen[b] <= page_gen[s]
    BY <1>0, <2>1, <2>3
  <2> QED BY <2>4 DEF TexIInv, Uploaded
<1>4. LoadMarked'
  BY <1>0, <1>1 DEF LoadMarked, BlocksOf
<1>5. pending = <<>>
  BY DEF TexIInv, Gathered, Idle
<1>6. Gathered'
  BY <1>1, <1>5 DEF Gathered
<1>7. MirrorBehind'
  BY <1>5 DEF TexIInv, MirrorBehind
<1> QED BY <1>0, <1>2, <1>3, <1>4, <1>6, <1>7 DEF TexIInv

LEMMA LoadAbortOK ==
  ASSUME TexIInv, TexShown = {}, LoadAbort
  PROVE  TexIInv'
<1> USE DEF LoadAbort
<1>1. pending = <<>>
  OBVIOUS
<1>2. TexTypeOK' /\ page' = [s \in TexSlots |-> page[s]]'
  BY DEF TexIInv, TexTypeOK, genVars
<1>3. Uploaded' /\ EntriesTrue' /\ (sampled # "none" => UpToDate(sampled))'
  BY DEF TexIInv, Uploaded, EntriesTrue, UpToDate, genVars
<1>4. LoadMarked'
  BY DEF LoadMarked, BlocksOf
<1>5. Gathered' /\ MirrorBehind'
  BY <1>1 DEF TexIInv, Gathered, MirrorBehind
<1> QED BY <1>2, <1>3, <1>4, <1>5 DEF TexIInv

(* A write that marks what it writes.                                      *)
LEMMA MarkedOK ==
  ASSUME TexIInv, Idle, vram_gen_counter < MaxGen, NEW bs, NEW v \in Content, Tex_Cache_DirtyRegion(bs),
         shadow' = Over(shadow, bs, v), mirror' = Over(mirror, bs, v), Rewritten(bs, bs),
         UNCHANGED <<page_gen, prim_tex_cache, page, loading, target, pending>>
  PROVE  TexIInv'
<1>0. /\ GensOK' /\ EntriesTrue'
      /\ \A b \in VramBlocks \cap bs, s \in TexSlots : vram_page_gen'[b] > page_gen[s]
      /\ \A b \in VramBlocks \ bs : vram_page_gen'[b] = vram_page_gen[b]
  BY Dirtied
<1>1. /\ \A b \in VramBlocks : shadow'[b] = IF b \in bs THEN v ELSE shadow[b]
      /\ \A b \in VramBlocks : mirror'[b] = IF b \in bs THEN v ELSE mirror[b]
      /\ shadow' \in [VramBlocks -> Content] /\ mirror' \in [VramBlocks -> Content]
  BY DEF Over, TexIInv, TexTypeOK
<1>2. untracked' = untracked \ bs /\ rendered' = rendered \ bs /\ sampled' = "none"
  BY DEF Rewritten
<1>3. TexTypeOK'
  BY <1>0, <1>1, <1>2 DEF TexIInv, TexTypeOK, GensOK
<1>4. Uploaded'
  <2> SUFFICES ASSUME NEW s \in TexSlots, page_gen[s] > 0, NEW b \in SlotBlocks(s) \ untracked',
                      vram_page_gen'[b] <= page_gen[s]
               PROVE  page[s][b] = shadow'[b]
    BY DEF Uploaded
  <2>1. b \in VramBlocks
    BY TexAssumption
  <2>2. vram_page_gen' \in [VramBlocks -> Nat] /\ page_gen[s] \in Nat
    BY <1>0, TexAssumption DEF GensOK
  <2>3. b \notin bs
    BY <1>0, <2>1, <2>2
  <2>4. vram_page_gen[b] <= page_gen[s] /\ b \notin untracked /\ shadow'[b] = shadow[b]
    BY <1>0, <1>1, <1>2, <2>1, <2>3
  <2> QED BY <2>4 DEF TexIInv, Uploaded
<1>5. loading = <<>> /\ pending = <<>>
  BY DEF Idle, TexIInv, Gathered
<1>6. LoadMarked'
  BY <1>5 DEF LoadMarked, BlocksOf
<1>7. Gathered'
  BY <1>5 DEF Gathered, TexIInv
<1>8. MirrorBehind'
  BY <1>1, <1>2, <1>5 DEF TexIInv, MirrorBehind
<1> QED BY <1>0, <1>2, <1>3, <1>4, <1>6, <1>7, <1>8 DEF TexIInv

(* A write that marks nothing leaves its blocks untracked.                 *)
LEMMA UnmarkedOK ==
  ASSUME TexIInv, Idle, NEW bs, shadow' \in [VramBlocks -> Content], mirror' \in [VramBlocks -> Content],
         \A b \in VramBlocks \ bs : shadow'[b] = shadow[b] /\ mirror'[b] = mirror[b],
         \A b \in VramBlocks \cap bs : shadow'[b] = mirror'[b],
         Rewritten(bs, {}), UNCHANGED <<genVars, page, loading, target, pending>>
  PROVE  TexIInv'
<1>1. untracked' = untracked \cup bs /\ rendered' = rendered \ bs /\ sampled' = "none"
  BY DEF Rewritten
<1>2. TexTypeOK'
  BY <1>1 DEF TexIInv, TexTypeOK, genVars
<1>3. Uploaded'
  <2> SUFFICES ASSUME NEW s \in TexSlots, page_gen[s] > 0, NEW b \in SlotBlocks(s) \ untracked',
                      vram_page_gen[b] <= page_gen[s]
               PROVE  page[s][b] = shadow'[b]
    BY DEF Uploaded, genVars
  <2>1. b \in VramBlocks \ bs /\ b \notin untracked
    BY <1>1, TexAssumption
  <2> QED BY <2>1 DEF TexIInv, Uploaded
<1>4. EntriesTrue'
  BY DEF TexIInv, EntriesTrue, UpToDate, genVars
<1>5. loading = <<>> /\ pending = <<>>
  BY DEF Idle, TexIInv, Gathered
<1>6. LoadMarked'
  BY <1>5 DEF LoadMarked, BlocksOf
<1>7. Gathered'
  BY <1>5 DEF Gathered, TexIInv
<1>8. MirrorBehind'
  BY <1>1, <1>5 DEF TexIInv, MirrorBehind
<1> QED BY <1>1, <1>2, <1>3, <1>4, <1>6, <1>7, <1>8 DEF TexIInv

LEMMA RenderOK ==
  ASSUME TexIInv, NEW b \in VramBlocks, NEW v \in Content, Render(b, v)
  PROVE  TexIInv'
<1> USE DEF Render
<1>1. TexTypeOK' /\ page' = [s \in TexSlots |-> page[s]]'
  BY DEF TexIInv, TexTypeOK, genVars
<1>2. Uploaded' /\ EntriesTrue'
  BY DEF TexIInv, Uploaded, EntriesTrue, UpToDate, genVars
<1>3. LoadMarked'
  BY DEF TexIInv, LoadMarked, genVars
<1>4. Gathered'
  BY DEF TexIInv, Gathered
<1>5. MirrorBehind'
  <2> SUFFICES ASSUME NEW x \in VramBlocks \ rendered', \A i \in 1..Len(pending) : target[i] # x
               PROVE  mirror'[x] = shadow[x]
    BY DEF MirrorBehind
  <2>1. x # b /\ x \notin rendered
    OBVIOUS
  <2>2. mirror'[x] = mirror[x]
    BY <2>1 DEF TexIInv, TexTypeOK
  <2> QED BY <2>1, <2>2 DEF TexIInv, MirrorBehind
<1> QED BY <1>1, <1>2, <1>3, <1>4, <1>5 DEF TexIInv

LEMMA ResetOK ==
  ASSUME TexIInv, TexShown = {}, ResetVram
  PROVE  TexIInv'
<1> USE DEF ResetVram
<1>1. pending = <<>> /\ pending' = <<>> /\ loading' = <<>> /\ target' = <<>>
  OBVIOUS
<1>2. /\ \A b \in VramBlocks : shadow'[b] = 0 /\ mirror'[b] = 0
      /\ shadow' \in [VramBlocks -> Content] /\ mirror' \in [VramBlocks -> Content]
  BY DEF Over, Content
<1>3. VramBlocks \subseteq untracked' /\ sampled' = "none"
  BY DEF Rewritten
<1>4. /\ prim_tex_cache' \in [TexSlots -> [valid : BOOLEAN, gen : 0..vram_gen_counter, global : 0..vram_gen_counter]]
      /\ \A s \in TexSlots : ~prim_tex_cache'[s].valid
  BY DEF TexIInv, TexTypeOK
<1>5. TexTypeOK' /\ page' = [s \in TexSlots |-> page[s]]'
  BY <1>1, <1>2, <1>3, <1>4 DEF TexIInv, TexTypeOK
<1>6. Uploaded'
  BY <1>3, TexAssumption DEF Uploaded
<1>7. EntriesTrue' /\ LoadMarked'
  BY <1>1, <1>4 DEF EntriesTrue, LoadMarked, BlocksOf
<1>8. Gathered' /\ MirrorBehind'
  BY <1>1, <1>2 DEF Gathered, MirrorBehind
<1> QED BY <1>3, <1>5, <1>6, <1>7, <1>8 DEF TexIInv

-----------------------------------------------------------------------------
(* A hit finds its page as VRAM has it.                                    *)
LEMMA DrawHitOK ==
  ASSUME TexIInv, NEW s \in TexSlots, DrawHit(s)
  PROVE  TexIInv'
<1> USE DEF DrawHit
<1>0. TexTypeOK
  BY DEF TexIInv
<1>1. prim_tex_cache[s].valid /\ prim_tex_cache[s].gen = page_gen[s] /\ page_gen[s] > 0
  BY DEF TexIInv, EntriesTrue, prim_tex_cache_lookup
<1>2. UpToDate(s)
  <2>1. CASE prim_tex_cache[s].global = vram_gen_counter
    BY <1>1, <2>1 DEF TexIInv, EntriesTrue
  <2>2. CASE prim_tex_cache[s].gen = get_region_gen(s)
    BY <1>0, <1>1, <2>2, RegionGen DEF UpToDate
  <2> QED BY <2>1, <2>2 DEF prim_tex_cache_lookup
<1>3. vram_gen_counter \in 0 .. vram_gen_counter
  BY <1>0, TexAssumption DEF TexTypeOK
<1>4. /\ prim_tex_cache' \in [TexSlots -> [valid : BOOLEAN, gen : 0..vram_gen_counter, global : 0..vram_gen_counter]]
      /\ \A t \in TexSlots : prim_tex_cache'[t].valid = prim_tex_cache[t].valid
                             /\ prim_tex_cache'[t].gen = prim_tex_cache[t].gen
      /\ \A t \in TexSlots \ {s} : prim_tex_cache'[t] = prim_tex_cache[t]
  BY <1>0, <1>3 DEF TexTypeOK
<1>5. TexTypeOK' /\ page' = [t \in TexSlots |-> page[t]]'
  BY <1>4 DEF TexIInv, TexTypeOK
<1>6. Uploaded' /\ (\A t \in TexSlots : UpToDate(t)' = UpToDate(t))
  BY DEF TexIInv, Uploaded, UpToDate
<1>7. EntriesTrue'
  BY <1>2, <1>4, <1>6 DEF TexIInv, EntriesTrue
<1>8. LoadMarked' /\ Gathered' /\ MirrorBehind'
  <2>1. LoadMarked'
    BY DEF TexIInv, LoadMarked, BlocksOf
  <2>2. Gathered'
    BY DEF TexIInv, Gathered
  <2>3. MirrorBehind'
    BY DEF TexIInv, MirrorBehind
  <2> QED BY <2>1, <2>2, <2>3
<1>9. UpToDate(sampled)'
  BY <1>2 DEF UpToDate
<1> QED BY <1>5, <1>6, <1>7, <1>8, <1>9 DEF TexIInv

(* A miss uploads what was written since, and the page is as VRAM has it.  *)
LEMMA DrawMissOK ==
  ASSUME TexIInv, NEW s \in TexSlots, DrawMiss(s)
  PROVE  TexIInv'
<1> DEFINE g == get_region_gen(s)
           dirty == page_gen[s] # g
           rows == IF dirty THEN UNION DirtyRows(s) ELSE {}
<1>0. TexTypeOK
  BY DEF TexIInv
<1>1. g \in 0 .. vram_gen_counter /\ g > 0 /\ (\A b \in SlotBlocks(s) : vram_page_gen[b] <= g) /\ vram_gen_counter \in Nat
  BY <1>0, RegionGen, TexAssumption DEF DrawMiss, TexTypeOK
<1>2. /\ page' = [page EXCEPT ![s] = [b \in SlotBlocks(s) |-> IF b \in rows THEN shadow[b] ELSE page[s][b]]]
      /\ page_gen' = [page_gen EXCEPT ![s] = g]
      /\ prim_tex_cache' = [t \in TexSlots |->
           IF t = s THEN PrimEntry(s)
           ELSE IF dirty /\ SlotPage[t] = SlotPage[s] THEN [prim_tex_cache[t] EXCEPT !.valid = FALSE]
           ELSE prim_tex_cache[t]]
      /\ sampled' = s /\ Idle
      /\ UNCHANGED <<vram_gen_counter, vram_page_gen, shadow, mirror, loading, target, pending, untracked, rendered>>
  BY DEF DrawMiss
<1>3. \A b \in SlotBlocks(s) \ untracked : b \notin rows => page[s][b] = shadow[b]
  <2> SUFFICES ASSUME NEW b \in SlotBlocks(s) \ untracked, b \notin rows PROVE page[s][b] = shadow[b]
    OBVIOUS
  <2>1. PICK row \in SlotRows[s] : b \in row
    BY DEF SlotBlocks
  <2>2. page_gen[s] \in Nat /\ vram_page_gen \in [VramBlocks -> Nat] /\ b \in VramBlocks
    BY <1>0, TexAssumption DEF TexTypeOK
  <2>3. page_gen[s] > 0 /\ vram_page_gen[b] <= page_gen[s]
    <3>1. CASE ~dirty
      BY <1>1, <3>1
    <3>2. CASE dirty
      BY <2>1, <2>2, <3>2 DEF DirtyRows
    <3> QED BY <3>1, <3>2
  <2> QED BY <2>3 DEF TexIInv, Uploaded
<1> HIDE DEF g, dirty, rows
<1>4. /\ page_gen' \in [TexSlots -> 0..vram_gen_counter] /\ page_gen'[s] = g
      /\ \A t \in TexSlots \ {s} : page_gen'[t] = page_gen[t]
  BY <1>0, <1>1, <1>2 DEF TexTypeOK
<1>5. /\ \A b \in SlotBlocks(s) \ untracked : page'[s][b] = shadow[b]
      /\ \A t \in TexSlots \ {s} : page'[t] = page[t]
      /\ page' = [t \in TexSlots |-> page'[t]]
  BY <1>2, <1>3 DEF TexIInv
<1>6. /\ prim_tex_cache' \in [TexSlots -> [valid : BOOLEAN, gen : 0..vram_gen_counter, global : 0..vram_gen_counter]]
      /\ prim_tex_cache'[s].gen = g /\ prim_tex_cache'[s].global = vram_gen_counter
      /\ \A t \in TexSlots \ {s} : prim_tex_cache'[t].valid => prim_tex_cache'[t] = prim_tex_cache[t]
  <2>1. PrimEntry(s) = [valid |-> TRUE, gen |-> g, global |-> vram_gen_counter]
    BY DEF PrimEntry, g
  <2>2. vram_gen_counter \in 0 .. vram_gen_counter
    BY <1>1
  <2> DEFINE E == [valid : BOOLEAN, gen : 0..vram_gen_counter, global : 0..vram_gen_counter]
  <2>3. PrimEntry(s) \in E
    BY <1>1, <2>1, <2>2
  <2>4. prim_tex_cache \in [TexSlots -> E]
    BY <1>0 DEF TexTypeOK
  <2>5. \A e \in E : [e EXCEPT !.valid = FALSE] \in E /\ [e EXCEPT !.valid = FALSE].valid = FALSE
    OBVIOUS
  <2> HIDE DEF E
  <2>6. prim_tex_cache' \in [TexSlots -> E]
    BY <1>2, <2>3, <2>4, <2>5
  <2>7. prim_tex_cache'[s] = PrimEntry(s)
    BY <1>2
  <2>8. \A t \in TexSlots \ {s} : prim_tex_cache'[t].valid => prim_tex_cache'[t] = prim_tex_cache[t]
    BY <1>2, <2>4, <2>5
  <2> QED BY <2>1, <2>6, <2>7, <2>8 DEF E
<1>7. TexTypeOK'
  BY <1>0, <1>2, <1>4, <1>6 DEF TexTypeOK
<1>8. Uploaded'
  <2> SUFFICES ASSUME NEW t \in TexSlots, page_gen'[t] > 0, NEW b \in SlotBlocks(t) \ untracked,
                      vram_page_gen[b] <= page_gen'[t]
               PROVE  page'[t][b] = shadow[b]
    BY <1>2 DEF Uploaded
  <2>1. CASE t = s
    BY <1>5, <2>1
  <2>2. CASE t # s
    BY <1>4, <1>5, <2>2 DEF TexIInv, Uploaded
  <2> QED BY <2>1, <2>2
<1>9. UpToDate(s)' /\ \A t \in TexSlots \ {s} : UpToDate(t) => UpToDate(t)'
  BY <1>1, <1>2, <1>4 DEF UpToDate
<1>10. EntriesTrue'
  <2> SUFFICES ASSUME NEW t \in TexSlots, prim_tex_cache'[t].valid
               PROVE  /\ prim_tex_cache'[t].gen = page_gen'[t] /\ page_gen'[t] > 0
                      /\ prim_tex_cache'[t].global = vram_gen_counter' => UpToDate(t)'
    BY DEF EntriesTrue
  <2>1. CASE t = s
    BY <1>1, <1>4, <1>6, <1>9, <2>1
  <2>2. CASE t # s
    BY <1>2, <1>4, <1>6, <1>9, <2>2 DEF TexIInv, EntriesTrue
  <2> QED BY <2>1, <2>2
<1>11. LoadMarked'
  BY <1>2 DEF LoadMarked, BlocksOf, Idle
<1>12. Gathered' /\ MirrorBehind'
  BY <1>2 DEF TexIInv, Gathered, MirrorBehind
<1> QED BY <1>2, <1>5, <1>7, <1>8, <1>9, <1>10, <1>11, <1>12 DEF TexIInv

-----------------------------------------------------------------------------
(* What is left of a sequence after its first m elements.                  *)
LEMMA DropFirst ==
  ASSUME NEW S, NEW t \in Seq(S), NEW m \in Nat, m <= Len(t)
  PROVE  /\ SubSeq(t, m + 1, Len(t)) \in Seq(S)
         /\ Len(SubSeq(t, m + 1, Len(t))) = Len(t) - m
         /\ \A i \in 1..Len(t) - m : SubSeq(t, m + 1, Len(t))[i] = t[m + i]
<1> DEFINE n == Len(t)
<1>1. n \in Nat /\ m + 1 \in Int /\ n \in Int /\ \A i \in (m + 1)..n : t[i] \in S
  OBVIOUS
<1> HIDE DEF n
<1>2. /\ SubSeq(t, m + 1, n) \in Seq(S)
      /\ Len(SubSeq(t, m + 1, n)) = IF m + 1 <= n THEN n - (m + 1) + 1 ELSE 0
      /\ \A i \in 1 .. n - (m + 1) + 1 : SubSeq(t, m + 1, n)[i] = t[m + 1 + i - 1]
  BY <1>1, SubSeqProperties
<1>3. m <= n
  BY DEF n
<1>4. Len(SubSeq(t, m + 1, n)) = n - m
  BY <1>1, <1>2, <1>3
<1>5. \A i \in 1 .. n - m : SubSeq(t, m + 1, n)[i] = t[m + i]
  <2> TAKE i \in 1 .. n - m
  <2>1. i \in 1 .. n - (m + 1) + 1 /\ m + 1 + i - 1 = m + i
    BY <1>1
  <2> QED BY <1>2, <2>1
<1> QED BY <1>2, <1>4, <1>5 DEF n

(* A word of a transfer goes to the shadow at once and to the mirror with  *)
(* its packet.                                                             *)
LEMMA LoadWordOK ==
  ASSUME TexIInv, NEW v \in Content, LoadWord(v)
  PROVE  TexIInv'
<1> DEFINE ws == Append(pending, v)
           h == Head(loading)
           k == Len(pending)
<1>0. /\ loading # <<>> /\ loading' = Tail(loading) /\ shadow' = [shadow EXCEPT ![h] = v]
      /\ Rewritten({h}, {h}) /\ UNCHANGED <<genVars, page>>
      /\ IF Flushes(ws, Len(loading) = 1)
         THEN mirror' = Sent(ws) /\ pending' = <<>> /\ target' = SubSeq(target, Len(ws) + 1, Len(target))
         ELSE pending' = ws /\ UNCHANGED <<mirror, target>>
  BY DEF LoadWord, Idle
<1>1. /\ target \in Seq(VramBlocks) /\ loading \in Seq(VramBlocks) /\ pending \in Seq(Content)
      /\ \A i, j \in 1..Len(target) : target[i] = target[j] => i = j
      /\ Len(target) = k + Len(loading)
      /\ \A i \in 1..Len(loading) : loading[i] = target[k + i]
      /\ \A i \in 1..k : shadow[target[i]] = pending[i]
  BY DEF TexIInv, Gathered
<1>2. /\ k \in Nat /\ Len(loading) \in Nat \ {0} /\ h = loading[1] /\ h = target[k + 1] /\ h \in VramBlocks
      /\ k + 1 \in 1..Len(target)
  BY <1>0, <1>1
<1>3. /\ ws \in Seq(Content) /\ Len(ws) = k + 1 /\ ws[k + 1] = v /\ \A i \in 1..k : ws[i] = pending[i]
  BY <1>1
<1>4. /\ loading' \in Seq(VramBlocks) /\ Len(loading') = Len(loading) - 1
      /\ \A i \in 1..Len(loading') : loading'[i] = loading[i + 1]
  BY <1>0, <1>1
<1>5. /\ untracked' = untracked \ {h} /\ rendered' = rendered \ {h} /\ sampled' = "none"
  BY <1>0 DEF Rewritten
<1>6. /\ shadow \in [VramBlocks -> Content] /\ mirror \in [VramBlocks -> Content] /\ shadow' \in [VramBlocks -> Content]
      /\ shadow'[h] = v /\ \A b \in VramBlocks \ {h} : shadow'[b] = shadow[b]
  BY <1>0, <1>2 DEF TexIInv, TexTypeOK
<1> HIDE DEF ws, h
(* What has been gathered, with the new word, is in the shadow.            *)
<1>7. \A i \in 1..k + 1 : shadow'[target[i]] = ws[i]
  <2> SUFFICES ASSUME NEW i \in 1..k + 1 PROVE shadow'[target[i]] = ws[i]
    OBVIOUS
  <2>1. CASE i = k + 1
    BY <1>2, <1>3, <1>6, <2>1
  <2>2. CASE i # k + 1
    <3>1. i \in 1..k /\ i \in 1..Len(target) /\ target[i] # h /\ target[i] \in VramBlocks
      BY <1>1, <1>2, <2>2
    <3> QED BY <1>1, <1>3, <1>6, <3>1
  <2> QED BY <2>1, <2>2
<1>8. \A b \in VramBlocks \ rendered' : (\A i \in 1..k + 1 : target[i] # b) => mirror[b] = shadow'[b]
  <2> SUFFICES ASSUME NEW b \in VramBlocks \ rendered', \A i \in 1..k + 1 : target[i] # b
               PROVE  mirror[b] = shadow'[b]
    OBVIOUS
  <2>1. b # h /\ b \notin rendered
    BY <1>2, <1>5
  <2>2. \A i \in 1..k : target[i] # b
    BY <1>2
  <2> QED BY <1>6, <2>1, <2>2 DEF TexIInv, MirrorBehind
<1>9. Uploaded' /\ EntriesTrue' /\ LoadMarked'
  <2>1. h \in BlocksOf(loading)
    <3>1. 1 \in DOMAIN loading
      BY <1>1, <1>2
    <3> QED BY <1>2, <3>1 DEF BlocksOf
  <2>2. \A s \in TexSlots : vram_page_gen[h] > page_gen[s]
    BY <2>1 DEF TexIInv, LoadMarked
  <2>3. Uploaded'
    <3> SUFFICES ASSUME NEW s \in TexSlots, page_gen[s] > 0, NEW b \in SlotBlocks(s) \ untracked',
                        vram_page_gen[b] <= page_gen[s]
                 PROVE  page[s][b] = shadow'[b]
      BY <1>0 DEF Uploaded, genVars
    <3>1. b \in VramBlocks /\ vram_page_gen \in [VramBlocks -> Nat] /\ page_gen[s] \in Nat
      BY TexAssumption DEF TexIInv, TexTypeOK
    <3>2. b # h
      BY <2>2, <3>1
    <3>3. b \notin untracked /\ shadow'[b] = shadow[b]
      BY <1>5, <1>6, <3>1, <3>2
    <3> QED BY <3>3 DEF TexIInv, Uploaded
  <2>4. EntriesTrue'
    BY <1>0 DEF TexIInv, EntriesTrue, UpToDate, genVars
  <2>5. BlocksOf(loading') \subseteq BlocksOf(loading)
    <3> SUFFICES ASSUME NEW i \in DOMAIN loading' PROVE loading'[i] \in BlocksOf(loading)
      BY DEF BlocksOf
    <3>1. i \in 1..Len(loading') /\ i + 1 \in DOMAIN loading
      BY <1>1, <1>2, <1>4
    <3> QED BY <1>4, <3>1 DEF BlocksOf
  <2>6. LoadMarked'
    <3>1. \A b \in BlocksOf(loading'), s \in TexSlots : vram_page_gen[b] > page_gen[s]
      BY <2>5 DEF TexIInv, LoadMarked
    <3> QED BY <1>0, <3>1 DEF LoadMarked, BlocksOf, genVars
  <2> QED BY <2>3, <2>4, <2>6
<1>10. CASE Flushes(ws, Len(loading) = 1)
  <2>1. mirror' = Sent(ws) /\ pending' = <<>> /\ target' = SubSeq(target, k + 2, Len(target))
    BY <1>0, <1>2, <1>3, <1>10
  <2>2. /\ target' \in Seq(VramBlocks) /\ Len(target') = Len(loading) - 1
        /\ \A i \in 1..Len(target') : target'[i] = target[k + 1 + i]
    <3>1. k + 1 \in Nat /\ k + 1 <= Len(target) /\ k + 1 + 1 = k + 2 /\ Len(target) - (k + 1) = Len(loading) - 1
      BY <1>1, <1>2
    <3> HIDE DEF k
    <3> DEFINE m == k + 1
    <3>2. m \in Nat /\ m <= Len(target) /\ target \in Seq(VramBlocks) /\ target' = SubSeq(target, m + 1, Len(target))
      BY <1>1, <2>1, <3>1
    <3> HIDE DEF m
    <3>3. /\ target' \in Seq(VramBlocks) /\ Len(target') = Len(target) - m
          /\ \A i \in 1..Len(target) - m : target'[i] = target[m + i]
      BY <3>2, DropFirst
    <3> QED BY <3>1, <3>3 DEF m
  <2>3. Gathered'
    <3>1. \A i, j \in 1..Len(target') : target'[i] = target'[j] => i = j
      <4> SUFFICES ASSUME NEW i \in 1..Len(target'), NEW j \in 1..Len(target'), target'[i] = target'[j] PROVE i = j
        OBVIOUS
      <4>1. k + 1 + i \in 1..Len(target) /\ k + 1 + j \in 1..Len(target)
        <5>1. Len(target') = Len(loading) - 1 /\ Len(target) = k + Len(loading) /\ k \in Nat /\ Len(loading) \in Nat
          BY <1>1, <1>2, <2>2
        <5>2. i \in 1..Len(target') /\ j \in 1..Len(target')
          OBVIOUS
        <5> HIDE DEF k
        <5> QED BY ONLY <5>1, <5>2
      <4>2. target[k + 1 + i] = target[k + 1 + j]
        BY <2>2
      <4>3. k + 1 + i = k + 1 + j
        BY <1>1, <4>1, <4>2
      <4> QED BY <1>2, <4>3
    <3>2. \A i \in 1..Len(loading') : loading'[i] = target'[i]
      <4> SUFFICES ASSUME NEW i \in 1..Len(loading') PROVE loading'[i] = target'[i]
        OBVIOUS
      <4>1. i + 1 \in 1..Len(loading) /\ i \in 1..Len(target') /\ k + (i + 1) = k + 1 + i
        BY <1>2, <1>4, <2>2
      <4>2. loading'[i] = loading[i + 1]
        BY <1>4
      <4>3. loading[i + 1] = target[k + (i + 1)]
        BY <1>1, <4>1
      <4>4. target'[i] = target[k + 1 + i]
        BY <2>2, <4>1
      <4> QED BY <4>1, <4>2, <4>3, <4>4
    <3>3. pending' \in Seq(Content) /\ Len(pending') = 0
      BY <2>1
    <3>4. Len(target') = Len(pending') + Len(loading') /\ \A i \in 1..Len(loading') : loading'[i] = target'[Len(pending') + i]
      <4>1. Len(loading') \in Nat /\ Len(target') = Len(loading')
        BY <1>2, <1>4, <2>2
      <4>2. \A i \in 1..Len(loading') : 0 + i = i
        BY <4>1
      <4> QED BY <3>2, <3>3, <4>1, <4>2
    <3>5. \A i \in 1..Len(pending') : shadow'[target'[i]] = pending'[i]
      BY <3>3
    <3> QED BY <1>4, <2>1, <2>2, <3>1, <3>3, <3>4, <3>5 DEF Gathered
  <2>4. \A b \in VramBlocks \ rendered' : mirror'[b] = shadow'[b]
    <3> SUFFICES ASSUME NEW b \in VramBlocks \ rendered' PROVE mirror'[b] = shadow'[b]
      OBVIOUS
    <3>1. mirror'[b] = IF \E i \in 1..Len(ws) : i <= Len(target) /\ target[i] = b
                       THEN ws[CHOOSE i \in 1..Len(ws) : target[i] = b] ELSE mirror[b]
      BY <2>1 DEF Sent
    <3>2. CASE \E i \in 1..k + 1 : target[i] = b
      <4> DEFINE c == CHOOSE i \in 1..Len(ws) : target[i] = b
      <4>1. c \in 1..k + 1 /\ target[c] = b
        BY <1>3, <3>2
      <4> HIDE DEF c
      <4>2. mirror'[b] = ws[c]
        BY <1>1, <1>2, <1>3, <3>1, <4>1 DEF c
      <4> QED BY <1>7, <4>1, <4>2
    <3>3. CASE \A i \in 1..k + 1 : target[i] # b
      BY <1>3, <1>8, <3>1, <3>3
    <3> QED BY <3>2, <3>3
  <2>5. mirror' \in [VramBlocks -> Content]
    <3>1. DOMAIN mirror' = VramBlocks /\ mirror' = [b \in VramBlocks |-> mirror'[b]]
      BY <2>1 DEF Sent
    <3>2. \A b \in VramBlocks : mirror'[b] \in Content
      <4> SUFFICES ASSUME NEW b \in VramBlocks PROVE mirror'[b] \in Content
        OBVIOUS
      <4>1. mirror'[b] = IF \E i \in 1..Len(ws) : i <= Len(target) /\ target[i] = b
                         THEN ws[CHOOSE i \in 1..Len(ws) : target[i] = b] ELSE mirror[b]
        BY <2>1 DEF Sent
      <4>2. \A i \in 1..Len(ws) : ws[i] \in Content
        BY <1>3
      <4> QED BY <1>6, <4>1, <4>2
    <3> QED BY <3>1, <3>2
  <2>6. MirrorBehind'
    BY <2>4 DEF MirrorBehind
  <2>7. TexTypeOK'
    BY <1>0, <1>5, <1>6, <2>1, <2>5, TexAssumption DEF TexIInv, TexTypeOK, genVars
  <2> QED BY <1>0, <1>5, <1>9, <2>3, <2>6, <2>7 DEF TexIInv
<1>11. CASE ~Flushes(ws, Len(loading) = 1)
  <2>1. pending' = ws /\ mirror' = mirror /\ target' = target /\ Len(ws) < PackWords /\ Len(loading) # 1
    BY <1>0, <1>2, <1>3, <1>11, TexAssumption DEF Flushes
  <2>2. Gathered'
    <3>1. Len(target) = Len(ws) + Len(loading')
      BY <1>1, <1>2, <1>3, <1>4
    <3>2. \A i \in 1..Len(loading') : loading'[i] = target[Len(ws) + i]
      BY <1>1, <1>2, <1>3, <1>4
    <3>3. \A i \in 1..Len(ws) : shadow'[target[i]] = ws[i]
      BY <1>3, <1>7
    <3>4. loading' # <<>>
      BY <1>2, <1>4, <2>1
    <3> QED BY <1>1, <1>3, <1>4, <2>1, <3>1, <3>2, <3>3, <3>4 DEF Gathered
  <2>3. MirrorBehind'
    BY <1>3, <1>8, <2>1 DEF MirrorBehind
  <2>4. TexTypeOK'
    BY <1>0, <1>5, <1>6, <2>1 DEF TexIInv, TexTypeOK, genVars
  <2> QED BY <1>0, <1>5, <1>9, <2>2, <2>3, <2>4 DEF TexIInv
<1> QED BY <1>10, <1>11

LEMMA TexStepOK == ASSUME TexShown = {} PROVE TexIInv /\ [TexNext]_texVars => TexIInv'
<1> SUFFICES ASSUME TexIInv, [TexNext]_texVars PROVE TexIInv'
  OBVIOUS
<1>1. ASSUME NEW r \in TexRegions, NEW v \in Content, UploadFast(r, v) PROVE TexIInv'
  BY <1>1, MarkedOK DEF UploadFast
<1>2. ASSUME NEW c \in TexCopies, NEW b \in VramBlocks, CopyRect(c.blocks, c.tracked, b) PROVE TexIInv'
  <2>1. c.tracked = c.blocks
    BY <1>2 DEF CopyRect
  <2>2. shadow[b] \in Content
    BY DEF TexIInv, TexTypeOK
  <2> QED BY <1>2, <2>1, <2>2, MarkedOK DEF CopyRect
<1>3. ASSUME NEW r \in TexRegions, NEW v \in Content, FillRect(r, v) PROVE TexIInv'
  <2>1. /\ shadow' \in [VramBlocks -> Content] /\ mirror' \in [VramBlocks -> Content]
        /\ \A b \in VramBlocks \ BlocksOf(r) : shadow'[b] = shadow[b] /\ mirror'[b] = mirror[b]
        /\ \A b \in VramBlocks \cap BlocksOf(r) : shadow'[b] = mirror'[b]
    BY <1>3 DEF FillRect, Over, TexIInv, TexTypeOK
  <2> QED BY <1>3, <2>1, UnmarkedOK DEF FillRect
<1>4. ASSUME NEW r \in TexRegions, VRAMReadback(r) PROVE TexIInv'
  <2>1. /\ shadow' \in [VramBlocks -> Content] /\ mirror' \in [VramBlocks -> Content]
        /\ \A b \in VramBlocks \ BlocksOf(r) : shadow'[b] = shadow[b] /\ mirror'[b] = mirror[b]
        /\ \A b \in VramBlocks \cap BlocksOf(r) : shadow'[b] = mirror'[b]
    BY <1>4 DEF VRAMReadback, TexIInv, TexTypeOK
  <2> QED BY <1>4, <2>1, UnmarkedOK DEF VRAMReadback
<1>5. CASE TexWrites
  BY <1>1, <1>2, <1>3, <1>4, <1>5, LoadStartOK, RenderOK DEF TexWrites
<1>6. CASE UNCHANGED texVars
  <2>1. TexTypeOK' /\ page' = [s \in TexSlots |-> page[s]]'
    BY <1>6 DEF TexIInv, TexTypeOK, texVars, genVars
  <2>2. Uploaded' /\ EntriesTrue' /\ (sampled # "none" => UpToDate(sampled))'
    BY <1>6 DEF TexIInv, Uploaded, EntriesTrue, UpToDate, texVars, genVars
  <2>3. LoadMarked' /\ Gathered' /\ MirrorBehind'
    BY <1>6 DEF TexIInv, LoadMarked, BlocksOf, Gathered, MirrorBehind, texVars, genVars
  <2> QED BY <2>1, <2>2, <2>3 DEF TexIInv
<1> QED BY <1>5, <1>6, LoadWordOK, LoadAbortOK, ResetOK, DrawHitOK, DrawMissOK DEF TexNext

(* A primitive samples its texture page as VRAM has it, and the GS's copy  *)
(* of VRAM agrees with the shadow outside what the GS drew: whatever pages *)
(* and regions there are, while the three known lapses (an aborted upload, *)
(* a reset, a copy past the edge) do not happen.                           *)
THEOREM CopiesAlwaysCurrent == ASSUME TexShown = {} PROVE TexSpec => []CopiesAreCurrent
<1>1. TexInit => TexIInv
  BY TexInitOK
<1>2. TexIInv /\ [TexNext]_texVars => TexIInv'
  BY TexStepOK
<1>3. TexIInv => CopiesAreCurrent
  BY TexGoal
<1> QED BY <1>1, <1>2, <1>3, PTL DEF TexSpec
-----------------------------------------------------------------------------
(* What gs_state says of a register is true; TEST, which GP0(E6) rewrites, *)
(* only while gs_state is valid.                                           *)
TracksGs ==
  \A r \in GsRegs : (st.valid \/ r # "test") /\ st.reg[r] # Unknown[r] => st.reg[r] = gs.reg[r]

(* The texture register for the slot s and the raw bit, and texturing on.  *)
Textured(g, s, raw) == g.reg.tex0 = <<IF s \in HwSlots THEN s ELSE "vram", raw>> /\ g.reg.test[1]

(* What the key of the last command stands for.                            *)
KeyTrue ==
  st.key # <<>> =>
    /\ st.valid /\ st.key[4] = psx.mode /\ gs.reg.dthe = Bit(st.key[2])
    /\ st.key[3] => gs.reg.alpha = psx.mode
    /\ st.key[5] => Textured(gs, st.slot, st.key[1])

(* What an open batch stands for.                                          *)
BatchTrue ==
  batch.active =>
    /\ st.valid /\ gs.reg.dthe = Bit(batch.cmd[4])
    /\ batch.cmd[2] =>
         /\ Textured(gs, psx.slot, batch.cmd[3])
         /\ psx.slot \in HwSlots => st.reg.texclut = batch.clut

Needs ==
  [dthe : {0, 1}, alpha : Int, tex0 : (GsSlots \cup {"vram", "unknown"}) \X BOOLEAN, clamp : Int,
   pal : (Cluts \cup {"unknown"}) \X {0, 1}, at : BOOLEAN, date : BOOLEAN]

GsShape ==
  /\ psx \in [slot : GsSlots, mode : Nat, dither : BOOLEAN, flip : BOOLEAN, win : 0 .. 1, mask : BOOLEAN]
  /\ st = [valid |-> st.valid, key |-> st.key, slot |-> st.slot, reg |-> st.reg] /\ st.valid \in BOOLEAN
  /\ st.reg = [r \in GsRegs |-> st.reg[r]]
  /\ gs = [reg |-> gs.reg, pal |-> gs.pal] /\ gs.reg = [r \in GsRegs |-> gs.reg[r]]
  /\ cached \subseteq GsSlots /\ cluts \in [Cluts -> {0, 1}]

BatchShape ==
  /\ batch = [active |-> batch.active, cmd |-> batch.cmd, semi |-> batch.semi, page |-> batch.page,
              clut |-> batch.clut, subs |-> batch.subs, tris |-> batch.tris]
  /\ batch.active \in BOOLEAN /\ batch.subs \in 0 .. BatchSubs
  /\ batch.tris \in Seq(Needs) /\ Len(batch.tris) <= BatchMax
  /\ batch.active <=> batch.tris # <<>>

GsIInv ==
  /\ GsShape /\ TracksGs /\ gs.reg.test[2] = psx.mask /\ KeyTrue /\ right
  /\ BatchShape /\ BatchTrue /\ BatchSuits

-----------------------------------------------------------------------------
LEMMA PrimOK ==
  ASSUME NEW p \in GsPrims
  PROVE  /\ p.kind \in {"tri", "quad", "rect", "line", "fill"} /\ {p.tex, p.raw, p.semi, p.shaded} \subseteq BOOLEAN
         /\ p.slot \in GsSlots /\ p.clut \in Cluts /\ p.mode \in Nat
         /\ p.kind \in {"line", "fill"} => ~p.tex
         /\ p.kind = "fill" => ~p.semi
BY GsAssumption

(* What is known to a command that meets none of the hazards.              *)
LEMMA Avoided ==
  ASSUME GsShown = {}, NEW p, OnlyShown(p)
  PROVE  /\ Joins(p) \/ TakesFast(p) => ModeOf(p) = psx.mode
         /\ Joins(p) /\ p.semi => gs.reg.alpha = ModeOf(p)
         /\ p.kind = "fill" => ~psx.mask /\ gs.reg.dthe = 0
         /\ p.kind = "line" => gs.reg.dthe = Bit(psx.dither /\ p.shaded)
         /\ p.tex =>
              /\ Joins(p) => p.slot = psx.slot
              /\ Joins(p) \/ TakesFast(p) \/ SameState(p, p.slot, p.mode) => st.reg.clamp = psx.win
              /\ st.valid /\ st.reg.texclut = p.clut => gs.pal = <<p.clut, cluts[p.clut]>>
              /\ SlotOf(p) \notin HwSlots => gs.reg.clamp = 0
              /\ p.kind = "rect" /\ ~p.raw /\ psx.slot \notin HwSlots => gs.reg.tex0 = Tex0For(p, psx.slot)
BY DEF OnlyShown

LEMMA WantedIs ==
  ASSUME NEW p
  PROVE  /\ Wanted(p).dthe = Bit(use_dither(p)) /\ Wanted(p).alpha = ModeOf(p)
         /\ Wanted(p).tex0 = Tex0For(p, SlotOf(p)) /\ Wanted(p).texclut = p.clut
         /\ Wanted(p).clamp = IF SlotOf(p) \in HwSlots THEN psx.win ELSE 0
         /\ Wanted(p).test = TestReg(TRUE, psx.mask) /\ Wanted(p).test[1] = TRUE /\ Wanted(p).test[2] = psx.mask
BY DEF Wanted, Want, TestReg

LEMMA WantedOK ==
  ASSUME GsShape, NEW p \in GsPrims
  PROVE  /\ SlotOf(p) \in GsSlots /\ ModeOf(p) \in Nat
         /\ \A r \in GsRegs : Wanted(p)[r] # Unknown[r]
<1>1. SlotOf(p) \in GsSlots /\ ModeOf(p) \in Nat
  BY PrimOK DEF SlotOf, ModeOf, GsShape
<1>2. Bit(use_dither(p)) # -1 /\ ModeOf(p) # -1 /\ (IF SlotOf(p) \in HwSlots THEN psx.win ELSE 0) # -1
  BY <1>1 DEF Bit, GsShape
<1>3. p.clut # "unknown" /\ SlotOf(p) # "unknown"
  BY <1>1, PrimOK, GsAssumption
<1>4. Tex0For(p, SlotOf(p)) # <<"unknown", FALSE>>
  BY <1>3 DEF Tex0For
<1>5. TestReg(TRUE, psx.mask) # <<FALSE, FALSE, "unknown">>
  BY DEF TestReg
<1>6. \A r \in GsRegs : Wanted(p)[r] # Unknown[r]
  <2>1. /\ Unknown["dthe"] = -1 /\ Unknown["alpha"] = -1 /\ Unknown["tex0"] = <<"unknown", FALSE>>
        /\ Unknown["clamp"] = -1 /\ Unknown["texclut"] = "unknown" /\ Unknown["test"] = <<FALSE, FALSE, "unknown">>
    BY DEF Unknown
  <2>2. /\ Wanted(p)["dthe"] # -1 /\ Wanted(p)["alpha"] # -1 /\ Wanted(p)["clamp"] # -1
        /\ Wanted(p)["texclut"] # "unknown" /\ Wanted(p)["tex0"] # <<"unknown", FALSE>>
    BY <1>2, <1>3, <1>4, WantedIs
  <2>3. Wanted(p)["test"] # <<FALSE, FALSE, "unknown">>
    BY <1>5, WantedIs
  <2> QED BY <2>1, <2>2, <2>3 DEF GsRegs
<1> QED BY <1>1, <1>6

LEMMA UsesOK ==
  ASSUME NEW p
  PROVE  Uses(p) \subseteq GsRegs /\ ("texclut" \in Uses(p) => "tex0" \in Uses(p)) /\ "dthe" \in Uses(p)
BY DEF Uses, PolyUses, RectUses, GsRegs

(* After the cold path the registers a primitive uses are as it wants      *)
(* them, written or not, and the others as they were.                      *)
LEMMA ColdRegs ==
  ASSUME GsIInv, NEW p \in GsPrims, ~SameAsLast(p)
  PROVE  /\ \A r \in Uses(p) : GsAfter(Emitted(p), Wanted(p)).reg[r] = Wanted(p)[r]
         /\ \A r \in GsRegs \ Uses(p) : GsAfter(Emitted(p), Wanted(p)).reg[r] = gs.reg[r]
         /\ "tex0" \notin Emitted(p) /\ "texclut" \in Uses(p) => st.valid /\ st.reg.texclut = p.clut
<1> DEFINE E == Emitted(p)
           F == Wanted(p)
           A == GsAfter(E, F)
<1>1. E = Reloads({r \in Uses(p) : ~st.valid \/ st.reg[r] # F[r] \/ r \in Forced(p)})
  BY DEF Emitted, Written
<1>2. E \subseteq Uses(p)
  BY <1>1, UsesOK DEF Reloads
<1>3. \A r \in Uses(p) \ E : st.valid /\ st.reg[r] = F[r]
  BY <1>1 DEF Reloads
<1>4. \A r \in GsRegs : A.reg[r] = IF r \in E THEN F[r] ELSE gs.reg[r]
  BY DEF GsAfter
<1>5. \A r \in Uses(p) \ E : gs.reg[r] = F[r]
  <2> SUFFICES ASSUME NEW r \in Uses(p) \ E PROVE gs.reg[r] = F[r]
    OBVIOUS
  <2>1. r \in GsRegs /\ st.valid /\ st.reg[r] = F[r]
    BY <1>3, UsesOK
  <2>2. F[r] # Unknown[r]
    BY <2>1, WantedOK DEF GsIInv
  <2> QED BY <2>1, <2>2 DEF GsIInv, TracksGs
<1>6. "tex0" \notin E => "texclut" \notin E
  BY <1>1 DEF Reloads
<1>7. F["texclut"] = p.clut
  BY DEF Wanted, Want
<1> QED BY <1>2, <1>3, <1>4, <1>5, <1>6, <1>7, UsesOK

LEMMA ColdMask ==
  ASSUME GsIInv, NEW p \in GsPrims, ~SameAsLast(p)
  PROVE  GsAfter(Emitted(p), Wanted(p)).reg.test[2] = psx.mask
<1> DEFINE A == GsAfter(Emitted(p), Wanted(p))
<1>0. /\ \A r \in Uses(p) : A.reg[r] = Wanted(p)[r]
      /\ \A r \in GsRegs \ Uses(p) : A.reg[r] = gs.reg[r]
  BY ColdRegs
<1> HIDE DEF A
<1>1. CASE "test" \in Uses(p)
  <2>1. A.reg["test"] = Wanted(p)["test"]
    BY <1>0, <1>1
  <2>2. Wanted(p).test[2] = psx.mask
    BY WantedIs
  <2> QED BY <2>1, <2>2 DEF A
<1>2. CASE "test" \notin Uses(p)
  <2>1. A.reg.test = gs.reg.test
    BY <1>0, <1>2 DEF GsRegs
  <2> QED BY <2>1 DEF GsIInv, A
<1> QED BY <1>1, <1>2

(* ... so that the primitive finds what it needs,                          *)
LEMMA ColdSuits ==
  ASSUME GsIInv, GsShown = {}, NEW p \in GsPrims, OnlyShown(p), p.kind \in {"tri", "quad", "rect"}, ~SameAsLast(p)
  PROVE  Suits(Need(p), GsAfter(Emitted(p), Wanted(p)))
<1> DEFINE A == GsAfter(Emitted(p), Wanted(p))
           n == Need(p)
           s == SlotOf(p)
<1>0. /\ ~IsPoly(p) => s = psx.slot /\ p.kind = "rect"
      /\ \A r \in Uses(p) : A.reg[r] = Wanted(p)[r]
      /\ \A r \in GsRegs \ Uses(p) : A.reg[r] = gs.reg[r]
  BY ColdRegs DEF IsPoly, SlotOf
<1>8. n.dthe = Bit(use_dither(p)) /\ n.alpha = (IF p.semi THEN ModeOf(p) ELSE -1) /\ n.at = p.tex
  BY DEF Need
<1>9. n.date = psx.mask
  BY DEF Need, GsIInv, GsShape
<1> HIDE DEF A
<1>1. A.reg.dthe = n.dthe
  BY <1>0, <1>8, UsesOK, WantedIs
<1>2. n.alpha # -1 => A.reg.alpha = n.alpha
  <2>1. CASE p.semi
    <3>1. "alpha" \in Uses(p)
      BY <2>1 DEF Uses, PolyUses, RectUses
    <3> QED BY <1>0, <1>8, <2>1, <3>1, WantedIs
  <2>2. CASE ~p.semi
    BY <1>8, <2>2
  <2> QED BY <2>1, <2>2
<1>3. p.tex => "test" \in Uses(p)
  BY DEF Uses, PolyUses, RectUses
<1>4. n.at => A.reg.test[1]
  BY <1>0, <1>3, <1>8, WantedIs
<1>5. A.reg.test[2] = n.date
  BY <1>9, ColdMask DEF A
<1>6. CASE ~p.tex
  <2>1. n.tex0[1] = "unknown" /\ n.clamp = -1 /\ n.pal[1] = "unknown"
    BY <1>6 DEF Need
  <2>2. /\ n.tex0[1] # "unknown" => A.reg.tex0 = n.tex0
        /\ n.clamp # -1 => A.reg.clamp = n.clamp
        /\ n.pal[1] # "unknown" => A.pal = n.pal
    BY <2>1
  <2> QED BY <1>1, <1>2, <1>4, <1>5, <2>2 DEF Suits, A
<1>7. CASE p.tex
  <2>0. /\ n.tex0 = Tex0For(p, s) /\ n.clamp = IF s \in HwSlots THEN psx.win ELSE 0
        /\ s \in HwSlots => n.pal = <<p.clut, cluts[p.clut]>>
        /\ s \notin HwSlots => n.pal[1] = "unknown"
    BY <1>7 DEF Need
  <2>1. s \in HwSlots => {"tex0", "clamp", "texclut"} \subseteq Uses(p)
    BY <1>7 DEF Uses, PolyUses, RectUses, SlotOf
  <2>2. A.reg.tex0 = Tex0For(p, s)
    <3>1. CASE "tex0" \in Uses(p)
      BY <1>0, <3>1, WantedIs
    <3>2. CASE "tex0" \notin Uses(p)
      <4>1. ~IsPoly(p) /\ psx.slot \notin HwSlots /\ ~p.raw
        BY <1>7, <3>2 DEF Uses, PolyUses, RectUses
      <4>2. gs.reg.tex0 = Tex0For(p, s)
        BY <1>0, <1>7, <4>1, Avoided
      <4>3. A.reg.tex0 = gs.reg.tex0
        BY <1>0, <3>2 DEF GsRegs
      <4> QED BY <4>2, <4>3
    <3> QED BY <3>1, <3>2
  <2>3. A.reg.clamp = n.clamp
    <3>1. CASE "clamp" \in Uses(p)
      <4>1. A.reg["clamp"] = Wanted(p)["clamp"]
        BY <1>0, <3>1
      <4> QED BY <2>0, <4>1, WantedIs
    <3>2. CASE "clamp" \notin Uses(p)
      <4>1. s \notin HwSlots
        BY <2>1, <3>2
      <4>2. gs.reg.clamp = 0
        BY <1>7, <4>1, Avoided
      <4>3. A.reg.clamp = gs.reg.clamp
        BY <1>0, <3>2 DEF GsRegs
      <4> QED BY <2>0, <4>1, <4>2, <4>3
    <3> QED BY <3>1, <3>2
  <2>4. n.pal[1] # "unknown" => A.pal = n.pal
    <3> SUFFICES ASSUME s \in HwSlots PROVE A.pal = <<p.clut, cluts[p.clut]>>
      BY <2>0
    <3>1. CASE "tex0" \in Emitted(p)
      <4>1. A.reg.texclut = p.clut
        BY <1>0, <2>1, WantedIs
      <4>2. Wanted(p).tex0[1] = s /\ s # "vram"
        <5>1. Wanted(p).tex0 = Tex0For(p, s) /\ Tex0For(p, s)[1] = s
          BY WantedIs DEF Tex0For
        <5> QED BY <5>1, GsAssumption
      <4> QED BY <3>1, <4>1, <4>2 DEF GsAfter, A
    <3>2. CASE "tex0" \notin Emitted(p)
      <4>1. st.valid /\ st.reg.texclut = p.clut
        BY <2>1, <3>2, ColdRegs
      <4>2. gs.pal = <<p.clut, cluts[p.clut]>>
        BY <1>7, <4>1, Avoided
      <4> QED BY <3>2, <4>2 DEF GsAfter, A
    <3> QED BY <3>1, <3>2
  <2>5. /\ n.tex0[1] # "unknown" => A.reg.tex0 = n.tex0
        /\ n.clamp # -1 => A.reg.clamp = n.clamp
    BY <2>0, <2>2, <2>3
  <2> QED BY <1>1, <1>2, <1>4, <1>5, <2>4, <2>5 DEF Suits, A
<1> QED BY <1>6, <1>7 DEF A

LEMMA ClampTrue == ASSUME GsIInv, st.reg.clamp = psx.win PROVE gs.reg.clamp = psx.win
<1>1. psx.win # -1 /\ Unknown["clamp"] = -1 /\ "clamp" \in GsRegs
  BY DEF GsIInv, GsShape, Unknown, GsRegs
<1>2. st.reg["clamp"] # Unknown["clamp"]
  BY <1>1
<1> QED BY <1>1, <1>2 DEF GsIInv, TracksGs

(* The fast path's test finds the registers of the last command.           *)
LEMMA FastSuits ==
  ASSUME GsIInv, GsShown = {}, NEW p \in GsPrims, OnlyShown(p), p.kind \in {"tri", "quad", "rect"},
         SameState(p, SlotOf(p), ModeOf(p)), p.tex => st.reg.clamp = psx.win
  PROVE  Suits(Need(p), gs) /\ ModeOf(p) = psx.mode /\ (p.tex => Textured(gs, SlotOf(p), p.raw))
<1> DEFINE n == Need(p)
           s == SlotOf(p)
<1>1. /\ st.valid /\ st.key = cmd_key(p, ModeOf(p))
      /\ p.tex => s \in cached /\ st.slot = s /\ (s \in HwSlots => st.reg.texclut = p.clut)
  BY DEF SameState
<1>2. /\ st.key # <<>> /\ st.key[1] = p.raw /\ st.key[2] = use_dither(p) /\ st.key[3] = p.semi
      /\ st.key[4] = ModeOf(p) /\ st.key[5] = p.tex
  BY <1>1 DEF cmd_key
<1>3. /\ ModeOf(p) = psx.mode /\ gs.reg.dthe = Bit(use_dither(p))
      /\ p.semi => gs.reg.alpha = psx.mode
      /\ p.tex => Textured(gs, s, p.raw)
  BY <1>1, <1>2 DEF GsIInv, KeyTrue
<1>4. n.dthe = Bit(use_dither(p)) /\ n.alpha = (IF p.semi THEN ModeOf(p) ELSE -1) /\ n.at = p.tex
  BY DEF Need
<1>5. gs.reg.test[2] = n.date
  BY DEF Need, GsIInv, GsShape
<1>6. gs.reg.dthe = n.dthe /\ (n.alpha # -1 => gs.reg.alpha = n.alpha)
  BY <1>3, <1>4
<1>7. n.at => gs.reg.test[1]
  BY <1>3, <1>4 DEF Textured
<1>8. CASE ~p.tex
  <2>1. n.tex0[1] = "unknown" /\ n.clamp = -1 /\ n.pal[1] = "unknown"
    BY <1>8 DEF Need
  <2>2. /\ n.tex0[1] # "unknown" => gs.reg.tex0 = n.tex0
        /\ n.clamp # -1 => gs.reg.clamp = n.clamp
        /\ n.pal[1] # "unknown" => gs.pal = n.pal
    BY <2>1
  <2>3. Suits(Need(p), gs)
    BY <1>5, <1>6, <1>7, <2>2 DEF Suits
  <2> QED BY <1>3, <2>3
<1>9. CASE p.tex
  <2>1. /\ n.tex0 = Tex0For(p, s) /\ n.clamp = IF s \in HwSlots THEN psx.win ELSE 0
        /\ s \in HwSlots => n.pal = <<p.clut, cluts[p.clut]>>
        /\ s \notin HwSlots => n.pal[1] = "unknown"
    BY <1>9 DEF Need
  <2>2. gs.reg.tex0 = Tex0For(p, s)
    BY <1>3, <1>9 DEF Textured, Tex0For
  <2>3. s \in HwSlots => gs.reg.clamp = psx.win
    BY <1>9, ClampTrue
  <2>4. gs.reg.clamp = n.clamp
    BY <1>9, <2>1, <2>3, Avoided
  <2>5. n.pal[1] # "unknown" => gs.pal = n.pal
    BY <1>1, <1>9, <2>1, Avoided
  <2>6. /\ n.tex0[1] # "unknown" => gs.reg.tex0 = n.tex0
        /\ n.clamp # -1 => gs.reg.clamp = n.clamp
    BY <2>1, <2>2, <2>4
  <2>7. Suits(Need(p), gs)
    BY <1>5, <1>6, <1>7, <2>5, <2>6 DEF Suits
  <2> QED BY <1>3, <2>7
<1> QED BY <1>8, <1>9

LEMMA TakesFastOK ==
  ASSUME GsIInv, GsShown = {}, NEW p \in GsPrims, OnlyShown(p), TakesFast(p)
  PROVE  /\ Suits(Need(p), gs) /\ ModeOf(p) = psx.mode /\ (p.tex => Textured(gs, SlotOf(p), p.raw))
         /\ st.valid /\ gs.reg.dthe = Bit(use_dither(p))
         /\ p.tex /\ SlotOf(p) \in HwSlots => st.reg.texclut = p.clut
<1>1. ModeOf(p) = psx.mode /\ (p.tex => st.reg.clamp = psx.win)
  BY Avoided
<1>2. p.kind \in {"tri", "quad", "rect"} /\ SameState(p, SlotOf(p), ModeOf(p))
  <2>1. CASE IsPoly(p) /\ SameState(p, p.slot, psx.mode)
    BY <1>1, <2>1 DEF IsPoly, SameState, SlotOf
  <2>2. CASE p.kind = "rect" /\ SameState(p, psx.slot, psx.mode)
    BY <1>1, <2>2 DEF IsPoly, SlotOf
  <2> QED BY <2>1, <2>2 DEF TakesFast
<1>3. Suits(Need(p), gs) /\ (p.tex => Textured(gs, SlotOf(p), p.raw))
  BY <1>1, <1>2, FastSuits
<1>4. st.valid /\ (p.tex /\ SlotOf(p) \in HwSlots => st.reg.texclut = p.clut)
  BY <1>2 DEF SameState
<1>5. Need(p).dthe = Bit(use_dither(p))
  BY <1>2 DEF Need
<1>6. gs.reg.dthe = Bit(use_dither(p))
  BY <1>3, <1>5 DEF Suits
<1> QED BY <1>1, <1>3, <1>4, <1>6

(* A triangle that joins a batch needs what the batch has.                 *)
LEMMA JoinSuits ==
  ASSUME GsIInv, GsShown = {}, NEW p \in GsPrims, OnlyShown(p), Joins(p)
  PROVE  Suits(Need(p), gs) /\ ModeOf(p) = psx.mode /\ SlotOf(p) = psx.slot
<1> DEFINE n == Need(p)
<1>1. p.kind = "tri" /\ batch.active /\ batch.cmd = BatchCmd(p) /\ (p.tex => p.clut = batch.clut)
  BY DEF Joins
<1>2. batch.cmd[2] = p.tex /\ batch.cmd[3] = p.raw /\ batch.cmd[4] = use_dither(p)
  BY <1>1 DEF BatchCmd
<1>3. ModeOf(p) = psx.mode /\ SlotOf(p) = psx.slot
  BY Avoided DEF SlotOf
<1>4. /\ st.valid /\ gs.reg.dthe = Bit(use_dither(p))
      /\ p.tex => Textured(gs, psx.slot, p.raw) /\ (psx.slot \in HwSlots => st.reg.texclut = p.clut)
  BY <1>1, <1>2 DEF GsIInv, BatchTrue
<1>5. n.dthe = Bit(use_dither(p)) /\ n.alpha = (IF p.semi THEN ModeOf(p) ELSE -1) /\ n.at = p.tex
  BY <1>1 DEF Need
<1>6. gs.reg.test[2] = n.date
  BY <1>1 DEF Need, GsIInv, GsShape
<1>7. gs.reg.dthe = n.dthe /\ (n.alpha # -1 => gs.reg.alpha = n.alpha)
  BY <1>4, <1>5, Avoided
<1>8. n.at => gs.reg.test[1]
  BY <1>4, <1>5 DEF Textured
<1>9. CASE ~p.tex
  <2>1. n.tex0[1] = "unknown" /\ n.clamp = -1 /\ n.pal[1] = "unknown"
    BY <1>9 DEF Need
  <2>2. /\ n.tex0[1] # "unknown" => gs.reg.tex0 = n.tex0
        /\ n.clamp # -1 => gs.reg.clamp = n.clamp
        /\ n.pal[1] # "unknown" => gs.pal = n.pal
    BY <2>1
  <2>3. Suits(Need(p), gs)
    BY <1>6, <1>7, <1>8, <2>2 DEF Suits
  <2> QED BY <1>3, <2>3
<1>10. CASE p.tex
  <2>1. /\ n.tex0 = Tex0For(p, psx.slot) /\ n.clamp = IF psx.slot \in HwSlots THEN psx.win ELSE 0
        /\ psx.slot \in HwSlots => n.pal = <<p.clut, cluts[p.clut]>>
        /\ psx.slot \notin HwSlots => n.pal[1] = "unknown"
    BY <1>3, <1>10 DEF Need
  <2>2. gs.reg.tex0 = Tex0For(p, psx.slot)
    BY <1>4, <1>10 DEF Textured, Tex0For
  <2>3. st.reg.clamp = psx.win
    BY <1>10, Avoided
  <2>4. gs.reg.clamp = n.clamp
    BY <1>3, <1>10, <2>1, <2>3, ClampTrue, Avoided
  <2>5. n.pal[1] # "unknown" => gs.pal = n.pal
    BY <1>4, <1>10, <2>1, Avoided
  <2>6. /\ n.tex0[1] # "unknown" => gs.reg.tex0 = n.tex0
        /\ n.clamp # -1 => gs.reg.clamp = n.clamp
    BY <2>1, <2>2, <2>4
  <2>7. Suits(Need(p), gs)
    BY <1>6, <1>7, <1>8, <2>5, <2>6 DEF Suits
  <2> QED BY <1>3, <2>7
<1> QED BY <1>9, <1>10

-----------------------------------------------------------------------------
(* The part of the invariant that is not about the batch.                  *)
RegsTrue == GsShape /\ TracksGs /\ gs.reg.test[2] = psx.mask /\ KeyTrue /\ right

LEMMA NeedOK == ASSUME GsShape, NEW p \in GsPrims PROVE Need(p) \in Needs
<1>1. /\ Bit(psx.dither /\ p.shaded) \in {0, 1} /\ Bit(use_dither(p)) \in {0, 1}
      /\ ModeOf(p) \in Int /\ SlotOf(p) \in GsSlots /\ p.clut \in Cluts /\ p.raw \in BOOLEAN /\ p.tex \in BOOLEAN
      /\ cluts[p.clut] \in {0, 1} /\ psx.win \in Int
  BY PrimOK, WantedOK DEF Bit, GsShape
<1>2. Tex0For(p, SlotOf(p)) \in (GsSlots \cup {"vram", "unknown"}) \X BOOLEAN
  BY <1>1 DEF Tex0For
<1>3. (psx.mask /\ p.kind # "fill") \in BOOLEAN
  OBVIOUS
<1> DEFINE n == Need(p)
<1>4. n = [dthe |-> n.dthe, alpha |-> n.alpha, tex0 |-> n.tex0, clamp |-> n.clamp, pal |-> n.pal, at |-> n.at, date |-> n.date]
  BY DEF Need
<1>5. n.dthe \in {0, 1} /\ n.alpha \in Int /\ n.clamp \in Int
  BY <1>1 DEF Need
<1>6. n.tex0 \in (GsSlots \cup {"vram", "unknown"}) \X BOOLEAN
  BY <1>2 DEF Need
<1>7. n.pal \in (Cluts \cup {"unknown"}) \X {0, 1}
  BY <1>1 DEF Need
<1>8. n.at \in BOOLEAN /\ n.date \in BOOLEAN
  BY <1>1, <1>3 DEF Need
<1> HIDE DEF n
<1>9. n \in Needs
  BY <1>4, <1>5, <1>6, <1>7, <1>8 DEF Needs
<1> QED BY <1>9 DEF n

(* A batch that was flushed, or had not begun.                             *)
LEMMA FlushedBatch == ASSUME batch' = NoBatch, RegsTrue' PROVE GsIInv'
<1>1. batch'.active = FALSE /\ batch'.tris = <<>> /\ BatchShape'
  BY GsAssumption DEF NoBatch, BatchShape
<1>2. BatchTrue' /\ BatchSuits'
  BY <1>1 DEF BatchTrue, BatchSuits
<1> QED BY <1>1, <1>2 DEF GsIInv, RegsTrue

LEMMA NoOpenBatch == ASSUME GsIInv, ~batch.active, batch' = batch, RegsTrue' PROVE GsIInv'
<1>1. ~batch'.active /\ batch'.tris = <<>> /\ BatchShape'
  BY DEF GsIInv, BatchShape
<1>2. BatchTrue' /\ BatchSuits'
  BY <1>1 DEF BatchTrue, BatchSuits
<1> QED BY <1>1, <1>2 DEF GsIInv, RegsTrue

(* The cold path.                                                          *)
LEMMA ColdTracks ==
  ASSUME GsIInv, NEW p \in GsPrims, NEW f, Cold(p, f), ~SameAsLast(p)
  PROVE  TracksGs'
<1> DEFINE A == GsAfter(Emitted(p), Wanted(p))
<1>1. gs'.reg = A.reg /\ st'.valid = TRUE /\ st'.reg = Tracked(Uses(p), Wanted(p), Resets(p))
  BY DEF Cold
<1>2. \A r \in Uses(p) : A.reg[r] = Wanted(p)[r]
  BY ColdRegs
<1>3. \A r \in GsRegs \ Uses(p) : A.reg[r] = gs.reg[r]
  BY ColdRegs
<1> HIDE DEF A
<1> SUFFICES ASSUME NEW r \in GsRegs, st'.reg[r] # Unknown[r] PROVE st'.reg[r] = gs'.reg[r]
  BY DEF TracksGs
<1>4. CASE r \in Uses(p)
  <2>1. st'.reg[r] = Wanted(p)[r]
    BY <1>1, <1>4 DEF Tracked
  <2> QED BY <1>1, <1>2, <1>4, <2>1
<1>5. CASE r \notin Uses(p)
  <2>1. st'.reg[r] = st.reg[r] /\ (st.valid \/ r \notin Resets(p))
    BY <1>1, <1>5 DEF Tracked
  <2>2. r = "test" => r \in Resets(p)
    BY <1>5 DEF Uses, PolyUses, RectUses, Resets, PolyResets
  <2>3. st.reg[r] = gs.reg[r]
    BY <2>1, <2>2 DEF GsIInv, TracksGs
  <2> QED BY <1>1, <1>3, <1>5, <2>1, <2>3
<1> QED BY <1>4, <1>5

LEMMA ColdKeeps ==
  ASSUME GsIInv, GsShown = {}, NEW p \in GsPrims, OnlyShown(p), p.kind \in {"tri", "quad", "rect"},
         NEW f, f, Cold(p, f), UNCHANGED cluts
  PROVE  RegsTrue'
<1> DEFINE A == GsAfter(Emitted(p), Wanted(p))
           s == SlotOf(p)
<1>1. /\ gs' = A /\ psx' = [psx EXCEPT !.slot = s, !.mode = ModeOf(p)] /\ right' = (f /\ Suits(Need(p), A))
      /\ st' = [valid |-> TRUE, key |-> IF IsPoly(p) THEN cmd_key(p, ModeOf(p)) ELSE <<>>,
                slot |-> IF IsPoly(p) /\ p.tex THEN s ELSE st.slot,
                reg |-> IF SameAsLast(p) THEN st.reg ELSE Tracked(Uses(p), Wanted(p), Resets(p))]
  BY DEF Cold
<1>2. s \in GsSlots /\ ModeOf(p) \in Nat
  BY WantedOK DEF GsIInv
<1>3. cached' \subseteq GsSlots
  BY <1>2 DEF Cold, CachedAfter, GsIInv, GsShape
<1>4. psx'.slot = s /\ psx'.mode = ModeOf(p) /\ psx'.mask = psx.mask
  BY <1>1 DEF GsIInv, GsShape
<1>5. GsShape'
  <2>1. psx' \in [slot : GsSlots, mode : Nat, dither : BOOLEAN, flip : BOOLEAN, win : 0 .. 1, mask : BOOLEAN]
    BY <1>1, <1>2 DEF GsIInv, GsShape
  <2>2. gs' = [reg |-> gs'.reg, pal |-> gs'.pal] /\ gs'.reg = [r \in GsRegs |-> gs'.reg[r]]
    BY <1>1 DEF GsAfter
  <2>3. st' = [valid |-> st'.valid, key |-> st'.key, slot |-> st'.slot, reg |-> st'.reg] /\ st'.valid \in BOOLEAN
    BY <1>1
  <2>4. st'.reg = [r \in GsRegs |-> st'.reg[r]]
    BY <1>1 DEF GsIInv, GsShape, Tracked
  <2> QED BY <1>3, <2>1, <2>2, <2>3, <2>4 DEF GsIInv, GsShape
<1>6. CASE SameAsLast(p)
  <2>1. IsPoly(p) /\ SameState(p, s, ModeOf(p)) /\ (p.tex => s = p.slot /\ ModeOf(p) = p.mode)
    BY <1>6 DEF SameAsLast, SlotOf, ModeOf
  <2>2. p.tex => st.reg.clamp = psx.win
    BY <2>1, Avoided
  <2>3. Suits(Need(p), gs) /\ ModeOf(p) = psx.mode
    BY <2>1, <2>2, FastSuits
  <2>4. A = gs
    BY <1>6 DEF GsAfter, Emitted, GsIInv, GsShape
  <2>5. st' = st
    BY <1>1, <1>6, <2>1 DEF SameState, GsIInv, GsShape
  <2>6. TracksGs' /\ gs'.reg.test[2] = psx'.mask
    BY <1>1, <1>4, <2>4, <2>5 DEF GsIInv, TracksGs
  <2>7. KeyTrue'
    BY <1>1, <1>4, <2>3, <2>4, <2>5 DEF GsIInv, KeyTrue, Textured
  <2>8. right'
    BY <1>1, <2>3, <2>4
  <2> QED BY <1>5, <2>6, <2>7, <2>8 DEF RegsTrue
<1>7. CASE ~SameAsLast(p)
  <2>1. right'
    BY <1>1, <1>7, ColdSuits
  <2>2. TracksGs' /\ gs'.reg.test[2] = psx'.mask
    BY <1>1, <1>4, <1>7, ColdTracks, ColdMask
  <2>3. KeyTrue'
    <3> SUFFICES ASSUME IsPoly(p) PROVE KeyTrue'
      BY <1>1 DEF KeyTrue
    <3>1. /\ st'.valid = TRUE /\ st'.key = cmd_key(p, ModeOf(p)) /\ (p.tex => st'.slot = s)
          /\ \A r \in Uses(p) : gs'.reg[r] = Wanted(p)[r]
      BY <1>1, <1>7, ColdRegs
    <3>2. /\ st'.key[1] = p.raw /\ st'.key[2] = use_dither(p) /\ st'.key[3] = p.semi
          /\ st'.key[4] = ModeOf(p) /\ st'.key[5] = p.tex
      BY <3>1 DEF cmd_key
    <3>3. gs'.reg.dthe = Bit(use_dither(p))
      BY <3>1, UsesOK, WantedIs
    <3>4. p.semi => gs'.reg.alpha = ModeOf(p)
      <4>1. p.semi => "alpha" \in Uses(p)
        BY DEF Uses, PolyUses
      <4> QED BY <3>1, <4>1, WantedIs
    <3>5. p.tex => Textured(gs', s, p.raw)
      <4> SUFFICES ASSUME p.tex PROVE gs'.reg.tex0 = Tex0For(p, s) /\ gs'.reg.test[1]
        BY DEF Textured, Tex0For
      <4>1. "tex0" \in Uses(p) /\ "test" \in Uses(p)
        BY DEF Uses, PolyUses
      <4>2. gs'.reg["tex0"] = Wanted(p)["tex0"] /\ gs'.reg["test"] = Wanted(p)["test"]
        BY <3>1, <4>1
      <4> QED BY <4>2, WantedIs
    <3>6. st'.key[5] => Textured(gs', st'.slot, st'.key[1])
      BY <3>1, <3>2, <3>5
    <3> QED BY <1>4, <3>1, <3>2, <3>3, <3>4, <3>6 DEF KeyTrue
  <2> QED BY <1>5, <2>1, <2>2, <2>3 DEF RegsTrue
<1> QED BY <1>6, <1>7

(* Lines and fills find the dithering and mask test they need, unless the  *)
(* hazards of their names happen.                                          *)
LEMMA PlainSuits ==
  ASSUME GsIInv, NEW p \in GsPrims, p.kind \in {"line", "fill"}, NEW g, g.reg.dthe = Need(p).dthe,
         p.semi => g.reg.alpha = psx.mode, g.reg.test[2] = Need(p).date
  PROVE  Suits(Need(p), g)
<1> DEFINE n == Need(p)
<1>1. ~p.tex /\ ModeOf(p) = psx.mode
  BY PrimOK DEF ModeOf, IsPoly
<1>2. n.tex0[1] = "unknown" /\ n.clamp = -1 /\ n.pal[1] = "unknown" /\ n.at = p.tex
  BY <1>1 DEF Need
<1>3. n.alpha # -1 => g.reg.alpha = n.alpha
  BY <1>1 DEF Need
<1>4. /\ n.tex0[1] # "unknown" => g.reg.tex0 = n.tex0
      /\ n.clamp # -1 => g.reg.clamp = n.clamp
      /\ n.pal[1] # "unknown" => g.pal = n.pal
      /\ n.at => g.reg.test[1]
  BY <1>1, <1>2
<1> QED BY <1>3, <1>4 DEF Suits

LEMMA LineKeeps ==
  ASSUME GsIInv, GsShown = {}, NEW p \in GsPrims, OnlyShown(p), p.kind = "line",
         NEW f, f, Line(p, f), UNCHANGED cluts
  PROVE  RegsTrue'
<1> DEFINE A == IF p.semi THEN [gs EXCEPT !.reg.alpha = psx.mode] ELSE gs
<1>1. /\ gs' = A /\ right' = (f /\ Suits(Need(p), A)) /\ UNCHANGED <<psx, cached>>
      /\ st' = IF p.semi THEN [st EXCEPT !.reg.alpha = psx.mode] ELSE st
  BY DEF Line
<1>2. /\ gs' = [reg |-> gs'.reg, pal |-> gs'.pal] /\ gs'.reg = [r \in GsRegs |-> gs'.reg[r]]
      /\ \A r \in GsRegs \ {"alpha"} : gs'.reg[r] = gs.reg[r]
      /\ gs'.reg["alpha"] = IF p.semi THEN psx.mode ELSE gs.reg["alpha"]
  BY <1>1 DEF GsIInv, GsShape, GsRegs
<1>3. /\ st' = [valid |-> st'.valid, key |-> st'.key, slot |-> st'.slot, reg |-> st'.reg]
      /\ st'.valid = st.valid /\ st'.key = st.key /\ st'.slot = st.slot
      /\ st'.reg = [r \in GsRegs |-> st'.reg[r]]
      /\ \A r \in GsRegs \ {"alpha"} : st'.reg[r] = st.reg[r]
      /\ st'.reg["alpha"] = IF p.semi THEN psx.mode ELSE st.reg["alpha"]
  BY <1>1 DEF GsIInv, GsShape, GsRegs
<1>4. gs'.reg.dthe = gs.reg.dthe /\ gs'.reg.tex0 = gs.reg.tex0 /\ gs'.reg.test = gs.reg.test
  BY <1>2 DEF GsRegs
<1>5. GsShape'
  BY <1>1, <1>2, <1>3 DEF GsIInv, GsShape
<1>6. TracksGs'
  <2> SUFFICES ASSUME NEW r \in GsRegs, st.valid \/ r # "test", st'.reg[r] # Unknown[r] PROVE st'.reg[r] = gs'.reg[r]
    BY <1>3 DEF TracksGs
  <2> QED BY <1>2, <1>3 DEF GsIInv, TracksGs
<1>7. gs'.reg.test[2] = psx'.mask
  BY <1>1, <1>4 DEF GsIInv
<1>8. KeyTrue'
  <2> SUFFICES ASSUME st.key # <<>> PROVE KeyTrue'
    BY <1>3 DEF KeyTrue
  <2>1. st.key[3] => gs'.reg.alpha = psx.mode
    BY <1>2 DEF GsIInv, KeyTrue
  <2>2. st.key[5] => Textured(gs', st.slot, st.key[1])
    BY <1>4 DEF GsIInv, KeyTrue, Textured
  <2> QED BY <1>1, <1>3, <1>4, <2>1, <2>2 DEF GsIInv, KeyTrue
<1>9. right'
  <2>1. gs'.reg.dthe = Need(p).dthe
    BY <1>4, Avoided DEF Need
  <2>2. gs'.reg.test[2] = Need(p).date
    BY <1>1, <1>7 DEF Need, GsIInv, GsShape
  <2>3. p.semi => gs'.reg.alpha = psx.mode
    BY <1>2
  <2>4. Suits(Need(p), gs')
    BY <2>1, <2>2, <2>3, PlainSuits
  <2> QED BY <1>1, <2>4
<1> QED BY <1>5, <1>6, <1>7, <1>8, <1>9 DEF RegsTrue

LEMMA FillKeeps ==
  ASSUME GsIInv, GsShown = {}, NEW p \in GsPrims, OnlyShown(p), p.kind = "fill",
         NEW f, f, Fill(p, f), UNCHANGED cluts
  PROVE  RegsTrue'
<1>1. ~p.semi /\ ~p.tex /\ ~psx.mask /\ gs.reg.dthe = 0
  BY PrimOK, Avoided
<1>2. gs.reg.dthe = Need(p).dthe
  BY <1>1 DEF Need, use_dither, IsPoly, Bit
<1>3. gs.reg.test[2] = Need(p).date
  BY <1>1 DEF Need, GsIInv, GsShape
<1>4. Suits(Need(p), gs)
  BY <1>1, <1>2, <1>3, PlainSuits
<1>5. right' /\ UNCHANGED <<psx, st, gs, cached>>
  BY <1>4 DEF Fill
<1> QED BY <1>5 DEF GsIInv, RegsTrue, GsShape, TracksGs, KeyTrue, Textured

LEMMA TranslateKeeps ==
  ASSUME GsIInv, GsShown = {}, NEW p \in GsPrims, OnlyShown(p), NEW f, f, Translate_GP0_to_GS(p, f), UNCHANGED cluts
  PROVE  RegsTrue'
<1>1. CASE p.kind = "line"
  BY <1>1, LineKeeps DEF Translate_GP0_to_GS
<1>2. CASE p.kind = "fill"
  BY <1>2, FillKeeps DEF Translate_GP0_to_GS
<1>3. CASE p.kind \in {"tri", "quad", "rect"}
  BY <1>3, ColdKeeps DEF Translate_GP0_to_GS
<1> QED BY <1>1, <1>2, <1>3, PrimOK

(* A step that leaves gs_state and the registers, and the blending mode.   *)
LEMMA SameRegs ==
  ASSUME GsIInv, NEW p \in GsPrims, psx' = [psx EXCEPT !.slot = SlotOf(p), !.mode = ModeOf(p)],
         ModeOf(p) = psx.mode, UNCHANGED <<st, gs, cached, cluts>>
  PROVE  GsShape' /\ TracksGs' /\ gs'.reg.test[2] = psx'.mask /\ KeyTrue' /\ psx'.slot = SlotOf(p)
<1>1. SlotOf(p) \in GsSlots /\ psx.mode \in Nat
  BY WantedOK DEF GsIInv, GsShape
<1>2. psx'.slot = SlotOf(p) /\ psx'.mode = psx.mode /\ psx'.mask = psx.mask
  BY DEF GsIInv, GsShape
<1>3. GsShape'
  BY <1>1 DEF GsIInv, GsShape
<1>4. TracksGs' /\ KeyTrue'
  BY <1>2 DEF GsIInv, TracksGs, KeyTrue, Textured
<1> QED BY <1>2, <1>3, <1>4 DEF GsIInv

LEMMA FastKeeps ==
  ASSUME GsIInv, NEW p \in GsPrims, Suits(Need(p), gs), ModeOf(p) = psx.mode,
         NEW f, f, FastEmit(p, f), UNCHANGED cluts
  PROVE  RegsTrue'
<1>1. /\ psx' = [psx EXCEPT !.slot = SlotOf(p), !.mode = ModeOf(p)] /\ UNCHANGED <<st, gs, cached, cluts>>
      /\ right'
  BY DEF FastEmit
<1> QED BY <1>1, SameRegs DEF RegsTrue

(* GPU_Backend_TryFastPoly draws flat polygons with dithering off.         *)
LEMMA TryFastPolyOK ==
  ASSUME GsIInv, NEW p \in GsPrims, TryFastPoly(p)
  PROVE  Suits(Need(p), gs) /\ ModeOf(p) = psx.mode
<1> DEFINE n == Need(p)
<1>1. IsPoly(p) /\ ~p.tex /\ ~p.semi /\ ~p.shaded /\ st.valid /\ st.reg.dthe = 0 /\ p.kind \in {"tri", "quad"}
  BY DEF TryFastPoly, IsPoly
<1>2. gs.reg.dthe = 0
  <2>1. "dthe" \in GsRegs /\ Unknown["dthe"] # 0
    BY DEF GsRegs, Unknown
  <2> QED BY <1>1, <2>1 DEF GsIInv, TracksGs
<1>3. /\ n.dthe = 0 /\ n.alpha = -1 /\ n.tex0[1] = "unknown" /\ n.clamp = -1 /\ n.pal[1] = "unknown"
      /\ n.at = p.tex
  BY <1>1 DEF Need, use_dither, Bit
<1>4. gs.reg.test[2] = n.date
  BY <1>1 DEF Need, GsIInv, GsShape
<1>5. /\ gs.reg.dthe = n.dthe
      /\ n.alpha # -1 => gs.reg.alpha = n.alpha
      /\ n.tex0[1] # "unknown" => gs.reg.tex0 = n.tex0
      /\ n.clamp # -1 => gs.reg.clamp = n.clamp
      /\ n.pal[1] # "unknown" => gs.pal = n.pal
      /\ n.at => gs.reg.test[1]
  BY <1>1, <1>2, <1>3
<1>6. Suits(Need(p), gs)
  BY <1>4, <1>5 DEF Suits
<1> QED BY <1>1, <1>6 DEF ModeOf

(* A triangle joins a batch, or begins one.                                *)
LEMMA JoinKeeps ==
  ASSUME GsIInv, GsShown = {}, NEW p \in GsPrims, OnlyShown(p), Joins(p), Join(p), UNCHANGED cluts
  PROVE  GsIInv'
<1>1. Suits(Need(p), gs) /\ ModeOf(p) = psx.mode /\ SlotOf(p) = psx.slot
  BY JoinSuits
<1>2. /\ psx' = [psx EXCEPT !.slot = SlotOf(p), !.mode = ModeOf(p)] /\ UNCHANGED <<st, gs, cached, cluts>> /\ right'
      /\ batch' = [batch EXCEPT !.tris = Append(@, Need(p)), !.semi = p.semi,
                                !.subs = IF p.semi # batch.semi THEN @ + 1 ELSE @]
  BY DEF Join
<1>3. GsShape' /\ TracksGs' /\ gs'.reg.test[2] = psx'.mask /\ KeyTrue' /\ psx'.slot = psx.slot
  BY <1>1, <1>2, SameRegs
<1>4. batch.active /\ Len(batch.tris) < BatchMax /\ (p.semi # batch.semi => batch.subs < BatchSubs)
  BY GsAssumption DEF Joins, BatchFull, GsIInv, BatchShape
<1>5. Need(p) \in Needs
  BY NeedOK DEF GsIInv
<1>6. /\ batch'.active = batch.active /\ batch'.cmd = batch.cmd /\ batch'.clut = batch.clut
      /\ batch'.tris = Append(batch.tris, Need(p))
      /\ batch'.subs = IF p.semi # batch.semi THEN batch.subs + 1 ELSE batch.subs
      /\ batch' = [active |-> batch'.active, cmd |-> batch'.cmd, semi |-> batch'.semi, page |-> batch'.page,
                   clut |-> batch'.clut, subs |-> batch'.subs, tris |-> batch'.tris]
  BY <1>2 DEF GsIInv, BatchShape
<1>7. batch.tris \in Seq(Needs)
  BY DEF GsIInv, BatchShape
<1>8. /\ batch'.tris \in Seq(Needs) /\ Len(batch'.tris) = Len(batch.tris) + 1 /\ batch'.tris # <<>>
      /\ \A i \in DOMAIN batch'.tris : batch'.tris[i] = Need(p) \/ (i \in DOMAIN batch.tris /\ batch'.tris[i] = batch.tris[i])
  BY <1>5, <1>6, <1>7
<1>9. batch'.subs \in 0 .. BatchSubs
  BY <1>4, <1>6, GsAssumption DEF GsIInv, BatchShape
<1>10. BatchShape'
  BY <1>4, <1>6, <1>7, <1>8, <1>9, GsAssumption DEF GsIInv, BatchShape
<1>11. BatchTrue'
  BY <1>2, <1>3, <1>6 DEF GsIInv, BatchTrue, Textured
<1>12. BatchSuits'
  <2> SUFFICES ASSUME NEW i \in DOMAIN batch'.tris PROVE Suits(batch'.tris[i], gs)
    BY <1>2 DEF BatchSuits, Suits
  <2> QED BY <1>1, <1>8 DEF GsIInv, BatchSuits
<1> QED BY <1>2, <1>3, <1>10, <1>11, <1>12 DEF GsIInv

LEMMA StartKeeps ==
  ASSUME GsIInv, GsShown = {}, NEW p \in GsPrims, OnlyShown(p), TakesFast(p), StartBatch(p), UNCHANGED cluts
  PROVE  GsIInv'
<1>1. /\ Suits(Need(p), gs) /\ ModeOf(p) = psx.mode /\ (p.tex => Textured(gs, SlotOf(p), p.raw))
      /\ st.valid /\ gs.reg.dthe = Bit(use_dither(p))
      /\ p.tex /\ SlotOf(p) \in HwSlots => st.reg.texclut = p.clut
  BY TakesFastOK
<1>2. /\ psx' = [psx EXCEPT !.slot = SlotOf(p), !.mode = ModeOf(p)] /\ UNCHANGED <<st, gs, cached, cluts>> /\ right'
      /\ batch' = [active |-> TRUE, cmd |-> BatchCmd(p), semi |-> p.semi, page |-> GsPage[p.slot], clut |-> p.clut,
                   subs |-> 1, tris |-> <<Need(p)>>]
  BY DEF StartBatch, GsIInv
<1>3. GsShape' /\ TracksGs' /\ gs'.reg.test[2] = psx'.mask /\ KeyTrue' /\ psx'.slot = SlotOf(p)
  BY <1>1, <1>2, SameRegs
<1>4. Need(p) \in Needs
  BY NeedOK DEF GsIInv
<1>5. /\ batch'.active = TRUE /\ batch'.cmd = BatchCmd(p) /\ batch'.clut = p.clut /\ batch'.subs = 1
      /\ batch'.tris = <<Need(p)>>
      /\ batch' = [active |-> batch'.active, cmd |-> batch'.cmd, semi |-> batch'.semi, page |-> batch'.page,
                   clut |-> batch'.clut, subs |-> batch'.subs, tris |-> batch'.tris]
  BY <1>2
<1>6. batch'.tris \in Seq(Needs) /\ Len(batch'.tris) = 1 /\ batch'.tris # <<>>
  BY <1>4, <1>5
<1>7. BatchShape'
  <2>1. 1 \in 0 .. BatchSubs /\ 1 <= BatchMax
    BY GsAssumption
  <2>2. batch'.active \in BOOLEAN /\ (batch'.active <=> batch'.tris # <<>>)
    BY <1>5, <1>6
  <2> QED BY <1>5, <1>6, <2>1, <2>2 DEF BatchShape
<1>8. batch'.cmd[2] = p.tex /\ batch'.cmd[3] = p.raw /\ batch'.cmd[4] = use_dither(p)
  BY <1>5 DEF BatchCmd
<1>9. BatchTrue'
  BY <1>1, <1>2, <1>3, <1>5, <1>8 DEF BatchTrue, Textured
<1>10. BatchSuits'
  <2> SUFFICES ASSUME NEW i \in DOMAIN batch'.tris PROVE Suits(batch'.tris[i], gs)
    BY <1>2 DEF BatchSuits, Suits
  <2>1. batch'.tris[i] = Need(p)
    BY <1>5
  <2> QED BY <1>1, <2>1
<1> QED BY <1>2, <1>3, <1>7, <1>9, <1>10 DEF GsIInv

(* A command, however it reaches the GPU.                                  *)
LEMMA DrawKeeps ==
  ASSUME GsIInv, GsShown = {}, NEW p \in GsPrims, OnlyShown(p), DrawCpu(p) \/ DrawBlock(p) \/ DrawList(p)
  PROVE  GsIInv'
<1>1. CASE DrawCpu(p)
  <2>1. RegsTrue'
    <3>1. CASE TryFastPoly(p)
      BY <1>1, <3>1, TryFastPolyOK, FastKeeps DEF DrawCpu
    <3>2. CASE ~TryFastPoly(p)
      BY <1>1, <3>2, TranslateKeeps DEF DrawCpu
    <3> QED BY <3>1, <3>2
  <2> QED BY <1>1, <2>1, NoOpenBatch DEF DrawCpu
<1>2. CASE DrawBlock(p)
  <2>1. RegsTrue'
    <3>1. CASE TakesFast(p)
      BY <1>2, <3>1, TakesFastOK, FastKeeps DEF DrawBlock
    <3>2. CASE ~TakesFast(p)
      BY <1>2, <3>2, TranslateKeeps DEF DrawBlock
    <3> QED BY <3>1, <3>2
  <2> QED BY <1>2, <2>1, NoOpenBatch DEF DrawBlock
<1>3. CASE DrawList(p)
  <2>1. CASE Joins(p)
    BY <1>3, <2>1, JoinKeeps DEF DrawList
  <2>2. CASE ~Joins(p) /\ TakesFast(p) /\ p.kind = "tri"
    BY <1>3, <2>2, StartKeeps DEF DrawList
  <2>3. CASE ~Joins(p) /\ ~(TakesFast(p) /\ p.kind = "tri")
    <3>0. /\ IF TakesFast(p) THEN FastEmit(p, BatchSuits) ELSE Translate_GP0_to_GS(p, BatchSuits)
          /\ batch' = NoBatch /\ UNCHANGED cluts
      BY <1>3, <2>3 DEF DrawList
    <3>1. BatchSuits
      BY DEF GsIInv
    <3>2. RegsTrue'
      <4>1. CASE TakesFast(p)
        BY <3>0, <3>1, <4>1, TakesFastOK, FastKeeps
      <4>2. CASE ~TakesFast(p)
        BY <3>0, <3>1, <4>2, TranslateKeeps
      <4> QED BY <4>1, <4>2
    <3> QED BY <3>0, <3>2, FlushedBatch
  <2> QED BY <2>1, <2>2, <2>3
<1> QED BY <1>1, <1>2, <1>3

(* What the guest sets or writes flushes the batch first; gs_state forgets *)
(* its key when the mode or the mask changes.                              *)
LEMMA SetKeeps ==
  ASSUME GsIInv,
         \/ \E m \in DrawModes : SetDrawMode(m)
         \/ \E w \in 0 .. 1 : SetWindow(w)
         \/ \E m \in BOOLEAN : SetMask(m)
  PROVE  GsIInv'
<1>0. BatchSuits /\ TracksGs /\ KeyTrue /\ gs.reg.test[2] = psx.mask /\ GsShape
  BY DEF GsIInv
<1>1. ASSUME NEW m \in DrawModes, SetDrawMode(m) PROVE GsIInv'
  <2>1. m.slot \in GsSlots /\ m.mode \in Nat /\ m.dither \in BOOLEAN /\ m.flip \in BOOLEAN
    BY GsAssumption
  <2>2. GsShape' /\ psx'.mask = psx.mask
    BY <1>0, <1>1, <2>1 DEF SetDrawMode, GsShape, Prim_InvalidateGSState
  <2>3. st'.valid = FALSE /\ st'.key = <<>> /\ st'.reg = st.reg /\ gs' = gs /\ batch' = NoBatch /\ right'
    BY <1>0, <1>1 DEF SetDrawMode, Prim_InvalidateGSState, Prim_FlushBatch, GsShape
  <2>4. RegsTrue'
    BY <1>0, <2>2, <2>3 DEF RegsTrue, TracksGs, KeyTrue
  <2> QED BY <2>3, <2>4, FlushedBatch
<1>2. ASSUME NEW w \in 0 .. 1, SetWindow(w) PROVE GsIInv'
  <2>1. GsShape' /\ psx'.mask = psx.mask /\ psx'.mode = psx.mode
    BY <1>0, <1>2 DEF SetWindow, GsShape
  <2>2. UNCHANGED <<st, gs>> /\ batch' = NoBatch /\ right'
    BY <1>0, <1>2 DEF SetWindow, Prim_FlushBatch
  <2>3. RegsTrue'
    BY <1>0, <2>1, <2>2 DEF RegsTrue, TracksGs, KeyTrue, Textured
  <2> QED BY <2>2, <2>3, FlushedBatch
<1>3. ASSUME NEW m \in BOOLEAN, SetMask(m) PROVE GsIInv'
  <2>1. st'.valid = FALSE /\ st'.key = <<>> /\ st'.reg = st.reg /\ batch' = NoBatch /\ right'
    BY <1>0, <1>3 DEF SetMask, Prim_InvalidateGSState, Prim_FlushBatch, GsShape
  <2>2. gs' = [gs EXCEPT !.reg.test = TestReg(FALSE, m)]
    BY <1>3 DEF SetMask
  <2>3. \A r \in GsRegs \ {"test"} : gs'.reg[r] = gs.reg[r]
    BY <1>0, <2>2, Zenon DEF GsShape
  <2>4. gs'.reg.test = TestReg(FALSE, m) /\ psx'.mask = m
    <3>1. gs'.reg.test = TestReg(FALSE, m)
      BY <1>0, <2>2 DEF GsShape, GsRegs
    <3>2. psx'.mask = m
      BY <1>0, <1>3 DEF GsShape, SetMask
    <3> QED BY <3>1, <3>2
  <2>5. TestReg(FALSE, m)[2] = m
    BY DEF TestReg
  <2>6. psx' \in [slot : GsSlots, mode : Nat, dither : BOOLEAN, flip : BOOLEAN, win : 0 .. 1, mask : BOOLEAN]
    BY <1>0, <1>3 DEF SetMask, GsShape
  <2>7. gs' = [reg |-> gs'.reg, pal |-> gs'.pal] /\ gs'.reg = [r \in GsRegs |-> gs'.reg[r]]
    BY <1>0, <2>2 DEF GsShape
  <2>8. GsShape'
    BY <1>0, <1>3, <2>6, <2>7 DEF SetMask, GsShape, Prim_InvalidateGSState
  <2>9. TracksGs'
    BY <1>0, <2>1, <2>3 DEF TracksGs
  <2>10. RegsTrue'
    BY <2>1, <2>4, <2>5, <2>8, <2>9 DEF RegsTrue, KeyTrue
  <2> QED BY <2>1, <2>10, FlushedBatch
<1> QED BY <1>1, <1>2, <1>3

LEMMA WriteKeeps ==
  ASSUME GsIInv,
         \/ ListEnds
         \/ \E c \in WrittenCluts : WriteClut(c)
         \/ \E s \in HwSlots : WritePage(s)
  PROVE  GsIInv'
<1>0. BatchSuits /\ TracksGs /\ KeyTrue /\ gs.reg.test[2] = psx.mask /\ GsShape
  BY DEF GsIInv
<1>1. UNCHANGED <<psx, st, gs>> /\ batch' = NoBatch /\ right'
  BY <1>0 DEF ListEnds, WriteClut, WritePage, Prim_FlushBatch
<1>2. cached' \subseteq cached
  BY DEF ListEnds, WriteClut, WritePage
<1>3. cluts' \in [Cluts -> {0, 1}]
  <2>1. CASE UNCHANGED cluts
    BY <1>0, <2>1 DEF GsShape
  <2>2. CASE \E c \in WrittenCluts : WriteClut(c)
    <3>1. PICK c \in WrittenCluts : cluts' = [cluts EXCEPT ![c] = 1 - @]
      BY <2>2 DEF WriteClut
    <3> QED BY <1>0, <3>1, GsAssumption DEF GsShape
  <2> QED BY <2>1, <2>2 DEF ListEnds, WritePage
<1>4. GsShape'
  BY <1>0, <1>1, <1>2, <1>3 DEF GsShape
<1>5. RegsTrue'
  BY <1>0, <1>1, <1>4 DEF RegsTrue, TracksGs, KeyTrue, Textured
<1> QED BY <1>1, <1>5, FlushedBatch

LEMMA GsInitIInv == GsInit => GsIInv
<1> SUFFICES ASSUME GsInit PROVE GsIInv
  OBVIOUS
<1>1. PICK m \in DrawModes : psx = [slot |-> m.slot, mode |-> m.mode, dither |-> m.dither, flip |-> m.flip,
                                    win |-> 0, mask |-> FALSE]
  BY DEF GsInit
<1>2. m.slot \in GsSlots /\ m.mode \in Nat /\ m.dither \in BOOLEAN /\ m.flip \in BOOLEAN
  BY GsAssumption
<1>3. psx \in [slot : GsSlots, mode : Nat, dither : BOOLEAN, flip : BOOLEAN, win : 0 .. 1, mask : BOOLEAN] /\ ~psx.mask
  BY <1>1, <1>2
<1>4. st.valid = FALSE /\ st.key = <<>> /\ st.reg = Unknown /\ batch = NoBatch /\ right
  BY DEF GsInit
<1>5. Unknown = [r \in GsRegs |-> Unknown[r]]
  BY DEF Unknown, GsRegs
<1>6. gs = [reg |-> gs.reg, pal |-> gs.pal] /\ gs.reg = [r \in GsRegs |-> gs.reg[r]]
  BY DEF GsInit, Unknown, GsRegs
<1>7. gs.reg.test[2] = psx.mask
  <2>1. gs.reg.test = TestReg(FALSE, FALSE)
    BY DEF GsInit, Unknown
  <2>2. TestReg(FALSE, FALSE)[2] = FALSE
    BY DEF TestReg
  <2>3. psx.mask = FALSE
    BY <1>1
  <2> QED BY <2>1, <2>2, <2>3
<1>8. GsShape
  BY <1>3, <1>4, <1>5, <1>6 DEF GsShape, GsInit
<1>9. TracksGs /\ KeyTrue
  BY <1>4 DEF TracksGs, KeyTrue
<1>10. batch.active = FALSE /\ batch.tris = <<>> /\ BatchShape
  BY <1>4, GsAssumption DEF NoBatch, BatchShape
<1>11. BatchTrue /\ BatchSuits
  BY <1>10 DEF BatchTrue, BatchSuits
<1> QED BY <1>4, <1>7, <1>8, <1>9, <1>10, <1>11 DEF GsIInv

LEMMA GsInductive == ASSUME GsShown = {} PROVE GsIInv /\ [GsNext]_gsVars => GsIInv'
<1> SUFFICES ASSUME GsIInv, [GsNext]_gsVars PROVE GsIInv'
  OBVIOUS
<1>1. CASE \E p \in GsPrims : OnlyShown(p) /\ (DrawCpu(p) \/ DrawBlock(p) \/ DrawList(p))
  BY <1>1, DrawKeeps
<1>2. CASE (\E m \in DrawModes : SetDrawMode(m)) \/ (\E w \in 0 .. 1 : SetWindow(w)) \/ (\E m \in BOOLEAN : SetMask(m))
  BY <1>2, SetKeeps
<1>3. CASE ListEnds \/ (\E c \in WrittenCluts : WriteClut(c)) \/ (\E s \in HwSlots : WritePage(s))
  BY <1>3, WriteKeeps
<1>4. CASE UNCHANGED gsVars
  <2>1. UNCHANGED <<psx, st, gs, cached, cluts, batch, right>>
    BY <1>4 DEF gsVars
  <2> QED BY <2>1 DEF GsIInv, GsShape, TracksGs, KeyTrue, Textured, BatchShape, BatchTrue, BatchSuits, Suits
<1> QED BY <1>1, <1>2, <1>3, <1>4 DEF GsNext

(* Where none of the known hazards happens, every primitive is drawn with  *)
(* the registers its command asks for, by whichever path: the cold one     *)
(* that compares with gs_state, the fast ones of GPU_TryFastEmit and       *)
(* GPU_Backend_TryFastPoly that write nothing, or a batch drawn later      *)
(* (gpu_ps2_primitives.c).  For any textures, palettes, commands and size  *)
(* of batch.                                                               *)
THEOREM DrawnAlwaysAsCommanded == ASSUME GsShown = {} PROVE GsSpec => []DrawnAsCommanded
<1>1. GsIInv => DrawnAsCommanded
  <2> SUFFICES ASSUME GsIInv PROVE DrawnAsCommanded
    OBVIOUS
  <2>1. GsTypeOK
    BY GsAssumption DEF GsIInv, GsShape, BatchShape, GsTypeOK
  <2>2. TrackedTrue
    BY DEF GsIInv, TracksGs, TrackedTrue
  <2> QED BY <2>1, <2>2 DEF GsIInv, DrawnAsCommanded
<1> QED BY <1>1, GsInitIInv, GsInductive, PTL DEF GsSpec

-----------------------------------------------------------------------------
(* What a command's words are: their number, and what the parser can tell  *)
(* of each.                                                                *)
Count(c) ==
  CASE c.op \in {"env", "irq", "nop"} -> 1
    [] c.op \in {"poly", "fill"} -> 3
    [] c.op = "copy" -> 4
    [] c.op = "store" -> 3
    [] c.op = "load" -> 3 + PixelWords(c)
    [] c.op = "line" -> IF c.shaded THEN 9 ELSE 6
Word0(c) == [Word EXCEPT !.op = c.op, !.page = c.page, !.shaded = c.shaded]

LEMMA GpuConstants ==
  /\ FullW \in Nat \ {0} /\ FullH \in Nat \ {0} /\ MaxPackets \in Nat \ {0} /\ 0 \in GpuPages
  /\ PolyWords = 3 /\ Vertices = 2
  /\ \A c \in GpuCommands : c.op \in GpuOps /\ c.page \in GpuPages /\ c.shaded \in BOOLEAN /\ c.w \in Nat /\ c.h \in Nat
BY GpuAssumption DEF PolyWords, Vertices

(* A pixel count is rounded up to words in the same way on both sides.     *)
LEMMA PixelsRound ==
  ASSUME NEW c \in GpuCommands
  PROVE  PixelWords(c) \in Nat \ {0} /\ ImageWords(c) = PixelWords(c)
<1> DEFINE a == IF c.w = 0 THEN FullW ELSE c.w
           b == IF c.h = 0 THEN FullH ELSE c.h
           n == a * b
<1>1. a \in Nat \ {0} /\ b \in Nat \ {0}
  BY GpuConstants
<1>2. n \in Nat \ {0}
  <2> HIDE DEF a, b
  <2> QED BY <1>1
<1>3. PixelWords(c) = (n \div 2) + (n % 2) /\ ImageWords(c) = (n + 1) \div 2
  BY DEF PixelWords, ImageWords
<1> HIDE DEF n
<1>4. (n \div 2) + (n % 2) = (n + 1) \div 2 /\ (n + 1) \div 2 \in Nat \ {0}
  BY <1>2
<1> QED BY <1>3, <1>4

Paged(c) == [Word EXCEPT !.page = c.page]
Sized(c) == [Word EXCEPT !.w = c.w, !.h = c.h]
EndWord == [Word EXCEPT !.end = TRUE]
WordsFor(c) == {Word, Paged(c), Sized(c), EndWord, Word0(c)}
IsBody(c, b) ==
  /\ b \in Seq(WordsFor(c)) /\ Len(b) = Count(c) - 1
  /\ c.op = "poly" => b[1] = Paged(c)
  /\ c.op \in {"load", "store"} => b[2] = Sized(c)
  /\ \A i \in 1 .. Count(c) - 1 : b[i].op = "nop" /\ (c.op = "line" => (b[i].end <=> i = Count(c) - 1))

LEMMA BodyIs ==
  ASSUME NEW c \in GpuCommands
  PROVE  IsBody(c, Body(c))
<1> DEFINE S == WordsFor(c)
           Plain(n) == [i \in 1 .. n |-> Word]
<1>0. c.op \in GpuOps /\ c.shaded \in BOOLEAN
  BY GpuConstants
<1>1. Word.op = "nop" /\ Sized(c).op = "nop" /\ EndWord.op = "nop" /\ Paged(c).op = "nop" /\ ~Word.end /\ EndWord.end
  BY DEF Word, Sized, EndWord, Paged
<1>2. Word \in S /\ Sized(c) \in S /\ EndWord \in S /\ Paged(c) \in S
  BY DEF WordsFor
<1> HIDE DEF S
<1>3. ASSUME NEW n \in Nat PROVE Plain(n) \in Seq(S) /\ Len(Plain(n)) = n /\ \A i \in 1 .. n : Plain(n)[i] = Word
  BY <1>2
<1> HIDE DEF Plain
<1> SUFFICES /\ Body(c) \in Seq(S) /\ Len(Body(c)) = Count(c) - 1
             /\ c.op = "poly" => Body(c)[1] = Paged(c)
             /\ c.op \in {"load", "store"} => Body(c)[2] = Sized(c)
             /\ \A i \in 1 .. Count(c) - 1 :
                  Body(c)[i].op = "nop" /\ (c.op = "line" => (Body(c)[i].end <=> i = Count(c) - 1))
  BY DEF IsBody, S
<1>4. CASE c.op \in {"env", "irq", "nop"}
  <2>1. Body(c) = <<>> /\ Count(c) = 1
    BY <1>4 DEF Body, Count
  <2> QED BY <1>4, <2>1
<1>5. CASE c.op \in {"poly", "fill"}
  <2>1. Body(c) = [i \in 1 .. 2 |-> Paged(c)] /\ Count(c) = 3
    BY <1>5, GpuConstants DEF Body, Count, Paged
  <2>2. Body(c) \in Seq(S) /\ Len(Body(c)) = 2 /\ \A i \in 1 .. 2 : Body(c)[i] = Paged(c)
    BY <1>2, <2>1
  <2> QED BY <1>1, <1>5, <2>1, <2>2
<1>6. CASE c.op = "copy"
  <2>1. Body(c) = Plain(3) /\ Count(c) = 4
    BY <1>6 DEF Body, Count, Plain
  <2>2. Body(c) \in Seq(S) /\ Len(Body(c)) = 3 /\ \A i \in 1 .. 3 : Body(c)[i] = Word
    BY <1>3, <2>1
  <2> QED BY <1>1, <1>6, <2>1, <2>2
<1>7. CASE c.op = "store"
  <2>1. Body(c) = <<Word, Sized(c)>> /\ Count(c) = 3
    BY <1>7 DEF Body, Count, Sized
  <2>2. <<Word, Sized(c)>> \in Seq(S)
    BY <1>2
  <2> QED BY <1>1, <1>7, <2>1, <2>2
<1>8. CASE c.op = "load"
  <2> DEFINE two == <<Word, Sized(c)>>
             n == PixelWords(c)
  <2>1. Body(c) = two \o Plain(n) /\ Count(c) = 3 + n
    BY <1>8 DEF Body, Count, Plain, Sized
  <2>2. two \in Seq(S) /\ Len(two) = 2 /\ two[1] = Word /\ two[2] = Sized(c)
    BY <1>2
  <2>3. n \in Nat
    BY PixelsRound
  <2> HIDE DEF two, n
  <2>4. Plain(n) \in Seq(S) /\ Len(Plain(n)) = n /\ \A i \in 1 .. n : Plain(n)[i] = Word
    BY <1>3, <2>3
  <2>5. /\ two \o Plain(n) \in Seq(S) /\ Len(two \o Plain(n)) = 2 + n
        /\ \A i \in 1 .. 2 + n : (two \o Plain(n))[i] = IF i <= 2 THEN two[i] ELSE Plain(n)[i - 2]
    <3> DEFINE t == Plain(n)
    <3>1. t \in Seq(S) /\ Len(t) = n
      BY <2>4
    <3> HIDE DEF t
    <3>2. /\ two \o t \in Seq(S) /\ Len(two \o t) = Len(two) + Len(t)
          /\ \A i \in 1 .. Len(two) + Len(t) : (two \o t)[i] = IF i <= Len(two) THEN two[i] ELSE t[i - Len(two)]
      BY <2>2, <3>1, ConcatProperties
    <3>3. Len(two) + Len(t) = 2 + n /\ Len(two) = 2
      BY <2>2, <3>1
    <3>4. /\ two \o t \in Seq(S) /\ Len(two \o t) = 2 + n
          /\ \A i \in 1 .. 2 + n : (two \o t)[i] = IF i <= 2 THEN two[i] ELSE t[i - 2]
      BY <3>2, <3>3
    <3> QED BY <3>4 DEF t
  <2>6. \A i \in 1 .. 2 + n : Body(c)[i] \in {Word, Sized(c)}
    <3> TAKE i \in 1 .. 2 + n
    <3>1. i = 1 \/ i = 2 \/ (i > 2 /\ i - 2 \in 1 .. n)
      BY <2>3
    <3>0. Body(c)[i] = IF i <= 2 THEN two[i] ELSE Plain(n)[i - 2]
      BY <2>1, <2>5
    <3>2. ASSUME i \in {1, 2} PROVE Body(c)[i] \in {Word, Sized(c)}
      BY <3>0, <3>2, <2>2
    <3>3. ASSUME i > 2, i - 2 \in 1 .. n PROVE Body(c)[i] = Word
      <4>1. ~(i <= 2) /\ Plain(n)[i - 2] = Word
        BY <3>3, <2>4
      <4> QED BY <3>0, <4>1
    <3> QED BY <3>1, <3>2, <3>3
  <2>7. Body(c)[2] = Sized(c)
    <3>1. 2 \in 1 .. 2 + n /\ 2 <= 2
      BY <2>3
    <3>2. Body(c)[2] = two[2]
      BY <2>1, <2>5, <3>1
    <3> QED BY <3>2, <2>2
  <2>8. Count(c) - 1 = 2 + n /\ Body(c) \in Seq(S) /\ Len(Body(c)) = 2 + n
    BY <2>1, <2>3, <2>5
  <2>9. \A i \in 1 .. 2 + n : Body(c)[i].op = "nop"
    BY <1>1, <2>6
  <2> HIDE DEF n
  <2> QED BY <1>8, <2>7, <2>8, <2>9
<1>9. CASE c.op = "line"
  <2> DEFINE a == FirstSegment(c.shaded) - 1
             b == IF c.shaded THEN 2 * Vertices ELSE Vertices
             both == Plain(a) \o Plain(b)
  <2>1. a \in Nat /\ b \in Nat /\ Count(c) = a + b + 2
    BY <1>0, <1>9, GpuConstants DEF FirstSegment, Count
  <2>2. Body(c) = both \o <<EndWord>>
    BY <1>9 DEF Body, Plain, EndWord
  <2> HIDE DEF a, b
  <2>3. /\ both \in Seq(S) /\ Len(both) = a + b
        /\ \A i \in 1 .. a + b : both[i] = Word
    <3>1. Plain(a) \in Seq(S) /\ Len(Plain(a)) = a /\ \A i \in 1 .. a : Plain(a)[i] = Word
      BY <1>3, <2>1
    <3>2. Plain(b) \in Seq(S) /\ Len(Plain(b)) = b /\ \A i \in 1 .. b : Plain(b)[i] = Word
      BY <1>3, <2>1
    <3>3. /\ both \in Seq(S) /\ Len(both) = a + b
          /\ \A i \in 1 .. a + b : both[i] = IF i <= a THEN Plain(a)[i] ELSE Plain(b)[i - a]
      BY <3>1, <3>2, ConcatProperties
    <3>4. \A i \in 1 .. a + b : i \in 1 .. a \/ (~(i <= a) /\ i - a \in 1 .. b)
      BY <2>1
    <3> QED BY <3>1, <3>2, <3>3, <3>4
  <2> DEFINE tail == <<EndWord>>
  <2>4. tail \in Seq(S) /\ Len(tail) = 1 /\ tail[1] = EndWord
    BY <1>2
  <2>7. Body(c) = both \o tail
    BY <2>2
  <2> HIDE DEF both, tail
  <2>5. /\ Body(c) \in Seq(S) /\ Len(Body(c)) = a + b + 1
        /\ \A i \in 1 .. a + b + 1 : Body(c)[i] = IF i <= a + b THEN both[i] ELSE tail[i - (a + b)]
    <3>1. /\ both \o tail \in Seq(S) /\ Len(both \o tail) = Len(both) + Len(tail)
          /\ \A i \in 1 .. Len(both) + Len(tail) : (both \o tail)[i] = IF i <= Len(both) THEN both[i] ELSE tail[i - Len(both)]
      BY <2>3, <2>4, ConcatProperties
    <3> QED BY <2>3, <2>4, <2>7, <3>1
  <2>6. \A i \in 1 .. a + b + 1 : Body(c)[i] = IF i <= a + b THEN Word ELSE EndWord
    BY <2>1, <2>3, <2>4, <2>5
  <2> QED BY <1>1, <1>9, <2>1, <2>5, <2>6
<1> QED BY <1>0, <1>4, <1>5, <1>6, <1>7, <1>8, <1>9 DEF GpuOps

WordOf(c, p) ==
  [x |-> IF p = 1 THEN Word0(c) ELSE Body(c)[p - 1], own |-> c, pos |-> p,
   fx |-> Effect(c, p, Count(c)), last |-> p = Count(c)]

LEMMA CommandIs ==
  ASSUME NEW c \in GpuCommands
  PROVE  CommandWords(c) = [p \in 1 .. Count(c) |-> WordOf(c, p)] /\ Count(c) \in Nat \ {0}
<1> DEFINE S == WordsFor(c)
           ws == <<Word0(c)>> \o Body(c)
<1>1. Count(c) \in Nat \ {0}
  BY PixelsRound, GpuConstants DEF Count, GpuOps
<1>2. Body(c) \in Seq(S) /\ Len(Body(c)) = Count(c) - 1 /\ Word0(c) \in S
  BY BodyIs DEF IsBody, WordsFor
<1> HIDE DEF S
<1>3. <<Word0(c)>> \in Seq(S) /\ Len(<<Word0(c)>>) = 1
  BY <1>2
<1>4. Len(ws) = Count(c) /\ \A p \in 1 .. Count(c) : ws[p] = IF p = 1 THEN Word0(c) ELSE Body(c)[p - 1]
  BY <1>1, <1>2, <1>3, ConcatProperties
<1>5. CommandWords(c) = [i \in 1 .. Len(ws) |-> [x |-> ws[i], own |-> c, pos |-> i, fx |-> Effect(c, i, Len(ws)),
                                                last |-> i = Len(ws)]]
  BY DEF CommandWords, Word0
<1> HIDE DEF ws
<1>6. \A p \in 1 .. Count(c) :
        [x |-> ws[p], own |-> c, pos |-> p, fx |-> Effect(c, p, Len(ws)), last |-> p = Len(ws)] = WordOf(c, p)
  BY <1>4 DEF WordOf
<1> QED BY <1>1, <1>4, <1>5, <1>6

(* Induction up a finite interval.                                         *)
LEMMA Upwards ==
  ASSUME NEW lo \in Nat, NEW hi \in Nat, NEW S, lo \in S,
         \A n \in lo .. hi - 1 : n \in S => n + 1 \in S
  PROVE  \A n \in lo .. hi : n \in S
<1> DEFINE R == {ss \in Nat \X Nat : ss[1] < ss[2]}
           T == {n \in lo .. hi : n \notin S}
<1>1. IsWellFoundedOn(R, Nat)
  BY NatLessThanWellFounded DEF OpToRel
<1>2. T \subseteq Nat
  OBVIOUS
<1>3. CASE T = {}
  BY <1>3
<1>4. CASE T # {}
  <2> HIDE DEF R, T
  <2>1. PICK m \in T : \A y \in T : ~(<<y, m>> \in R)
    BY <1>1, <1>2, <1>4, WFMin
  <2>2. m \in lo .. hi /\ m \notin S /\ m # lo
    BY <2>1 DEF T
  <2>3. m - 1 \in lo .. hi - 1 /\ m - 1 \in Nat /\ m \in Nat /\ m - 1 < m /\ (m - 1) + 1 = m
    BY <2>2
  <2>4. m - 1 \notin T
    <3>1. <<m - 1, m>> \in R
      BY <2>3 DEF R
    <3> QED BY <3>1, <2>1
  <2>5. m - 1 \in S
    BY <2>3, <2>4 DEF T
  <2> QED BY <2>2, <2>3, <2>5
<1> QED BY <1>3, <1>4

(* The words of whole commands but for the first, which may be under way.  *)
StreamWords == UNION {{WordOf(c, p) : p \in 1 .. Count(c)} : c \in GpuCommands}
Follows(v, w) == IF v.last THEN w.pos = 1 ELSE w.own = v.own /\ w.pos = v.pos + 1
Chain(s) ==
  /\ s \in Seq(StreamWords)
  /\ \A i \in 1 .. Len(s) - 1 : Follows(s[i], s[i + 1])
  /\ s # <<>> => s[Len(s)].last

LEMMA WordFields ==
  ASSUME NEW c, NEW p
  PROVE  /\ WordOf(c, p).own = c /\ WordOf(c, p).pos = p /\ (WordOf(c, p).last <=> p = Count(c))
         /\ WordOf(c, p).x = (IF p = 1 THEN Word0(c) ELSE Body(c)[p - 1]) /\ WordOf(c, p).fx = Effect(c, p, Count(c))
BY DEF WordOf

LEMMA WordIs ==
  ASSUME NEW v \in StreamWords
  PROVE  /\ v.own \in GpuCommands /\ v.pos \in 1 .. Count(v.own) /\ v = WordOf(v.own, v.pos)
         /\ v.last \in BOOLEAN /\ (v.last <=> v.pos = Count(v.own))
<1>1. PICK c \in GpuCommands : \E p \in 1 .. Count(c) : v = WordOf(c, p)
  BY DEF StreamWords
<1>2. PICK p \in 1 .. Count(c) : v = WordOf(c, p)
  BY <1>1
<1>3. v.own = c /\ v.pos = p /\ v.last = (p = Count(c))
  BY <1>2 DEF WordOf
<1> QED BY <1>2, <1>3

LEMMA WordOfIn ==
  ASSUME NEW c \in GpuCommands, NEW p \in 1 .. Count(c)
  PROVE  WordOf(c, p) \in StreamWords
BY DEF StreamWords

LEMMA ChainSuffix ==
  ASSUME NEW s, Chain(s), NEW k \in 0 .. Len(s)
  PROVE  /\ Chain(SubSeq(s, k + 1, Len(s))) /\ Len(SubSeq(s, k + 1, Len(s))) = Len(s) - k
         /\ \A i \in 1 .. Len(s) - k : SubSeq(s, k + 1, Len(s))[i] = s[i + k]
<1> DEFINE t == SubSeq(s, k + 1, Len(s))
<1>1. s \in Seq(StreamWords) /\ Len(s) \in Nat
  BY DEF Chain
<1>2. \A i \in k + 1 .. Len(s) : s[i] \in StreamWords
  BY <1>1
<1>3. t \in Seq(StreamWords) /\ Len(t) = Len(s) - k /\ \A i \in 1 .. Len(s) - k : t[i] = s[i + k]
  <2>1. /\ t \in Seq(StreamWords) /\ Len(t) = IF k + 1 <= Len(s) THEN Len(s) - (k + 1) + 1 ELSE 0
        /\ \A i \in 1 .. Len(s) - (k + 1) + 1 : t[i] = s[(k + 1) + i - 1]
    BY <1>1, <1>2, SubSeqProperties
  <2>2. \A i \in 1 .. Len(s) - k : (k + 1) + i - 1 = i + k
    BY <1>1
  <2> HIDE DEF t
  <2> QED BY <1>1, <2>1, <2>2
<1> HIDE DEF t
<1>4. \A i \in 1 .. Len(t) - 1 : Follows(t[i], t[i + 1])
  <2> TAKE i \in 1 .. Len(t) - 1
  <2>1. i + k \in 1 .. Len(s) - 1 /\ i \in 1 .. Len(s) - k /\ i + 1 \in 1 .. Len(s) - k /\ (i + 1) + k = (i + k) + 1
    BY <1>1, <1>3
  <2>2. Follows(s[i + k], s[(i + k) + 1])
    BY <2>1 DEF Chain
  <2> QED BY <1>3, <2>1, <2>2
<1>5. t # <<>> => t[Len(t)].last
  <2> SUFFICES ASSUME t # <<>> PROVE t[Len(t)].last
    OBVIOUS
  <2>1. Len(t) \in 1 .. Len(s) - k /\ Len(t) + k = Len(s) /\ s # <<>>
    BY <1>1, <1>3, EmptySeq
  <2> QED BY <1>3, <2>1 DEF Chain
<1> QED BY <1>3, <1>4, <1>5 DEF Chain, t

(* What is left of a command is all there.                                 *)
LEMMA ChainRun ==
  ASSUME NEW s, Chain(s), NEW i \in 1 .. Len(s)
  PROVE  \A k \in 0 .. Count(s[i].own) - s[i].pos :
           i + k <= Len(s) /\ s[i + k] = WordOf(s[i].own, s[i].pos + k)
<1> DEFINE c == s[i].own
           p == s[i].pos
           S == {k \in 0 .. Count(c) - p : i + k <= Len(s) /\ s[i + k] = WordOf(c, p + k)}
<1>1. s \in Seq(StreamWords) /\ Len(s) \in Nat /\ \A j \in 1 .. Len(s) : s[j] \in StreamWords
  BY DEF Chain
<1>2. c \in GpuCommands /\ Count(c) \in Nat \ {0} /\ p \in 1 .. Count(c) /\ s[i] = WordOf(c, p)
  BY <1>1, WordIs, CommandIs
<1> HIDE DEF c, p
<1>3. 0 \in S
  BY <1>1, <1>2
<1>4. ASSUME NEW k \in 0 .. (Count(c) - p) - 1, k \in S PROVE k + 1 \in S
  <2>1. k \in Nat /\ k < Count(c) - p /\ i + k <= Len(s) /\ s[i + k] = WordOf(c, p + k)
    BY <1>2, <1>4
  <2>2. ~s[i + k].last /\ s[i + k].own = c /\ s[i + k].pos = p + k
    <3>1. p + k # Count(c)
      BY <1>2, <2>1
    <3> QED BY <2>1, <3>1, WordFields
  <2>3. i + k # Len(s)
    BY <1>1, <2>1, <2>2, EmptySeq DEF Chain
  <2>4. i + k \in 1 .. Len(s) - 1 /\ i + (k + 1) = (i + k) + 1 /\ p + (k + 1) = (p + k) + 1
    BY <1>1, <1>2, <2>1, <2>3
  <2>5. Follows(s[i + k], s[(i + k) + 1])
    BY <2>4 DEF Chain
  <2>6. s[(i + k) + 1].own = c /\ s[(i + k) + 1].pos = (p + k) + 1
    BY <2>2, <2>5 DEF Follows
  <2>7. s[(i + k) + 1] = WordOf(c, (p + k) + 1)
    BY <1>1, <2>4, <2>6, WordIs
  <2> QED BY <1>1, <1>2, <2>1, <2>4, <2>7
<1> HIDE DEF S
<1>5. Count(c) - p \in Nat
  BY <1>2
<1>6. \A k \in 0 .. Count(c) - p : k \in S
  BY <1>3, <1>4, <1>5, Upwards
<1> QED BY <1>6 DEF S, c, p

LEMMA ChainCommand ==
  ASSUME NEW c \in GpuCommands
  PROVE  /\ Chain(CommandWords(c)) /\ Len(CommandWords(c)) = Count(c) /\ Count(c) \in Nat \ {0}
         /\ \A p \in 1 .. Count(c) : CommandWords(c)[p] = WordOf(c, p)
<1>1. CommandWords(c) = [p \in 1 .. Count(c) |-> WordOf(c, p)] /\ Count(c) \in Nat \ {0}
  BY CommandIs
<1>2. \A p \in 1 .. Count(c) : WordOf(c, p) \in StreamWords
  BY WordOfIn
<1> DEFINE s == CommandWords(c)
<1>3. s \in Seq(StreamWords) /\ Len(s) = Count(c) /\ \A p \in 1 .. Count(c) : s[p] = WordOf(c, p)
  BY <1>1, <1>2
<1> HIDE DEF s
<1>4. \A i \in 1 .. Len(s) - 1 : Follows(s[i], s[i + 1])
  <2> TAKE i \in 1 .. Len(s) - 1
  <2>1. s[i] = WordOf(c, i) /\ s[i + 1] = WordOf(c, i + 1) /\ i # Count(c)
    BY <1>1, <1>3
  <2> QED BY <2>1, WordFields DEF Follows
<1>5. s[Len(s)].last
  <2>1. s[Len(s)] = WordOf(c, Count(c))
    BY <1>1, <1>3
  <2> QED BY <2>1, WordFields
<1> QED BY <1>1, <1>3, <1>4, <1>5 DEF Chain, s

LEMMA ChainConcat ==
  ASSUME NEW s, NEW t, Chain(s), Chain(t), t = <<>> \/ t[1].pos = 1
  PROVE  Chain(s \o t)
<1> DEFINE u == s \o t
<1>1. s \in Seq(StreamWords) /\ t \in Seq(StreamWords) /\ Len(s) \in Nat /\ Len(t) \in Nat
  BY DEF Chain
<1>2. /\ u \in Seq(StreamWords) /\ Len(u) = Len(s) + Len(t)
      /\ \A i \in 1 .. Len(s) + Len(t) : u[i] = IF i <= Len(s) THEN s[i] ELSE t[i - Len(s)]
  BY <1>1, ConcatProperties
<1> HIDE DEF u
<1>3. \A i \in 1 .. Len(u) - 1 : Follows(u[i], u[i + 1])
  <2> TAKE i \in 1 .. Len(u) - 1
  <2>1. CASE i < Len(s)
    <3>1. u[i] = s[i] /\ u[i + 1] = s[i + 1] /\ i \in 1 .. Len(s) - 1
      BY <1>1, <1>2, <2>1
    <3> QED BY <3>1 DEF Chain
  <2>2. CASE i = Len(s)
    <3>1. i \in 1 .. Len(s) + Len(t) /\ i + 1 \in 1 .. Len(s) + Len(t) /\ (i + 1) - Len(s) = 1
      <4> DEFINE m == Len(s)
                 n == Len(t)
      <4>1. m \in Nat /\ n \in Nat /\ i \in 1 .. (m + n) - 1 /\ i = m
        BY <1>1, <1>2, <2>2
      <4> HIDE DEF m, n
      <4>2. i \in 1 .. m + n /\ i + 1 \in 1 .. m + n /\ (i + 1) - m = 1
        BY <4>1
      <4> QED BY <4>2 DEF m, n
    <3>2. u[i] = s[i] /\ u[i + 1] = t[1]
      <4>1. i <= Len(s) /\ ~(i + 1 <= Len(s))
        BY <1>1, <2>2
      <4>2. u[i] = s[i] /\ u[i + 1] = t[(i + 1) - Len(s)]
        BY <1>2, <3>1, <4>1
      <4> QED BY <3>1, <4>2
    <3>3. Len(s) # 0 /\ Len(t) # 0
      BY <1>1, <2>2, <3>1
    <3>4. s # <<>> /\ t # <<>>
      BY <3>3, EmptySeq
    <3> QED BY <3>2, <3>4, <2>2 DEF Chain, Follows
  <2>3. CASE i > Len(s)
    <3>1. /\ i \in 1 .. Len(s) + Len(t) /\ i + 1 \in 1 .. Len(s) + Len(t) /\ i - Len(s) \in 1 .. Len(t) - 1
          /\ ~(i <= Len(s)) /\ ~(i + 1 <= Len(s)) /\ (i + 1) - Len(s) = (i - Len(s)) + 1
      <4> DEFINE m == Len(s)
                 n == Len(t)
      <4>1. m \in Nat /\ n \in Nat /\ i \in 1 .. (m + n) - 1 /\ i > m
        BY <1>1, <1>2, <2>3
      <4> HIDE DEF m, n
      <4>2. /\ i \in 1 .. m + n /\ i + 1 \in 1 .. m + n /\ i - m \in 1 .. n - 1
            /\ ~(i <= m) /\ ~(i + 1 <= m) /\ (i + 1) - m = (i - m) + 1
        BY <4>1
      <4> QED BY <4>2 DEF m, n
    <3>2. u[i] = t[i - Len(s)]
      BY <1>2, <3>1
    <3>3. u[i + 1] = t[(i - Len(s)) + 1]
      BY <1>2, <3>1
    <3> QED BY <3>1, <3>2, <3>3 DEF Chain
  <2> QED BY <1>1, <2>1, <2>2, <2>3
<1>4. u # <<>> => u[Len(u)].last
  <2> SUFFICES ASSUME u # <<>> PROVE u[Len(u)].last
    OBVIOUS
  <2>1. CASE t = <<>>
    <3>1. Len(u) = Len(s) /\ s # <<>> /\ u[Len(u)] = s[Len(s)]
      BY <1>1, <1>2, <2>1, EmptySeq
    <3> QED BY <3>1 DEF Chain
  <2>2. CASE t # <<>>
    <3>1. u[Len(u)] = t[Len(t)]
      BY <1>1, <1>2, <2>2, EmptySeq
    <3> QED BY <2>2, <3>1 DEF Chain
  <2> QED BY <2>1, <2>2
<1> QED BY <1>2, <1>3, <1>4 DEF Chain, u

-----------------------------------------------------------------------------
(* FlattenSeq is what its steps say.                                       *)
Extends(F, ss, i) == F[i + 1] = F[i] \o ss[i + 1]
Flattens(F, ss) ==
  /\ FlattenSeq(ss) = F[Len(ss)] /\ F[1] = ss[1]
  /\ \A i \in 1 .. Len(ss) - 1 : Extends(F, ss, i)

LEMMA FlattenIs ==
  ASSUME NEW ss, Len(ss) \in Nat \ {0}
  PROVE  \E F : Flattens(F, ss)
<1> DEFINE n == Len(ss)
           Body1(f, i) == IF i = 1 THEN ss[i] ELSE f[i - 1] \o ss[i]
           S == {k \in 1 .. n : \E f : f = [i \in 1 .. k |-> Body1(f, i)]}
<1>1. n \in Nat \ {0}
  OBVIOUS
<1> HIDE DEF n
<1>2. 1 \in S
  <2> DEFINE g == [i \in 1 .. 1 |-> ss[1]]
  <2>1. \A i \in 1 .. 1 : g[i] = Body1(g, i)
    OBVIOUS
  <2>2. g = [i \in 1 .. 1 |-> Body1(g, i)]
    BY <2>1
  <2>3. \E f : f = [i \in 1 .. 1 |-> Body1(f, i)]
    BY <2>2
  <2> HIDE DEF Body1
  <2> QED BY <1>1, <2>3
<1>3. ASSUME NEW k \in 1 .. n - 1, k \in S PROVE k + 1 \in S
  <2>1. PICK f : f = [i \in 1 .. k |-> Body1(f, i)]
    BY <1>3
  <2> DEFINE g == [i \in 1 .. k + 1 |-> IF i = k + 1 THEN f[k] \o ss[k + 1] ELSE f[i]]
  <2>2. \A i \in 1 .. k + 1 : g[i] = Body1(g, i)
    <3> TAKE i \in 1 .. k + 1
    <3>1. CASE i = k + 1
      <4>1. i # 1 /\ i - 1 = k /\ k \in 1 .. k + 1 /\ k # k + 1
        BY <1>1, <3>1
      <4>2. g[i] = f[k] \o ss[k + 1] /\ g[k] = f[k]
        BY <3>1, <4>1
      <4> QED BY <3>1, <4>1, <4>2
    <3>2. CASE i # k + 1
      <4>1. i \in 1 .. k /\ (i # 1 => i - 1 \in 1 .. k + 1 /\ i - 1 # k + 1)
        BY <1>1, <3>2
      <4>2. g[i] = f[i] /\ (i # 1 => g[i - 1] = f[i - 1])
        BY <3>2, <4>1
      <4>3. f[i] = Body1(f, i)
        BY <2>1, <4>1
      <4> QED BY <4>2, <4>3
    <3> QED BY <3>1, <3>2
  <2>3. g = [i \in 1 .. k + 1 |-> Body1(g, i)]
    <3> HIDE DEF Body1
    <3> QED BY <2>2
  <2>4. \E h : h = [i \in 1 .. k + 1 |-> Body1(h, i)]
    BY <2>3
  <2>5. k + 1 \in 1 .. n
    BY <1>1
  <2> QED BY <2>4, <2>5
<1> HIDE DEF S
<1>4. \A k \in 1 .. n : k \in S
  BY <1>1, <1>2, <1>3, Upwards
<1>5. \E f : f = [i \in 1 .. n |-> Body1(f, i)]
  <2>1. n \in S
    BY <1>1, <1>4
  <2> QED BY <2>1 DEF S
<1> DEFINE flatten == CHOOSE f : f = [i \in 1 .. n |-> Body1(f, i)]
<1>6. FlattenSeq(ss) = flatten[n]
  BY <1>1 DEF FlattenSeq, n
<1> HIDE DEF Body1
<1>7. flatten = [i \in 1 .. n |-> Body1(flatten, i)]
  BY <1>5, Zenon
<1> HIDE DEF flatten
<1>8. \A i \in 1 .. n : flatten[i] = Body1(flatten, i)
  BY <1>7
<1>9. flatten[1] = ss[1]
  BY <1>1, <1>8 DEF Body1
<1>10. \A i \in 1 .. n - 1 : Extends(flatten, ss, i)
  <2> TAKE i \in 1 .. n - 1
  <2>1. i + 1 \in 1 .. n /\ i + 1 # 1 /\ (i + 1) - 1 = i
    BY <1>1
  <2>2. flatten[i + 1] = Body1(flatten, i + 1)
    BY <1>8, <2>1
  <2> QED BY <2>1, <2>2 DEF Extends, Body1
<1>11. Flattens(flatten, ss)
  BY <1>6, <1>9, <1>10 DEF Flattens, n
<1> QED BY <1>11

LEMMA FlattenOne ==
  ASSUME NEW ss, Len(ss) = 1
  PROVE  FlattenSeq(ss) = ss[1]
<1>1. PICK F : Flattens(F, ss)
  BY FlattenIs
<1> QED BY <1>1 DEF Flattens

LEMMA FlattenTwo ==
  ASSUME NEW ss, Len(ss) = 2
  PROVE  FlattenSeq(ss) = ss[1] \o ss[2]
<1>1. PICK F : Flattens(F, ss)
  BY FlattenIs
<1>2. FlattenSeq(ss) = F[2] /\ F[1] = ss[1] /\ Extends(F, ss, 1)
  BY <1>1 DEF Flattens
<1> QED BY <1>2 DEF Extends

(* Effects: only the last of some words has one.                           *)
LEMMA FlattenQuiet ==
  ASSUME NEW T, NEW ss, Len(ss) \in Nat \ {0}, \A i \in 1 .. Len(ss) - 1 : ss[i] = <<>>, ss[Len(ss)] \in Seq(T)
  PROVE  FlattenSeq(ss) = ss[Len(ss)]
<1>1. PICK F : Flattens(F, ss)
  BY FlattenIs
<1> DEFINE n == Len(ss)
           S == {i \in 1 .. n - 1 : F[i] = <<>>}
<1>2. n \in Nat \ {0}
  OBVIOUS
<1> HIDE DEF n
<1>3. CASE n = 1
  BY <1>1, <1>3 DEF Flattens, n
<1>4. CASE n # 1
  <2>1. 1 \in S
    <3>1. F[1] = ss[1] /\ 1 \in 1 .. n - 1
      BY <1>1, <1>2, <1>4 DEF Flattens
    <3>2. ss[1] = <<>>
      BY <3>1 DEF n
    <3> QED BY <3>1, <3>2
  <2>2. ASSUME NEW i \in 1 .. (n - 1) - 1, i \in S PROVE i + 1 \in S
    <3>1. i + 1 \in 1 .. n - 1
      BY <1>2
    <3>2. F[i + 1] = F[i] \o ss[i + 1]
      <4>1. i \in 1 .. n - 1
        BY <1>2
      <4>2. Extends(F, ss, i)
        BY <1>1, <4>1 DEF Flattens, n
      <4> QED BY <4>2 DEF Extends
    <3>3. F[i] = <<>> /\ ss[i + 1] = <<>>
      BY <2>2, <3>1 DEF n
    <3>4. <<>> \o <<>> = <<>>
      BY EmptySeq, ConcatEmptySeq
    <3> QED BY <3>1, <3>2, <3>3, <3>4
  <2>3. n - 1 \in Nat /\ n - 1 \in 1 .. n - 1
    BY <1>2, <1>4
  <2> HIDE DEF S
  <2>4. n - 1 \in S
    BY <2>1, <2>2, <2>3, Upwards
  <2>5. F[n] = F[n - 1] \o ss[n]
    <3>1. Extends(F, ss, n - 1)
      BY <1>1, <2>3 DEF Flattens, n
    <3>2. (n - 1) + 1 = n
      BY <1>2
    <3> QED BY <3>1, <3>2 DEF Extends
  <2>6. <<>> \o ss[n] = ss[n]
    BY ConcatEmptySeq DEF n
  <2> QED BY <1>1, <2>4, <2>5, <2>6 DEF Flattens, n, S
<1> QED BY <1>3, <1>4

(* Appending twice is appending the two joined. *)
Regroups(a, b, c) == (a \o b) \o c = a \o (b \o c)

LEMMA Regroup ==
  ASSUME NEW T, NEW a \in Seq(T), NEW b \in Seq(T), NEW c \in Seq(T)
  PROVE  Regroups(a, b, c)
BY ConcatAssociative DEF Regroups

(* The effects of a whole image.                                           *)
LEMMA FlattenImage ==
  ASSUME NEW m \in Nat, NEW ss, Len(ss) = 3 + m, ss[1] = <<>>, ss[2] = <<>>, ss[3] = <<"load">>,
         \A i \in 4 .. 3 + m : ss[i] = <<"pixel">>
  PROVE  FlattenSeq(ss) = <<"load">> \o [i \in 1 .. m |-> "pixel"]
<1>1. PICK F : Flattens(F, ss)
  BY FlattenIs
<1> DEFINE Pixels(k) == [i \in 1 .. k |-> "pixel"]
           T == {"load", "pixel"}
           S == {i \in 3 .. 3 + m : F[i] = <<"load">> \o Pixels(i - 3)}
<1>2. ASSUME NEW k \in Nat PROVE Pixels(k) \in Seq(T) /\ Len(Pixels(k)) = k /\ \A i \in 1 .. k : Pixels(k)[i] = "pixel"
  OBVIOUS
<1>3. <<"load">> \in Seq(T) /\ <<"pixel">> \in Seq(T) /\ <<"pixel">>[1] = "pixel" /\ Len(<<"pixel">>) = 1
  OBVIOUS
<1>4. ASSUME NEW k \in Nat PROVE Pixels(k) \o <<"pixel">> = Pixels(k + 1)
  <2> DEFINE u == Pixels(k) \o <<"pixel">>
             v == Pixels(k + 1)
             one == <<"pixel">>
             a == Pixels(k)
  <2>1. a \in Seq(T) /\ Len(a) = k /\ (\A i \in 1 .. k : a[i] = "pixel") /\ one \in Seq(T) /\ Len(one) = 1 /\ one[1] = "pixel"
    BY <1>2, <1>3
  <2>2. v \in Seq(T) /\ Len(v) = k + 1 /\ \A i \in 1 .. k + 1 : v[i] = "pixel"
    BY <1>2
  <2> HIDE DEF v, a, one, T
  <2>3. /\ a \o one \in Seq(T) /\ Len(a \o one) = Len(a) + Len(one)
        /\ \A i \in 1 .. Len(a) + Len(one) : (a \o one)[i] = IF i <= Len(a) THEN a[i] ELSE one[i - Len(a)]
    BY <2>1, ConcatProperties
  <2>4. \A i \in 1 .. k + 1 : (a \o one)[i] = "pixel"
    BY <2>1, <2>3
  <2>5. a \o one = v
    BY <2>1, <2>2, <2>3, <2>4, SeqEqual
  <2> QED BY <2>5 DEF a, one, v
<1> HIDE DEF Pixels, T
<1>5. 3 \in S
  <2>1. F[2] = F[1] \o ss[2] /\ F[3] = F[2] \o ss[3] /\ F[1] = <<>>
    <3>1. Extends(F, ss, 1) /\ Extends(F, ss, 2) /\ F[1] = ss[1]
      BY <1>1 DEF Flattens
    <3>2. F[1 + 1] = F[1] \o ss[1 + 1] /\ F[2 + 1] = F[2] \o ss[2 + 1]
      BY <3>1 DEF Extends
    <3>3. 1 + 1 = 2 /\ 2 + 1 = 3
      OBVIOUS
    <3>4. F[2] = F[1] \o ss[2] /\ F[3] = F[2] \o ss[3]
      BY <3>2, <3>3
    <3> QED BY <3>1, <3>4
  <2>2. <<>> \o <<>> = <<>> /\ <<>> \o <<"load">> = <<"load">>
    BY <1>3, EmptySeq, ConcatEmptySeq
  <2>3. Pixels(0) = <<>>
    BY <1>2, EmptySeq
  <2>4. <<"load">> \o <<>> = <<"load">>
    BY <1>3, ConcatEmptySeq
  <2>5. F[3] = <<"load">> \o Pixels(3 - 3) /\ 3 \in 3 .. 3 + m
    BY <2>1, <2>2, <2>3, <2>4
  <2> QED BY <2>5
<1>6. ASSUME NEW i \in 3 .. (3 + m) - 1, i \in S PROVE i + 1 \in S
  <2>1. i - 3 \in Nat /\ (i + 1) - 3 = (i - 3) + 1 /\ i \in 1 .. (3 + m) - 1 /\ i + 1 \in 4 .. 3 + m
    OBVIOUS
  <2>2. F[i + 1] = F[i] \o <<"pixel">>
    <3>1. Extends(F, ss, i)
      BY <1>1, <2>1 DEF Flattens
    <3>2. ss[i + 1] = <<"pixel">>
      BY <2>1
    <3> QED BY <3>1, <3>2 DEF Extends
  <2>3. F[i] = <<"load">> \o Pixels(i - 3)
    BY <1>6
  <2>4. (<<"load">> \o Pixels(i - 3)) \o <<"pixel">> = <<"load">> \o (Pixels(i - 3) \o <<"pixel">>)
    <3> DEFINE a == <<"load">>
               b == Pixels(i - 3)
               c == <<"pixel">>
    <3>1. a \in Seq(T) /\ b \in Seq(T) /\ c \in Seq(T)
      BY <1>2, <1>3, <2>1
    <3> HIDE DEF a, b, c
    <3>2. Regroups(a, b, c)
      BY <3>1, Regroup
    <3> QED BY <3>2 DEF a, b, c, Regroups
  <2>6. Pixels(i - 3) \o <<"pixel">> = Pixels((i + 1) - 3)
    BY <1>4, <2>1
  <2>5. F[i + 1] = <<"load">> \o Pixels((i + 1) - 3)
    BY <2>2, <2>3, <2>4, <2>6, Zenon
  <2> QED BY <2>1, <2>5
<1> HIDE DEF S
<1>7. 3 + m \in S
  <2>1. 3 \in Nat /\ 3 + m \in Nat /\ 3 + m \in 3 .. 3 + m
    OBVIOUS
  <2> DEFINE k == 3 + m
  <2>2. k \in Nat /\ k \in 3 .. k /\ \A i \in 3 .. k - 1 : i \in S => i + 1 \in S
    BY <1>6, <2>1
  <2> HIDE DEF k
  <2>3. \A i \in 3 .. k : i \in S
    BY <1>5, <2>1, <2>2, Upwards
  <2> QED BY <2>2, <2>3 DEF k
<1>8. (3 + m) - 3 = m
  OBVIOUS
<1> QED BY <1>1, <1>7, <1>8 DEF S, Flattens, Pixels

-----------------------------------------------------------------------------
(* The parser between two words of a command.                              *)
Events == {"irq", "poly", "fill", "copy", "store", "load", "line", "segment", "pixel"}
Xs == {w.x : w \in StreamWords}
Parsers ==
  [left : 0 .. 3, buf : Seq(Xs), xfer : Nat, poly : BOOLEAN, shaded : BOOLEAN, color : BOOLEAN, read : Nat,
   ready : BOOLEAN, irq : BOOLEAN, page : GpuPages, e1 : Seq(GpuPages), out : Seq(Events)]

(* The words it collects before it executes.                               *)
Prefix(c) ==
  CASE c.op \in {"env", "irq", "nop"} -> 1
    [] c.op \in {"poly", "fill", "load", "store"} -> 3
    [] c.op = "copy" -> 4
    [] c.op = "line" -> FirstSegment(c.shaded)

(* Where the parser stands before word p of c: between commands, with the  *)
(* first words gathered, inside an image, or inside a polyline, where a    *)
(* shaded one takes colours and vertices in turn.                          *)
AtRest(g) == g.left = 0 /\ g.xfer = 0 /\ ~g.poly
Collecting(g, c, p) ==
  /\ g.left = Prefix(c) - p + 1 /\ g.xfer = 0 /\ ~g.poly
  /\ Len(g.buf) = p - 1 /\ \A i \in 1 .. p - 1 : g.buf[i] = WordOf(c, i).x
Loading(g, c, p) == g.left = 0 /\ ~g.poly /\ g.xfer = Count(c) - p + 1
Polyline(g, c, p) ==
  /\ g.left = 0 /\ g.xfer = 0 /\ g.poly /\ g.shaded = c.shaded
  /\ g.color <=> c.shaded /\ (p - FirstSegment(c.shaded)) % 2 = 1

(* The next word is word p of c.                                           *)
InWord(g, c, p) ==
  IF p = 1 \/ p = Count(c) + 1 THEN AtRest(g)
  ELSE IF p <= Prefix(c) THEN Collecting(g, c, p)
  ELSE IF c.op = "load" THEN Loading(g, c, p)
  ELSE Polyline(g, c, p)

Answer(c, p, irq) == IF c.op = "irq" THEN IF irq THEN <<>> ELSE <<"irq">> ELSE Effect(c, p, Count(c))

(* What a word of c does to the parser.                                    *)
Stepped(g, h, c, p) ==
  /\ h \in Parsers /\ InWord(h, c, p + 1) /\ (h.ready <=> h.read > 0)
  /\ h.page = (IF p = Count(c) /\ c.op \in {"env", "poly"} THEN c.page ELSE g.page)
  /\ h.e1 = (IF c.op = "env" THEN <<c.page>> ELSE g.e1)
Fed(g, h, c, p) == Stepped(g, h, c, p) /\ h.out = Answer(c, p, g.irq)

LEMMA PrefixIs ==
  ASSUME NEW c \in GpuCommands
  PROVE  /\ Prefix(c) \in {1, 3, 4} /\ Prefix(c) <= Count(c) /\ Count(c) \in Nat \ {0}
         /\ (Prefix(c) = 1 <=> c.op \in {"env", "irq", "nop"})
         /\ (Prefix(c) # Count(c) <=> c.op \in {"load", "line"})
         /\ c.op = "load" => Count(c) = 3 + PixelWords(c) /\ PixelWords(c) \in Nat \ {0} /\ Prefix(c) = 3
         /\ c.op = "line" => Prefix(c) = FirstSegment(c.shaded) /\ Count(c) = (IF c.shaded THEN 9 ELSE 6)
         /\ c.op = "line" => FirstSegment(c.shaded) = (IF c.shaded THEN 4 ELSE 3) /\ c.shaded \in BOOLEAN
         /\ c.op \in GpuOps /\ c.op \notin {"load", "line"} => Count(c) = Prefix(c)
<1>1. c.op \in GpuOps /\ c.shaded \in BOOLEAN /\ PixelWords(c) \in Nat \ {0}
  BY PixelsRound, GpuConstants
<1>2. FirstSegment(c.shaded) = IF c.shaded THEN 4 ELSE 3
  BY DEF FirstSegment
<1>3. c.op \in {"env", "irq", "nop"} => Prefix(c) = 1 /\ Count(c) = 1
  BY DEF Prefix, Count
<1>4. c.op \in {"poly", "fill", "store"} => Prefix(c) = 3 /\ Count(c) = 3
  BY DEF Prefix, Count
<1>5. c.op = "copy" => Prefix(c) = 4 /\ Count(c) = 4
  BY DEF Prefix, Count
<1>6. c.op = "load" => Prefix(c) = 3 /\ Count(c) = 3 + PixelWords(c)
  BY DEF Prefix, Count
<1>7. c.op = "line" => Prefix(c) = FirstSegment(c.shaded) /\ Count(c) = IF c.shaded THEN 9 ELSE 6
  BY DEF Prefix, Count
<1> QED BY <1>1, <1>2, <1>3, <1>4, <1>5, <1>6, <1>7 DEF GpuOps

LEMMA XIs ==
  ASSUME NEW c \in GpuCommands, NEW p \in 1 .. Count(c)
  PROVE  /\ WordOf(c, p).x \in Xs
         /\ p = 1 => WordOf(c, p).x = Word0(c)
         /\ p # 1 => WordOf(c, p).x.op = "nop" /\ (c.op = "line" => (WordOf(c, p).x.end <=> p = Count(c)))
         /\ p = 2 /\ c.op = "poly" => WordOf(c, p).x.page = c.page
         /\ p = 3 /\ c.op \in {"load", "store"} => ImageWords(WordOf(c, p).x) = PixelWords(c)
<1>1. WordOf(c, p).x = (IF p = 1 THEN Word0(c) ELSE Body(c)[p - 1]) /\ WordOf(c, p).x \in Xs
  BY WordFields, WordOfIn DEF Xs
<1>2. IsBody(c, Body(c)) /\ Count(c) \in Nat
  BY BodyIs, CommandIs
<1>3. p # 1 => Body(c)[p - 1].op = "nop" /\ (c.op = "line" => (Body(c)[p - 1].end <=> p - 1 = Count(c) - 1))
  BY <1>2 DEF IsBody
<1>4. p = 2 /\ c.op = "poly" => Body(c)[p - 1].page = c.page
  BY <1>2 DEF IsBody, Paged, Word
<1>5. p = 3 /\ c.op \in {"load", "store"} => ImageWords(Body(c)[p - 1]) = PixelWords(c)
  <2>1. Sized(c).w = c.w /\ Sized(c).h = c.h
    BY DEF Sized, Word
  <2>2. ImageWords(Sized(c)) = ImageWords(c)
    BY <2>1 DEF ImageWords
  <2>3. ImageWords(c) = PixelWords(c)
    BY PixelsRound
  <2>4. p = 3 /\ c.op \in {"load", "store"} => Body(c)[p - 1] = Sized(c)
    BY <1>2 DEF IsBody
  <2> QED BY <2>2, <2>3, <2>4
<1> QED BY <1>1, <1>2, <1>3, <1>4, <1>5

FirstWord(g, c) == c.op = "env" /\ g.e1 = <<c.page>> => g.page = c.page

LEMMA FeedFirst ==
  ASSUME NEW g \in Parsers, NEW c \in GpuCommands, InWord(g, c, 1), g.out = <<>>, g.ready <=> g.read > 0,
         FirstWord(g, c)
  PROVE  Fed(g, GPU_WriteGP0(g, WordOf(c, 1).x), c, 1)
<1> DEFINE x == WordOf(c, 1).x
           h == GPU_WriteGP0(g, x)
<1>1. /\ c.op \in GpuOps /\ c.shaded \in BOOLEAN /\ c.page \in GpuPages /\ Count(c) \in Nat \ {0}
      /\ AtRest(g)
  BY GpuConstants, CommandIs DEF InWord
<1>2. x \in Xs /\ x.op = c.op /\ x.page = c.page /\ x.shaded = c.shaded
  <2>1. 1 \in 1 .. Count(c)
    BY <1>1
  <2>2. x \in Xs /\ x = Word0(c)
    BY <2>1, XIs
  <2>3. Word0(c).op = c.op /\ Word0(c).page = c.page /\ Word0(c).shaded = c.shaded
    BY DEF Word0, Word
  <2> HIDE DEF x
  <2> QED BY <2>2, <2>3
<1>3. h = GP0Command(g, x)
  BY <1>1 DEF GPU_WriteGP0, AtRest, Parsers
<1> HIDE DEF x, h
<1>4. ASSUME c.op \in {"env", "irq", "nop"} PROVE Fed(g, h, c, 1)
  <2>1. Count(c) = 1 /\ Effect(c, 1, Count(c)) = <<>>
    BY <1>4, PrefixIs DEF Effect
  <2>2. CASE c.op = "nop"
    <3>1. h = g
      BY <1>2, <1>3, <2>2 DEF GP0Command
    <3> QED BY <1>1, <2>1, <2>2, <3>1 DEF Fed, Stepped, InWord, Answer
  <2>3. CASE c.op = "env"
    <3>1. CASE g.e1 = <<c.page>>
      <4>1. h = g
        BY <1>2, <1>3, <2>3, <3>1 DEF GP0Command
      <4> QED BY <1>1, <2>1, <2>3, <3>1, <4>1 DEF Fed, Stepped, InWord, Answer, FirstWord
    <3>2. CASE g.e1 # <<c.page>>
      <4>1. h = [g EXCEPT !.e1 = <<c.page>>, !.page = c.page]
        BY <1>2, <1>3, <2>3, <3>2 DEF GP0Command
      <4>2. <<c.page>> \in Seq(GpuPages)
        BY <1>1
      <4>3. h \in Parsers /\ h.e1 = <<c.page>> /\ h.page = c.page /\ h.out = g.out /\ h.read = g.read /\ h.ready = g.ready
        BY <1>1, <4>1, <4>2 DEF Parsers
      <4>4. AtRest(h)
        BY <1>1, <4>1 DEF AtRest, Parsers
      <4> QED BY <1>1, <2>1, <2>3, <4>3, <4>4 DEF Fed, Stepped, InWord, Answer
    <3> QED BY <3>1, <3>2
  <2>4. CASE c.op = "irq"
    <3>1. CASE g.irq
      <4>1. h = g
        BY <1>2, <1>3, <2>4, <3>1 DEF GP0Command
      <4> QED BY <1>1, <2>1, <2>4, <3>1, <4>1 DEF Fed, Stepped, InWord, Answer
    <3>2. CASE ~g.irq
      <4>1. h = Emit([g EXCEPT !.irq = TRUE], <<"irq">>)
        BY <1>2, <1>3, <2>4, <3>2 DEF GP0Command
      <4>5. <<"irq">> \in Seq(Events)
        BY DEF Events
      <4>2. <<>> \o <<"irq">> = <<"irq">> /\ <<"irq">> \in Seq(Events)
        BY <4>5, ConcatEmptySeq
      <4>3. h \in Parsers /\ h.out = <<"irq">> /\ h.page = g.page /\ h.e1 = g.e1 /\ h.read = g.read /\ h.ready = g.ready
        BY <4>1, <4>2 DEF Parsers, Emit
      <4>4. AtRest(h)
        BY <1>1, <4>1 DEF AtRest, Parsers, Emit
      <4> QED BY <1>1, <2>1, <2>4, <3>2, <4>3, <4>4 DEF Fed, Stepped, InWord, Answer
    <3> QED BY <3>1, <3>2
  <2> QED BY <1>4, <2>2, <2>3, <2>4
<1>5. ASSUME c.op \notin {"env", "irq", "nop"} PROVE Fed(g, h, c, 1)
  <2>1. Prefix(c) \in {3, 4} /\ Prefix(c) <= Count(c) /\ Parameters(x) = Prefix(c) - 1
    <3>1. Prefix(c) \in {3, 4} /\ Prefix(c) <= Count(c)
      BY <1>5, PrefixIs
    <3>2. Parameters(x) = Prefix(c) - 1
      <4>1. CASE c.op \in {"load", "store"}
        BY <1>2, <4>1 DEF Parameters, Prefix
      <4>2. CASE c.op = "line"
        BY <1>2, <4>2 DEF Parameters, Prefix
      <4>3. CASE c.op \in {"poly", "fill", "copy"}
        <5>1. Parameters(x) = gpu_cmd_size(c.op) - 1
          BY <1>2, <4>3 DEF Parameters
        <5> QED BY <4>3, <5>1, GpuConstants DEF gpu_cmd_size, Prefix
      <4> QED BY <1>1, <1>5, <4>1, <4>2, <4>3 DEF GpuOps
    <3> QED BY <3>1, <3>2
  <2>2. h = [g EXCEPT !.buf = <<x>>, !.left = Prefix(c) - 1]
    BY <1>1, <1>2, <1>3, <1>5, <2>1 DEF GP0Command, GpuOps
  <2>3. <<x>> \in Seq(Xs) /\ Len(<<x>>) = 1 /\ <<x>>[1] = x
    BY <1>2
  <2>4. /\ h \in Parsers /\ h.out = <<>> /\ h.page = g.page /\ h.e1 = g.e1 /\ h.read = g.read /\ h.ready = g.ready
        /\ h.left = Prefix(c) - 1 /\ h.buf = <<x>> /\ h.poly = g.poly /\ h.xfer = g.xfer
    <3> DEFINE b == <<x>>
               n == Prefix(c) - 1
    <3>1. b \in Seq(Xs) /\ n \in 0 .. 3 /\ h = [g EXCEPT !.buf = b, !.left = n]
      BY <2>1, <2>2, <2>3
    <3> HIDE DEF b, n
    <3>2. /\ h \in Parsers /\ h.out = g.out /\ h.page = g.page /\ h.e1 = g.e1 /\ h.read = g.read /\ h.ready = g.ready
          /\ h.left = n /\ h.buf = b /\ h.poly = g.poly /\ h.xfer = g.xfer
      BY <3>1 DEF Parsers
    <3> QED BY <3>2 DEF b, n
  <2>5. Collecting(h, c, 2)
    BY <1>1, <2>1, <2>3, <2>4 DEF Collecting, AtRest, x
  <2>6. InWord(h, c, 1 + 1)
    BY <1>1, <2>1, <2>5 DEF InWord
  <2>7. Effect(c, 1, Count(c)) = <<>> /\ c.op # "irq"
    <3>1. c.op = "line" => FirstSegment(c.shaded) \in {3, 4}
      BY PrefixIs
    <3>2. Count(c) # 1
      BY <2>1
    <3> QED BY <1>1, <1>5, <3>1, <3>2 DEF Effect, GpuOps
  <2>8. ~(1 = Count(c) /\ c.op \in {"env", "poly"}) /\ c.op # "env"
    BY <1>5, <2>1
  <2> QED BY <2>4, <2>6, <2>7, <2>8 DEF Fed, Stepped, Answer
<1> QED BY <1>4, <1>5 DEF h, x

LEMMA FeedParameter ==
  ASSUME NEW g \in Parsers, NEW c \in GpuCommands, NEW p \in 2 .. Prefix(c), InWord(g, c, p), g.out = <<>>,
         g.ready <=> g.read > 0
  PROVE  Fed(g, GPU_WriteGP0(g, WordOf(c, p).x), c, p)
<1> DEFINE x == WordOf(c, p).x
           h == GPU_WriteGP0(g, x)
           n == [g EXCEPT !.left = @ - 1, !.buf = Append(@, x)]
<1>1. /\ p \in 1 .. Count(c) /\ p # 1 /\ p # Count(c) + 1 /\ 1 \in 1 .. Count(c)
      /\ Prefix(c) \in {3, 4} /\ Prefix(c) <= Count(c) /\ Count(c) \in Nat
      /\ c.op \in GpuOps /\ c.shaded \in BOOLEAN /\ c.page \in GpuPages
  BY PrefixIs, GpuConstants
<1>2. c.op \notin {"env", "irq", "nop"} /\ Collecting(g, c, p)
  BY <1>1, PrefixIs DEF InWord
<1>3. h = IF n.left = 0 THEN [Execute(n) EXCEPT !.buf = <<>>] ELSE n
  <2>1. g.xfer = 0 /\ ~g.poly /\ g.left > 0
    BY <1>1, <1>2 DEF Collecting
  <2>2. h = GP0Parameter(g, x)
    BY <2>1 DEF GPU_WriteGP0
  <2> HIDE DEF h, x
  <2> QED BY <2>2 DEF GP0Parameter
<1>4. x \in Xs
  BY <1>1, XIs
<1>5. /\ n \in Parsers /\ n.left = Prefix(c) - p /\ n.out = <<>> /\ n.page = g.page /\ n.e1 = g.e1
      /\ n.read = g.read /\ n.ready = g.ready /\ n.poly = FALSE /\ n.xfer = 0 /\ n.irq = g.irq
      /\ Len(n.buf) = p /\ \A i \in 1 .. p : n.buf[i] = WordOf(c, i).x
  <2> DEFINE b == Append(g.buf, x)
             m == g.left - 1
  <2>1. g.left = Prefix(c) - p + 1 /\ g.buf \in Seq(Xs) /\ Len(g.buf) = p - 1 /\ \A i \in 1 .. p - 1 : g.buf[i] = WordOf(c, i).x
    BY <1>2 DEF Collecting, Parsers
  <2>2. b \in Seq(Xs) /\ Len(b) = p /\ (\A i \in 1 .. p - 1 : b[i] = g.buf[i]) /\ b[p] = x
    <3> HIDE DEF x
    <3> QED BY <1>4, <2>1, AppendProperties
  <2>3. m \in 0 .. 3 /\ m = Prefix(c) - p
    BY <1>1, <2>1
  <2>4. n = [g EXCEPT !.left = m, !.buf = b]
    OBVIOUS
  <2>5. g.poly = FALSE /\ g.xfer = 0
    BY <1>2 DEF Collecting, Parsers
  <2> HIDE DEF n, m, b, x
  <2>6. /\ n \in Parsers /\ n.left = m /\ n.out = g.out /\ n.page = g.page /\ n.e1 = g.e1
        /\ n.read = g.read /\ n.ready = g.ready /\ n.poly = g.poly /\ n.xfer = g.xfer /\ n.buf = b /\ n.irq = g.irq
    BY <2>2, <2>3, <2>4 DEF Parsers
  <2>7. \A i \in 1 .. p : b[i] = WordOf(c, i).x
    <3> TAKE i \in 1 .. p
    <3>1. i \in 1 .. p - 1 \/ i = p
      BY <1>1
    <3> QED BY <2>1, <2>2, <3>1 DEF x
  <2> QED BY <2>2, <2>3, <2>5, <2>6, <2>7
<1> HIDE DEF x, h, n
<1>6. c.op # "irq" /\ c.op # "env"
  BY <1>2
<1>7. c.op = "line" => FirstSegment(c.shaded) = Prefix(c)
  BY PrefixIs
<1>8. ASSUME p # Prefix(c) PROVE Fed(g, h, c, p)
  <2>1. p < Prefix(c) /\ h = n
    BY <1>1, <1>3, <1>5, <1>8
  <2>2. InWord(h, c, p + 1)
    <3>1. h.left = Prefix(c) - (p + 1) + 1 /\ Len(h.buf) = (p + 1) - 1 /\ (p + 1) - 1 = p
      BY <1>1, <1>5, <2>1
    <3>2. Collecting(h, c, p + 1)
      BY <1>5, <2>1, <3>1 DEF Collecting
    <3>3. p + 1 # 1 /\ p + 1 # Count(c) + 1 /\ p + 1 <= Prefix(c)
      BY <1>1, <2>1
    <3> QED BY <3>2, <3>3 DEF InWord
  <2>3. Effect(c, p, Count(c)) = <<>>
    <3>1. p # Count(c) /\ (c.op = "load" => p < 3)
      BY <1>1, <2>1, PrefixIs
    <3>2. c.op = "line" => p - FirstSegment(c.shaded) < 0
      BY <1>1, <1>7, <2>1
    <3>3. CASE c.op = "line"
      <4>1. FirstSegment(c.shaded) \in Int /\ ~(p - FirstSegment(c.shaded) = 0) /\ ~(p - FirstSegment(c.shaded) > 0)
        BY <1>1, <1>7, <3>2, <3>3
      <4> QED BY <3>3, <4>1 DEF Effect
    <3>4. CASE c.op # "line"
      <4>1. ~(p = 3 /\ c.op = "load") /\ ~(p > 3 /\ c.op = "load")
        BY <1>1, <3>1
      <4> QED BY <1>1, <1>2, <3>1, <3>4, <4>1 DEF Effect, GpuOps
    <3> QED BY <3>3, <3>4
  <2>4. p # Count(c)
    BY <1>1, <2>1
  <2> QED BY <1>5, <1>6, <2>1, <2>2, <2>3, <2>4 DEF Fed, Stepped, Answer
<1>9. ASSUME p = Prefix(c) PROVE Fed(g, h, c, p)
  <2>1. h = [Execute(n) EXCEPT !.buf = <<>>] /\ n.left = 0
    BY <1>1, <1>3, <1>5, <1>9
  <2>2. n.buf[1].op = c.op /\ n.buf[1].shaded = c.shaded /\ (c.op = "poly" => n.buf[2].page = c.page)
    <3>1. n.buf[1] = WordOf(c, 1).x /\ n.buf[2] = WordOf(c, 2).x /\ 2 \in 1 .. Count(c)
      BY <1>1, <1>5
    <3>2. WordOf(c, 1).x = Word0(c) /\ (c.op = "poly" => WordOf(c, 2).x.page = c.page)
      BY <1>1, <3>1, XIs
    <3>3. Word0(c).op = c.op /\ Word0(c).shaded = c.shaded
      BY DEF Word0, Word
    <3> QED BY <3>1, <3>2, <3>3
  <2>3. <<>> \in Seq(Xs) /\ <<c.op>> \in Seq(Events) /\ <<>> \o <<c.op>> = <<c.op>>
    <3>1. <<c.op>> \in Seq(Events)
      BY <1>1, <1>2 DEF GpuOps, Events
    <3> QED BY <3>1, ConcatEmptySeq
  <2>4. CASE c.op = "load"
    <3>1. Count(c) = 3 + PixelWords(c) /\ PixelWords(c) \in Nat \ {0} /\ p = 3
      BY <1>9, <2>4, PrefixIs
    <3>2. ImageWords(n.buf[3]) = PixelWords(c)
      BY <1>1, <1>5, <2>4, <3>1, XIs
    <3>3. h = [n EXCEPT !.xfer = PixelWords(c), !.out = <<"load">>, !.buf = <<>>]
      BY <1>5, <2>1, <2>2, <2>3, <2>4, <3>2 DEF Execute, Emit, Parsers
    <3>4. /\ h \in Parsers /\ h.left = 0 /\ h.out = <<"load">> /\ h.page = g.page /\ h.e1 = g.e1
          /\ h.read = g.read /\ h.ready = g.ready /\ h.poly = FALSE /\ h.xfer = PixelWords(c)
      <4> DEFINE z == <<>>
                 o == <<"load">>
                 w == PixelWords(c)
      <4>1. z \in Seq(Xs) /\ o \in Seq(Events) /\ w \in Nat /\ h = [n EXCEPT !.xfer = w, !.out = o, !.buf = z]
        BY <2>3, <2>4, <3>1, <3>3
      <4> HIDE DEF z, o, w
      <4>2. /\ h \in Parsers /\ h.left = n.left /\ h.out = o /\ h.page = n.page /\ h.e1 = n.e1
            /\ h.read = n.read /\ h.ready = n.ready /\ h.poly = n.poly /\ h.xfer = w
        BY <1>5, <4>1 DEF Parsers
      <4> QED BY <1>5, <2>1, <4>2 DEF o, w
    <3>5. InWord(h, c, p + 1)
      <4>1. Loading(h, c, p + 1)
        BY <3>1, <3>4 DEF Loading
      <4>2. p + 1 # 1 /\ p + 1 # Count(c) + 1 /\ ~(p + 1 <= Prefix(c))
        BY <1>9, <3>1
      <4> QED BY <2>4, <4>1, <4>2 DEF InWord
    <3>6. Effect(c, p, Count(c)) = <<"load">>
      BY <2>4, <3>1 DEF Effect
    <3> QED BY <2>4, <3>4, <3>5, <3>6 DEF Fed, Stepped, Answer
  <2>5. CASE c.op = "store"
    <3>1. p = Count(c) /\ p = 3 /\ PixelWords(c) \in Nat \ {0}
      BY <1>9, <2>5, PrefixIs, PixelsRound, GpuConstants DEF Prefix
    <3>2. ImageWords(n.buf[3]) = PixelWords(c)
      <4>1. n.buf[3] = WordOf(c, 3).x /\ 3 \in 1 .. Count(c)
        BY <1>1, <1>5, <3>1
      <4> QED BY <2>5, <4>1, XIs
    <3>3. h = [n EXCEPT !.read = PixelWords(c), !.ready = TRUE, !.out = <<"store">>, !.buf = <<>>]
      BY <1>5, <2>1, <2>2, <2>3, <2>5, <3>2 DEF Execute, Emit, Parsers
    <3>4. /\ h \in Parsers /\ h.left = 0 /\ h.out = <<"store">> /\ h.page = g.page /\ h.e1 = g.e1
          /\ h.read = PixelWords(c) /\ h.ready = TRUE /\ h.poly = FALSE /\ h.xfer = 0
      <4> DEFINE z == <<>>
                 o == <<"store">>
                 w == PixelWords(c)
      <4>1. z \in Seq(Xs) /\ o \in Seq(Events) /\ w \in Nat /\ h = [n EXCEPT !.read = w, !.ready = TRUE, !.out = o, !.buf = z]
        BY <2>3, <2>5, <3>1, <3>3
      <4> HIDE DEF z, o, w
      <4>2. /\ h \in Parsers /\ h.left = n.left /\ h.out = o /\ h.page = n.page /\ h.e1 = n.e1
            /\ h.read = w /\ h.ready = TRUE /\ h.poly = n.poly /\ h.xfer = n.xfer
        BY <1>5, <4>1 DEF Parsers
      <4> QED BY <1>5, <2>1, <4>2 DEF o, w
    <3>5. Effect(c, p, Count(c)) = <<"store">>
      BY <2>5, <3>1 DEF Effect
    <3>6. InWord(h, c, p + 1) /\ h.read > 0
      BY <3>1, <3>4 DEF InWord, AtRest
    <3> QED BY <2>5, <3>1, <3>4, <3>5, <3>6 DEF Fed, Stepped, Answer
  <2>6. CASE c.op = "line"
    <3>1. Count(c) = (IF c.shaded THEN 9 ELSE 6) /\ p = FirstSegment(c.shaded) /\ p < Count(c) /\ p \in {3, 4}
      BY <1>1, <1>9, <2>6, PrefixIs
    <3>2. h = [n EXCEPT !.poly = TRUE, !.shaded = c.shaded, !.color = c.shaded, !.out = <<"line">>, !.buf = <<>>]
      BY <1>5, <2>1, <2>2, <2>3, <2>6 DEF Execute, Translate, Emit, Parsers
    <3>3. /\ h \in Parsers /\ h.left = 0 /\ h.out = <<"line">> /\ h.page = g.page /\ h.e1 = g.e1
          /\ h.read = g.read /\ h.ready = g.ready /\ h.poly = TRUE /\ h.xfer = 0 /\ h.shaded = c.shaded /\ h.color = c.shaded
      <4> DEFINE z == <<>>
                 o == <<"line">>
                 b == c.shaded
      <4>1. /\ z \in Seq(Xs) /\ o \in Seq(Events) /\ b \in BOOLEAN
            /\ h = [n EXCEPT !.poly = TRUE, !.shaded = b, !.color = b, !.out = o, !.buf = z]
        BY <1>1, <2>3, <2>6, <3>2
      <4> HIDE DEF z, o, b
      <4>2. /\ h \in Parsers /\ h.left = n.left /\ h.out = o /\ h.page = n.page /\ h.e1 = n.e1
            /\ h.read = n.read /\ h.ready = n.ready /\ h.poly = TRUE /\ h.xfer = n.xfer /\ h.shaded = b /\ h.color = b
        BY <1>5, <4>1 DEF Parsers
      <4> QED BY <1>5, <2>1, <4>2 DEF o, b
    <3>4. InWord(h, c, p + 1)
      <4>1. Polyline(h, c, p + 1)
        BY <3>1, <3>3 DEF Polyline
      <4>2. p + 1 # 1 /\ p + 1 # Count(c) + 1 /\ ~(p + 1 <= Prefix(c)) /\ c.op # "load"
        BY <1>1, <1>9, <2>6, <3>1
      <4> QED BY <4>1, <4>2 DEF InWord
    <3>5. Effect(c, p, Count(c)) = <<"line">>
      BY <2>6, <3>1 DEF Effect
    <3> QED BY <2>6, <3>3, <3>4, <3>5 DEF Fed, Stepped, Answer
  <2>7. CASE c.op \in {"poly", "fill", "copy"}
    <3>1. p = Count(c)
      BY <1>9, <2>7, <1>1, PrefixIs
    <3> DEFINE q == IF c.op = "poly" THEN c.page ELSE n.page
    <3>2. q \in GpuPages /\ h = [n EXCEPT !.page = q, !.out = <<c.op>>, !.buf = <<>>]
      <4>1. q \in GpuPages
        BY <1>1, <1>5 DEF Parsers
      <4>2. (IF n.buf[1].op = "poly" THEN n.buf[2].page ELSE n.page) = q
        BY <2>2
      <4>3. Execute(n) = Translate(n, n.buf)
        BY <2>2, <2>7 DEF Execute
      <4>4. Translate(n, n.buf) = [[n EXCEPT !.page = q] EXCEPT !.out = @ \o <<c.op>>]
        <5> HIDE DEF q
        <5> QED BY <2>2, <4>2 DEF Translate, Emit
      <4>5. n.out \o <<c.op>> = <<c.op>>
        BY <1>5, <2>3
      <4> DEFINE o == <<c.op>>
      <4> HIDE DEF q, o
      <4>6. Execute(n) = [n EXCEPT !.page = q, !.out = o]
        BY <1>5, <4>3, <4>4, <4>5 DEF Parsers, o
      <4> QED BY <1>5, <2>1, <4>1, <4>6 DEF Parsers, o
    <3> HIDE DEF q
    <3>3. /\ h \in Parsers /\ h.left = 0 /\ h.out = <<c.op>> /\ h.page = q /\ h.e1 = g.e1
          /\ h.read = g.read /\ h.ready = g.ready /\ h.poly = FALSE /\ h.xfer = 0
      BY <1>5, <2>1, <2>3, <3>2 DEF Parsers
    <3>4. Effect(c, p, Count(c)) = <<c.op>>
      BY <2>7, <3>1 DEF Effect
    <3>5. InWord(h, c, p + 1)
      BY <3>1, <3>3 DEF InWord, AtRest
    <3> QED BY <1>5, <1>6, <3>1, <3>3, <3>4, <3>5 DEF Fed, Stepped, Answer, q
  <2> QED BY <1>1, <1>2, <2>4, <2>5, <2>6, <2>7 DEF GpuOps
<1> QED BY <1>8, <1>9 DEF h, x

LEMMA FeedLate ==
  ASSUME NEW g \in Parsers, NEW c \in GpuCommands, NEW p \in 1 .. Count(c), p > Prefix(c), InWord(g, c, p), g.out = <<>>,
         g.ready <=> g.read > 0
  PROVE  Fed(g, GPU_WriteGP0(g, WordOf(c, p).x), c, p)
<1> DEFINE x == WordOf(c, p).x
           h == GPU_WriteGP0(g, x)
<1>1. /\ p # 1 /\ p # Count(c) + 1 /\ ~(p <= Prefix(c)) /\ p \in Nat /\ Count(c) \in Nat /\ c.op \in {"load", "line"}
      /\ p + 1 # 1 /\ ~(p + 1 <= Prefix(c))
  BY PrefixIs
<1>2. x \in Xs /\ (c.op = "line" => (x.end <=> p = Count(c)))
  BY <1>1, XIs
<1>3. <<"pixel">> \in Seq(Events) /\ <<"segment">> \in Seq(Events)
  BY DEF Events
<1>4. <<>> \o <<"pixel">> = <<"pixel">> /\ <<>> \o <<"segment">> = <<"segment">>
  BY <1>3, ConcatEmptySeq
<1>5. ASSUME c.op = "load" PROVE Fed(g, h, c, p)
  <2>1. Loading(g, c, p) /\ Prefix(c) = 3
    BY <1>1, <1>5, PrefixIs DEF InWord
  <2> DEFINE w == Count(c) - (p + 1) + 1
             o == <<"pixel">>
  <2>2. w \in Nat /\ g.xfer = w + 1 /\ (w = 0 <=> p = Count(c))
    BY <1>1, <2>1 DEF Loading
  <2>3. h = GP0Pixel(g)
    BY <2>2 DEF GPU_WriteGP0
  <2> HIDE DEF h
  <2>4. h = [g EXCEPT !.xfer = w, !.out = o]
    <3>1. h = [[g EXCEPT !.xfer = @ - 1] EXCEPT !.out = @ \o o]
      BY <2>3 DEF GP0Pixel, Emit
    <3>2. g.xfer - 1 = w /\ g.out \o o = o
      BY <1>4, <2>2
    <3> HIDE DEF w, o
    <3> QED BY <3>1, <3>2 DEF Parsers
  <2>5. o \in Seq(Events)
    BY <1>3
  <2> HIDE DEF w, o
  <2>6. /\ h \in Parsers /\ h.left = g.left /\ h.out = o /\ h.page = g.page /\ h.e1 = g.e1
        /\ h.read = g.read /\ h.ready = g.ready /\ h.poly = g.poly /\ h.xfer = w
    BY <2>2, <2>4, <2>5 DEF Parsers
  <2>7. InWord(h, c, p + 1)
    <3>1. CASE p = Count(c)
      <4>1. AtRest(h)
        BY <2>1, <2>2, <2>6, <3>1 DEF AtRest, Loading
      <4> QED BY <3>1, <4>1 DEF InWord
    <3>2. CASE p # Count(c)
      <4>1. Loading(h, c, p + 1)
        BY <2>1, <2>6 DEF Loading, w
      <4>2. p + 1 # Count(c) + 1
        BY <1>1, <3>2
      <4> QED BY <1>1, <1>5, <4>1, <4>2 DEF InWord
    <3> QED BY <3>1, <3>2
  <2>8. Effect(c, p, Count(c)) = o
    BY <1>1, <1>5, <2>1 DEF Effect, o
  <2> QED BY <1>5, <2>6, <2>7, <2>8 DEF Fed, Stepped, Answer
<1>6. ASSUME c.op = "line" PROVE Fed(g, h, c, p)
  <2> DEFINE fs == FirstSegment(c.shaded)
             odd == (p - fs) % 2 = 1
             then == ((p + 1) - fs) % 2 = 1
  <2>1. Polyline(g, c, p) /\ fs \in {3, 4} /\ p > fs /\ c.shaded \in BOOLEAN
    BY <1>1, <1>6, PrefixIs DEF InWord
  <2>2. g.xfer = 0 /\ g.poly /\ g.left = 0 /\ g.shaded = c.shaded /\ (g.color <=> c.shaded /\ odd)
    BY <2>1 DEF Polyline
  <2>3. h = GP0Polyline(g, x)
    BY <2>2 DEF GPU_WriteGP0
  <2>4. Effect(c, p, Count(c)) = IF p < Count(c) /\ (c.shaded => ~odd) THEN <<"segment">> ELSE <<>>
    <3>1. ~(p - fs = 0) /\ p - fs > 0 /\ ((p - fs) % 2 = 0 <=> ~odd)
      BY <1>1, <2>1
    <3> QED BY <1>6, <3>1 DEF Effect
  <2>5. odd \in BOOLEAN /\ then \in BOOLEAN /\ (then <=> ~odd) /\ g.color \in BOOLEAN
    <3> DEFINE n == p - fs
    <3>1. n \in Nat /\ (p + 1) - fs = n + 1
      <4> HIDE DEF fs
      <4> QED BY <1>1, <2>1
    <3> HIDE DEF n
    <3>2. (n + 1) % 2 = 1 <=> ~(n % 2 = 1)
      BY <3>1
    <3>3. g.color \in BOOLEAN
      BY DEF Parsers
    <3>4. (odd <=> n % 2 = 1) /\ (then <=> (n + 1) % 2 = 1)
      <4> HIDE DEF fs
      <4> QED BY <3>1 DEF n
    <3> QED BY <3>2, <3>3, <3>4, Zenon
  <2>8. ASSUME h.left = 0, h.xfer = 0, h.poly, h.shaded = c.shaded, h.color <=> c.shaded /\ then
        PROVE  Polyline(h, c, p + 1)
    BY <2>8 DEF Polyline
  <2> HIDE DEF h, x, odd, then
  <2>6. CASE p = Count(c)
    <3>1. h = [g EXCEPT !.poly = FALSE]
      BY <1>2, <1>6, <2>3, <2>6 DEF GP0Polyline
    <3>2. /\ h \in Parsers /\ h.left = g.left /\ h.out = g.out /\ h.page = g.page /\ h.e1 = g.e1
          /\ h.read = g.read /\ h.ready = g.ready /\ h.poly = FALSE /\ h.xfer = g.xfer
      BY <3>1 DEF Parsers
    <3>3. InWord(h, c, p + 1)
      BY <2>2, <2>6, <3>2 DEF InWord, AtRest
    <3>4. Effect(c, p, Count(c)) = <<>>
      BY <1>1, <2>4, <2>6
    <3> QED BY <1>6, <3>2, <3>3, <3>4 DEF Fed, Stepped, Answer
  <2>7. CASE p # Count(c)
    <3>1. p < Count(c) /\ ~x.end /\ p + 1 # Count(c) + 1
      BY <1>1, <1>2, <1>6, <2>7
    <3>2. CASE c.shaded /\ odd
      <4>1. h = [g EXCEPT !.color = FALSE]
        BY <2>2, <2>3, <3>1, <3>2 DEF GP0Polyline
      <4>2. /\ h \in Parsers /\ h.left = g.left /\ h.out = g.out /\ h.page = g.page /\ h.e1 = g.e1
            /\ h.read = g.read /\ h.ready = g.ready /\ h.poly = g.poly /\ h.xfer = g.xfer
            /\ h.color = FALSE /\ h.shaded = g.shaded
        BY <4>1 DEF Parsers
      <4>3. Polyline(h, c, p + 1)
        BY <2>1, <2>2, <2>5, <2>8, <3>2, <4>2
      <4>4. InWord(h, c, p + 1)
        BY <1>1, <1>6, <3>1, <4>3 DEF InWord
      <4>5. Effect(c, p, Count(c)) = <<>>
        BY <2>4, <3>2
      <4> QED BY <1>6, <3>1, <4>2, <4>4, <4>5 DEF Fed, Stepped, Answer
    <3>3. CASE ~(c.shaded /\ odd)
      <4> DEFINE o == <<"segment">>
                 b == c.shaded
      <4>1. h = [g EXCEPT !.color = b, !.out = o]
        BY <1>4, <2>2, <2>3, <3>1, <3>3 DEF GP0Polyline, Emit, Parsers
      <4>2. o \in Seq(Events) /\ b \in BOOLEAN
        BY <1>3, <2>1
      <4> HIDE DEF o, b
      <4>3. /\ h \in Parsers /\ h.left = g.left /\ h.out = o /\ h.page = g.page /\ h.e1 = g.e1
            /\ h.read = g.read /\ h.ready = g.ready /\ h.poly = g.poly /\ h.xfer = g.xfer
            /\ h.color = b /\ h.shaded = g.shaded
        BY <4>1, <4>2 DEF Parsers
      <4>4. Polyline(h, c, p + 1)
        BY <2>1, <2>2, <2>5, <2>8, <3>3, <4>3 DEF b
      <4>5. InWord(h, c, p + 1)
        BY <1>1, <1>6, <3>1, <4>4 DEF InWord
      <4>6. Effect(c, p, Count(c)) = o
        BY <2>4, <2>5, <3>1, <3>3 DEF o
      <4> QED BY <1>6, <3>1, <4>3, <4>5, <4>6 DEF Fed, Stepped, Answer
    <3> QED BY <3>2, <3>3
  <2> QED BY <2>6, <2>7
<1> QED BY <1>1, <1>5, <1>6 DEF h, x

LEMMA FeedWord ==
  ASSUME NEW g \in Parsers, NEW c \in GpuCommands, NEW p \in 1 .. Count(c), InWord(g, c, p), g.out = <<>>,
         g.ready <=> g.read > 0, FirstWord(g, c)
  PROVE  Fed(g, GPU_WriteGP0(g, WordOf(c, p).x), c, p)
<1>1. Prefix(c) \in Nat /\ Prefix(c) <= Count(c) /\ Count(c) \in Nat
  BY PrefixIs
<1>2. p = 1 \/ p \in 2 .. Prefix(c) \/ p > Prefix(c)
  BY <1>1
<1> QED BY <1>2, FeedFirst, FeedParameter, FeedLate

-----------------------------------------------------------------------------
(* The parser and the words it is still to be given: at most one command   *)
(* begins behind the first word, and a repeated E1 finds its page in force.*)
AtMostTwo(s) == \A i, j \in 2 .. Len(s) : s[i].pos = 1 /\ s[j].pos = 1 => i = j
At(g, s) == IF s = <<>> THEN AtRest(g) ELSE InWord(g, s[1].own, s[1].pos)
PageFor(g, s, i) == IF i # 1 /\ s[1].own.op = "poly" THEN s[1].own.page ELSE g.page
EnvOK(g, s) ==
  \A i \in 1 .. Len(s) :
    s[i].own.op = "env" /\ g.e1 = <<s[i].own.page>> /\ (i # 1 => s[1].own.op # "env")
      => PageFor(g, s, i) = s[i].own.page
Pending(g, s) ==
  /\ g \in Parsers /\ (g.ready <=> g.read > 0)
  /\ Chain(s) /\ AtMostTwo(s) /\ At(g, s) /\ EnvOK(g, s)

(* Words taken together: one, or a whole command.                          *)
Turn(s, k) == k \in 1 .. Len(s) /\ (k = 1 \/ (s[1].pos = 1 /\ k = Count(s[1].own)))

LEMMA TurnIs ==
  ASSUME NEW s, Chain(s), NEW k, Turn(s, k)
  PROVE  /\ s[1].own \in GpuCommands /\ s[k].pos \in 1 .. Count(s[1].own) /\ Count(s[1].own) \in Nat
         /\ k \in Nat \ {0} /\ Len(s) \in Nat /\ s[k] \in StreamWords
         /\ s[k] = WordOf(s[1].own, s[k].pos)
         /\ k # 1 => s[k].pos = Count(s[1].own)
         /\ \A i \in 1 .. k : s[i] = WordOf(s[1].own, s[1].pos + i - 1)
         /\ \A i \in 1 .. k : s[i].own = s[1].own /\ (s[i].last => i = k)
<1> DEFINE c == s[1].own
           p == s[1].pos
<1>1. k \in 1 .. Len(s) /\ Len(s) \in Nat /\ 1 \in 1 .. Len(s) /\ (k = 1 \/ (p = 1 /\ k = Count(c)))
  BY DEF Chain, Turn
<1>2. s \in Seq(StreamWords) /\ s[1] \in StreamWords /\ s[k] \in StreamWords
  BY <1>1 DEF Chain
<1>3. c \in GpuCommands /\ p \in 1 .. Count(c) /\ Count(c) \in Nat \ {0}
  BY <1>2, WordIs, CommandIs
<1>4. \A j \in 0 .. Count(c) - p : 1 + j <= Len(s) /\ s[1 + j] = WordOf(c, p + j)
  BY <1>1, ChainRun
<1> HIDE DEF c, p
<1>5. \A i \in 1 .. k : s[i] = WordOf(c, p + i - 1) /\ p + i - 1 \in 1 .. Count(c)
  <2> TAKE i \in 1 .. k
  <2>1. i - 1 \in 0 .. Count(c) - p /\ 1 + (i - 1) = i /\ p + (i - 1) = p + i - 1
    BY <1>1, <1>3
  <2> QED BY <1>3, <1>4, <2>1
<1>6. \A i \in 1 .. k : s[i].own = c /\ s[i].pos = p + i - 1 /\ (s[i].last <=> p + i - 1 = Count(c))
  BY <1>5, WordFields
<1>7. k \in 1 .. k /\ k # 1 => s[k].pos = Count(c)
  BY <1>1, <1>3, <1>6
<1>8. \A i \in 1 .. k : s[i].last => i = k
  <2> TAKE i \in 1 .. k
  <2> QED BY <1>1, <1>3, <1>6
<1>9. k \in 1 .. k
  BY <1>1
<1>10. s[k].pos \in 1 .. Count(c) /\ s[k] = WordOf(c, s[k].pos)
  BY <1>5, <1>6, <1>9
<1>11. (\A i \in 1 .. k : s[i] = WordOf(c, p + i - 1)) /\ \A i \in 1 .. k : s[i].own = c /\ (s[i].last => i = k)
  BY <1>5, <1>6, <1>8
<1>12. k \in Nat \ {0} /\ (k # 1 => s[k].pos = Count(c))
  BY <1>1, <1>7, <1>9
<1>13. c \in GpuCommands /\ Count(c) \in Nat /\ Len(s) \in Nat /\ s[k] \in StreamWords
  BY <1>1, <1>2, <1>3
<1> QED BY <1>10, <1>11, <1>12, <1>13 DEF c, p

LEMMA TakeTurn ==
  ASSUME NEW s, NEW g, Pending(g, s), NEW k, Turn(s, k), NEW h, Stepped(g, h, s[1].own, s[k].pos)
  PROVE  Pending(h, SubSeq(s, k + 1, Len(s)))
<1> DEFINE c == s[1].own
           q == s[k].pos
           t == SubSeq(s, k + 1, Len(s))
<1>1. Chain(s) /\ k \in 1 .. Len(s) /\ Len(s) \in Nat /\ s \in Seq(StreamWords)
  BY DEF Pending, Turn, Chain
<1>2. /\ c \in GpuCommands /\ q \in 1 .. Count(c) /\ Count(c) \in Nat /\ k \in Nat \ {0}
      /\ s[k] = WordOf(c, q) /\ (k # 1 => q = Count(c))
  BY <1>1, TurnIs
<1>3. s[k].own = c /\ (s[k].last <=> q = Count(c))
  BY <1>2, WordFields
<1>4. Chain(t) /\ Len(t) = Len(s) - k /\ \A i \in 1 .. Len(s) - k : t[i] = s[i + k]
  <2>1. k \in 0 .. Len(s)
    BY <1>1
  <2> QED BY <1>1, <2>1, ChainSuffix
<1>5. /\ h \in Parsers /\ InWord(h, c, q + 1) /\ (h.ready <=> h.read > 0)
      /\ h.page = (IF q = Count(c) /\ c.op \in {"env", "poly"} THEN c.page ELSE g.page)
      /\ h.e1 = (IF c.op = "env" THEN <<c.page>> ELSE g.e1)
  BY DEF Stepped
<1> HIDE DEF t, c, q
<1>6. AtMostTwo(t)
  <2> SUFFICES ASSUME NEW i \in 2 .. Len(t), NEW j \in 2 .. Len(t), t[i].pos = 1, t[j].pos = 1 PROVE i = j
    BY DEF AtMostTwo
  <2>1. i + k \in 2 .. Len(s) /\ j + k \in 2 .. Len(s) /\ t[i] = s[i + k] /\ t[j] = s[j + k]
    <3>1. i \in 1 .. Len(s) - k /\ j \in 1 .. Len(s) - k /\ i + k \in 2 .. Len(s) /\ j + k \in 2 .. Len(s)
      BY <1>1, <1>4
    <3> QED BY <1>4, <3>1
  <2>2. i + k = j + k
    BY <2>1 DEF Pending, AtMostTwo
  <2> QED BY <1>2, <2>2
<1>7. ASSUME t # <<>>
      PROVE  /\ k \in 1 .. Len(s) - 1 /\ t[1] = s[k + 1] /\ t[1] \in StreamWords /\ 1 \in 1 .. Len(s) - k
             /\ IF q = Count(c) THEN t[1].pos = 1 ELSE t[1].own = c /\ t[1].pos = q + 1
  <2>1. Len(t) \in Nat \ {0}
    BY <1>4, <1>7, EmptySeq DEF Chain
  <2>2. k \in 1 .. Len(s) - 1 /\ 1 \in 1 .. Len(s) - k /\ 1 + k = k + 1 /\ k + 1 \in 1 .. Len(s)
    BY <1>1, <1>4, <2>1
  <2>3. t[1] = s[k + 1] /\ s[k + 1] \in StreamWords
    BY <1>1, <1>4, <2>2
  <2>4. Follows(s[k], s[k + 1])
    BY <1>1, <2>2 DEF Chain
  <2> QED BY <1>3, <2>2, <2>3, <2>4 DEF Follows, q
<1>8. At(h, t)
  <2>1. CASE q = Count(c)
    <3>1. AtRest(h)
      BY <1>2, <1>5, <2>1 DEF InWord
    <3>2. CASE t = <<>>
      BY <3>1, <3>2 DEF At
    <3>3. CASE t # <<>>
      BY <1>7, <2>1, <3>1, <3>3 DEF At, InWord
    <3> QED BY <3>2, <3>3
  <2>2. CASE q # Count(c)
    <3>1. t # <<>>
      <4>1. k = 1 /\ ~s[k].last
        BY <1>2, <1>3, <2>2
      <4>2. k # Len(s)
        BY <1>1, <4>1, EmptySeq DEF Chain
      <4>3. Len(t) # 0
        BY <1>1, <1>4, <4>2
      <4> QED BY <4>3, EmptySeq
    <3> QED BY <1>5, <1>7, <2>2, <3>1 DEF At
  <2> QED BY <2>1, <2>2
<1>9. EnvOK(h, t)
  <2> SUFFICES ASSUME NEW i \in 1 .. Len(t), t[i].own.op = "env", h.e1 = <<t[i].own.page>>, i # 1 => t[1].own.op # "env"
               PROVE  PageFor(h, t, i) = t[i].own.page
    BY DEF EnvOK
  <2> DEFINE d == t[i].own
  <2>1. /\ i + k \in 1 .. Len(s) /\ i + k \in 2 .. Len(s) /\ i + k # 1 /\ t[i] = s[i + k] /\ 1 + k \in 2 .. Len(s)
        /\ t # <<>> /\ i \in Nat
    BY <1>1, <1>2, <1>4, EmptySeq
  <2>2. c.op # "env" /\ g.e1 = <<d.page>> => (IF c.op = "poly" THEN c.page ELSE g.page) = d.page
    BY <2>1 DEF Pending, EnvOK, PageFor, c
  <2>3. d.op = "env" /\ h.e1 = <<d.page>>
    OBVIOUS
  <2>4. t[i].pos = 1
    <3>1. t[i] \in StreamWords
      BY <1>1, <2>1
    <3>2. t[i].pos \in 1 .. Count(d) /\ d \in GpuCommands
      BY <3>1, WordIs
    <3>3. Count(d) = 1
      BY <2>3, <3>2, PrefixIs
    <3> QED BY <3>2, <3>3
  <2>5. PageFor(h, t, i) = IF i # 1 /\ t[1].own.op = "poly" THEN t[1].own.page ELSE h.page
    BY DEF PageFor
  <2> HIDE DEF d
  <2>6. CASE q = Count(c)
    <3>1. t[1].pos = 1 /\ t[1] = s[k + 1]
      BY <1>7, <2>1, <2>6
    <3>2. i + k = 1 + k
      <4>1. s[i + k].pos = 1 /\ s[1 + k].pos = 1
        BY <1>2, <2>1, <2>4, <3>1
      <4> QED BY <2>1, <4>1 DEF Pending, AtMostTwo
    <3>3. i = 1
      BY <1>2, <2>1, <3>2
    <3>4. CASE c.op = "env"
      <4>1. c.page = d.page
        BY <1>5, <2>3, <3>4
      <4> QED BY <1>5, <2>5, <2>6, <3>3, <3>4, <4>1 DEF d
    <3>5. CASE c.op # "env"
      BY <1>5, <2>2, <2>3, <2>5, <2>6, <3>3, <3>5 DEF d
    <3> QED BY <3>4, <3>5
  <2>7. CASE q # Count(c)
    <3>1. t[1].own = c /\ c.op # "env"
      <4>1. t[1].own = c
        BY <1>7, <2>1, <2>7
      <4>2. c.op = "env" => Count(c) = 1
        BY <1>2, PrefixIs
      <4> QED BY <1>2, <2>7, <4>1, <4>2
    <3>2. i # 1
      BY <2>3, <3>1 DEF d
    <3> QED BY <1>5, <2>2, <2>3, <2>5, <2>7, <3>1, <3>2 DEF d
  <2> QED BY <2>6, <2>7
<1> QED BY <1>4, <1>5, <1>6, <1>8, <1>9 DEF Pending, t

-----------------------------------------------------------------------------
(* What the guest expects of the words taken.                              *)
Taken(ws, s, k) == Len(ws) = k /\ DOMAIN ws = 1 .. k /\ \A i \in 1 .. k : ws[i] = s[i]

LEMMA TakenIs ==
  ASSUME NEW s, s \in Seq(StreamWords), NEW k \in 1 .. Len(s)
  PROVE  Taken(SubSeq(s, 1, k), s, k)
<1> DEFINE ws == SubSeq(s, 1, k)
<1>1. \A i \in 1 .. k : s[i] \in StreamWords
  OBVIOUS
<1>2. /\ ws \in Seq(StreamWords) /\ Len(ws) = IF 1 <= k THEN k - 1 + 1 ELSE 0
      /\ \A i \in 1 .. k - 1 + 1 : ws[i] = s[1 + i - 1]
  BY <1>1, SubSeqProperties
<1>3. k - 1 + 1 = k /\ 1 <= k /\ \A i \in 1 .. k : 1 + i - 1 = i
  OBVIOUS
<1> HIDE DEF ws
<1>4. Len(ws) = k /\ \A i \in 1 .. k : ws[i] = s[i]
  BY <1>2, <1>3
<1>5. DOMAIN ws = 1 .. k
  BY <1>2, <1>4
<1> QED BY <1>4, <1>5 DEF Taken, ws

LEMMA CommandedTurn ==
  ASSUME NEW s, Chain(s), NEW k, Turn(s, k), NEW ws, Taken(ws, s, k)
  PROVE  Commanded(ws) = IF s[k].pos = Count(s[1].own) /\ s[1].own.op \in {"env", "poly"} THEN s[1].own.page ELSE want
<1> DEFINE c == s[1].own
           sets == {i \in DOMAIN ws : ws[i].last /\ ws[i].own.op \in {"env", "poly"}}
<1>1. k \in Nat \ {0} /\ (\A i \in 1 .. k : s[i].own = c /\ (s[i].last => i = k)) /\ s[k] \in StreamWords
  BY TurnIs
<1>2. s[k].last <=> s[k].pos = Count(c)
  <2>1. k \in 1 .. k
    BY <1>1
  <2> QED BY <1>1, <2>1, WordIs
<1>3. DOMAIN ws = 1 .. k /\ \A i \in 1 .. k : ws[i] = s[i]
  BY DEF Taken
<1> HIDE DEF c
<1>4. Commanded(ws) = IF sets = {} THEN want ELSE ws[Max(sets)].own.page
  BY DEF Commanded
<1>5. CASE s[k].last /\ c.op \in {"env", "poly"}
  <2>1. sets = {k}
    BY <1>1, <1>3, <1>5
  <2>2. Max({k}) = k
    BY <1>1 DEF Max
  <2>3. k \in 1 .. k /\ ws[k].own = c
    BY <1>1, <1>3
  <2> HIDE DEF sets
  <2>4. Commanded(ws) = c.page
    BY <1>4, <2>1, <2>2, <2>3
  <2> QED BY <1>2, <1>5, <2>4 DEF c
<1>6. CASE ~(s[k].last /\ c.op \in {"env", "poly"})
  <2>1. sets = {}
    BY <1>1, <1>3, <1>6
  <2> QED BY <1>2, <1>4, <1>6, <2>1 DEF c
<1> QED BY <1>5, <1>6

Awaited(ws, s, k) ==
  \E ss : /\ Expected(ws) = FlattenSeq(ss) /\ Len(ss) = k /\ k \in Nat \ {0}
          /\ \A i \in 1 .. k : ss[i] = Answer(s[1].own, s[1].pos + i - 1, gpu.irq)

LEMMA ExpectedIs ==
  ASSUME NEW s, Chain(s), NEW k, Turn(s, k), NEW ws, Taken(ws, s, k)
  PROVE  Awaited(ws, s, k)
<1> DEFINE c == s[1].own
           p == s[1].pos
           ss == [i \in 1 .. Len(ws) |->
                    IF ws[i].own.op = "irq" THEN IF gpu.irq THEN <<>> ELSE <<"irq">> ELSE ws[i].fx]
<1>1. k \in Nat \ {0} /\ \A i \in 1 .. k : s[i] = WordOf(c, p + i - 1)
  BY TurnIs
<1>2. Expected(ws) = FlattenSeq(ss)
  BY DEF Expected
<1>3. Len(ws) = k /\ \A i \in 1 .. k : ws[i] = s[i]
  BY DEF Taken
<1> HIDE DEF c, p
<1>4. Len(ss) = k /\ \A i \in 1 .. k : ss[i] = Answer(c, p + i - 1, gpu.irq)
  <2>1. Len(ss) = k
    BY <1>1, <1>3
  <2>2. ASSUME NEW i \in 1 .. k PROVE ss[i] = Answer(c, p + i - 1, gpu.irq)
    <3>1. ss[i] = IF ws[i].own.op = "irq" THEN IF gpu.irq THEN <<>> ELSE <<"irq">> ELSE ws[i].fx
      BY <1>1, <1>3
    <3>2. ws[i] = WordOf(c, p + i - 1)
      BY <1>1, <1>3
    <3>3. ws[i].own = c /\ ws[i].fx = Effect(c, p + i - 1, Count(c))
      BY <3>2, WordFields
    <3> HIDE DEF ss
    <3> QED BY <3>1, <3>3 DEF Answer
  <2> QED BY <2>1, <2>2
<1> HIDE DEF ss
<1> QED BY <1>1, <1>2, <1>4 DEF Awaited, c, p

LEMMA ExpectedOne ==
  ASSUME NEW s, Chain(s), s # <<>>, NEW ws, Taken(ws, s, 1)
  PROVE  Expected(ws) = Answer(s[1].own, s[1].pos, gpu.irq)
<1>1. Len(s) \in Nat \ {0}
  BY EmptySeq DEF Chain
<1>2. Turn(s, 1)
  BY <1>1 DEF Turn
<1>3. PICK ss : /\ Expected(ws) = FlattenSeq(ss) /\ Len(ss) = 1
                /\ \A i \in 1 .. 1 : ss[i] = Answer(s[1].own, s[1].pos + i - 1, gpu.irq)
  <2>1. Awaited(ws, s, 1)
    BY <1>2, ExpectedIs
  <2> QED BY <2>1 DEF Awaited
<1>4. s[1].pos + 1 - 1 = s[1].pos
  <2>1. s[1] \in StreamWords
    BY <1>1 DEF Chain
  <2>2. s[1].pos \in 1 .. Count(s[1].own) /\ Count(s[1].own) \in Nat
    BY <2>1, WordIs, CommandIs
  <2> QED BY <2>2
<1>5. ss[1] = Answer(s[1].own, s[1].pos + 1 - 1, gpu.irq)
  BY <1>3
<1> QED BY <1>3, <1>4, <1>5, FlattenOne

LEMMA ExpectedDraw ==
  ASSUME NEW s, Chain(s), NEW k, Turn(s, k), NEW ws, Taken(ws, s, k),
         s[1].pos = 1, k = Count(s[1].own), s[1].own.op \in {"poly", "fill", "copy"}
  PROVE  Expected(ws) = <<s[1].own.op>>
<1> DEFINE c == s[1].own
<1>1. PICK ss : /\ Expected(ws) = FlattenSeq(ss) /\ Len(ss) = k /\ k \in Nat \ {0}
                /\ \A i \in 1 .. k : ss[i] = Answer(c, 1 + i - 1, gpu.irq)
  BY ExpectedIs DEF Awaited
<1>2. \A i \in 1 .. k : ss[i] = IF i = k THEN <<c.op>> ELSE <<>>
  <2> TAKE i \in 1 .. k
  <2>1. 1 + i - 1 = i /\ ss[i] = Answer(c, 1 + i - 1, gpu.irq)
    BY <1>1
  <2> QED BY <2>1 DEF Answer, Effect
<1>3. <<c.op>> \in Seq({c.op})
  OBVIOUS
<1> HIDE DEF c
<1>4. ss[k] = <<c.op>> /\ \A i \in 1 .. k - 1 : ss[i] = <<>>
  BY <1>1, <1>2
<1>5. FlattenSeq(ss) = ss[Len(ss)]
  <2>1. /\ Len(ss) \in Nat \ {0} /\ ss[Len(ss)] \in Seq({c.op})
        /\ \A i \in 1 .. Len(ss) - 1 : ss[i] = <<>>
    BY <1>1, <1>3, <1>4
  <2> QED BY <2>1, FlattenQuiet
<1> QED BY <1>1, <1>4, <1>5 DEF c

LEMMA ExpectedLoad ==
  ASSUME NEW s, Chain(s), NEW k, Turn(s, k), NEW ws, Taken(ws, s, k),
         s[1].pos = 1, k = Count(s[1].own), s[1].own.op = "load"
  PROVE  Expected(ws) = <<"load">> \o [i \in 1 .. PixelWords(s[1].own) |-> "pixel"]
<1> DEFINE c == s[1].own
           m == PixelWords(c)
<1>1. PICK ss : /\ Expected(ws) = FlattenSeq(ss) /\ Len(ss) = k /\ k \in Nat \ {0}
                /\ \A i \in 1 .. k : ss[i] = Answer(c, 1 + i - 1, gpu.irq)
  BY ExpectedIs DEF Awaited
<1>2. c \in GpuCommands /\ c.op = "load"
  BY TurnIs
<1>3. m \in Nat /\ k = 3 + m
  BY <1>2, PrefixIs
<1>4. \A i \in 1 .. k : ss[i] = IF i = 3 THEN <<"load">> ELSE IF i > 3 THEN <<"pixel">> ELSE <<>>
  <2> TAKE i \in 1 .. k
  <2>1. 1 + i - 1 = i /\ ss[i] = Answer(c, 1 + i - 1, gpu.irq)
    BY <1>1
  <2> QED BY <2>1 DEF Answer, Effect
<1> HIDE DEF c, m
<1>5. Len(ss) = 3 + m /\ ss[1] = <<>> /\ ss[2] = <<>> /\ ss[3] = <<"load">> /\ \A i \in 4 .. 3 + m : ss[i] = <<"pixel">>
  BY <1>1, <1>3, <1>4
<1>6. FlattenSeq(ss) = <<"load">> \o [i \in 1 .. m |-> "pixel"]
  BY <1>3, <1>5, FlattenImage
<1> QED BY <1>1, <1>6 DEF m, c

-----------------------------------------------------------------------------
(* Where transfers cut the stream: what is still to be sent is the rest of *)
(* one command, which is none the fast paths take whole, and in a list all *)
(* images are counted as the parser counts them.                           *)
Lists == {"slow", "dispatch", "words"}
Cut(f, b, r) ==
  /\ f \in {"cpu", "block"} \cup Lists
  /\ b \in Seq(StreamWords) /\ r \in Seq(StreamWords)
  /\ f = "cpu" => b = <<>>
  /\ \A i \in 1 .. Len(r) : r[i].pos # 1
  /\ f = "block" /\ r # <<>> => r[1].own.op # "poly"
  /\ f \in Lists /\ r # <<>> => r[1].own.op = "line"
  /\ f \in Lists => \A i \in 1 .. Len(b) : b[i].own.op = "load" => ListImageWords(b[i].own) = PixelWords(b[i].own)

(* The inductive invariant: the parser stands before the first of the      *)
(* words in the block and behind it, the page is the one last commanded    *)
(* and what was carried out is what was expected.                          *)
GpuIInv ==
  /\ Pending(gpu, blk \o rest) /\ Cut(feed, blk, rest)
  /\ gpu.page = want /\ gpu.out = due
  /\ packets \in 0 .. MaxPackets

(* u is a followed by b.                                                   *)
JoinedTo(a, b, u) ==
  /\ u \in Seq(StreamWords) /\ Len(u) = Len(a) + Len(b) /\ Len(a) \in Nat /\ Len(b) \in Nat /\ Len(u) \in Nat
  /\ \A i \in 1 .. Len(a) : i \in 1 .. Len(u) /\ u[i] = a[i]
  /\ \A i \in 1 .. Len(b) : Len(a) + i \in 1 .. Len(u) /\ u[Len(a) + i] = b[i]

LEMMA JoinIs ==
  ASSUME NEW a, NEW b, a \in Seq(StreamWords), b \in Seq(StreamWords)
  PROVE  JoinedTo(a, b, a \o b)
<1> DEFINE u == a \o b
<1>1. Len(a) \in Nat /\ Len(b) \in Nat
  OBVIOUS
<1>2. /\ u \in Seq(StreamWords) /\ Len(u) = Len(a) + Len(b)
      /\ \A i \in 1 .. Len(a) + Len(b) : u[i] = IF i <= Len(a) THEN a[i] ELSE b[i - Len(a)]
  BY ConcatProperties
<1> HIDE DEF u
<1>3. \A i \in 1 .. Len(a) : i \in 1 .. Len(u) /\ u[i] = a[i]
  BY <1>1, <1>2
<1>4. \A i \in 1 .. Len(b) : Len(a) + i \in 1 .. Len(u) /\ u[Len(a) + i] = b[i]
  <2> TAKE i \in 1 .. Len(b)
  <2>1. Len(a) + i \in 1 .. Len(a) + Len(b) /\ ~(Len(a) + i <= Len(a)) /\ (Len(a) + i) - Len(a) = i
    BY <1>1
  <2> QED BY <1>2, <2>1
<1> QED BY <1>1, <1>2, <1>3, <1>4 DEF JoinedTo, u

LEMMA DropIs ==
  ASSUME NEW a, a \in Seq(StreamWords), NEW k \in 0 .. Len(a)
  PROVE  /\ SubSeq(a, k + 1, Len(a)) \in Seq(StreamWords) /\ Len(SubSeq(a, k + 1, Len(a))) = Len(a) - k
         /\ \A i \in 1 .. Len(a) - k : SubSeq(a, k + 1, Len(a))[i] = a[i + k]
<1> DEFINE t == SubSeq(a, k + 1, Len(a))
<1>1. \A i \in k + 1 .. Len(a) : a[i] \in StreamWords
  OBVIOUS
<1>2. Len(a) \in Nat
  OBVIOUS
<1>3. /\ t \in Seq(StreamWords) /\ Len(t) = IF k + 1 <= Len(a) THEN Len(a) - (k + 1) + 1 ELSE 0
      /\ \A i \in 1 .. Len(a) - (k + 1) + 1 : t[i] = a[(k + 1) + i - 1]
  BY <1>1, <1>2, SubSeqProperties
<1>4. \A i \in 1 .. Len(a) - k : (k + 1) + i - 1 = i + k
  BY <1>2
<1> HIDE DEF t
<1>5. Len(t) = Len(a) - k /\ \A i \in 1 .. Len(a) - k : t[i] = a[i + k]
  BY <1>2, <1>3, <1>4
<1> QED BY <1>3, <1>5 DEF t

LEMMA DropJoin ==
  ASSUME NEW a, NEW b, a \in Seq(StreamWords), b \in Seq(StreamWords), NEW k \in 0 .. Len(a)
  PROVE  SubSeq(a, k + 1, Len(a)) \o b = SubSeq(a \o b, k + 1, Len(a \o b))
<1> DEFINE u == a \o b
           t == SubSeq(a, k + 1, Len(a))
           v == SubSeq(u, k + 1, Len(u))
<1>1. /\ u \in Seq(StreamWords) /\ Len(u) = Len(a) + Len(b) /\ Len(a) \in Nat /\ Len(b) \in Nat
      /\ \A i \in 1 .. Len(a) : u[i] = a[i]
      /\ \A i \in 1 .. Len(b) : u[Len(a) + i] = b[i]
  BY JoinIs DEF JoinedTo
<1>2. /\ t \in Seq(StreamWords) /\ Len(t) = Len(a) - k /\ \A i \in 1 .. Len(a) - k : t[i] = a[i + k]
  BY DropIs
<1> HIDE DEF u, t
<1>3. k \in 0 .. Len(u)
  BY <1>1
<1>4. /\ v \in Seq(StreamWords) /\ Len(v) = Len(u) - k /\ \A i \in 1 .. Len(u) - k : v[i] = u[i + k]
  BY <1>1, <1>3, DropIs
<1> HIDE DEF v
<1>5. /\ t \o b \in Seq(StreamWords) /\ Len(t \o b) = Len(t) + Len(b)
      /\ \A i \in 1 .. Len(t) : (t \o b)[i] = t[i]
      /\ \A i \in 1 .. Len(b) : (t \o b)[Len(t) + i] = b[i]
  <2>1. JoinedTo(t, b, t \o b)
    BY <1>2, JoinIs
  <2> QED BY <2>1 DEF JoinedTo
<1>6. Len(t \o b) = Len(v)
  BY <1>1, <1>2, <1>4, <1>5
<1>7. \A i \in 1 .. Len(t \o b) : (t \o b)[i] = v[i]
  <2> TAKE i \in 1 .. Len(t \o b)
  <2>1. CASE i <= Len(t)
    <3>1. i \in 1 .. Len(t) /\ i \in 1 .. Len(a) - k /\ i \in 1 .. Len(u) - k /\ i + k \in 1 .. Len(a)
      BY <1>1, <1>2, <1>5, <2>1
    <3>2. (t \o b)[i] = t[i] /\ t[i] = a[i + k] /\ v[i] = u[i + k] /\ u[i + k] = a[i + k]
      BY <1>1, <1>2, <1>4, <1>5, <3>1
    <3> QED BY <3>2
  <2>2. CASE i > Len(t)
    <3> DEFINE j == i - Len(t)
    <3>1. j \in 1 .. Len(b) /\ Len(t) + j = i /\ i \in 1 .. Len(u) - k /\ i + k = Len(a) + j
      <4>1. i \in 1 .. Len(t) + Len(b) /\ Len(t) = Len(a) - k /\ Len(u) - k = Len(t) + Len(b)
        BY <1>1, <1>2, <1>5
      <4> QED BY <1>1, <2>2, <4>1
    <3> HIDE DEF j
    <3>2. (t \o b)[Len(t) + j] = b[j] /\ v[i] = u[i + k] /\ u[Len(a) + j] = b[j]
      BY <1>1, <1>4, <1>5, <3>1
    <3> QED BY <3>1, <3>2
  <2> QED BY <1>2, <1>5, <2>1, <2>2
<1>8. t \o b = v
  BY <1>4, <1>5, <1>6, <1>7, SeqEqual
<1> QED BY <1>8 DEF t, u, v

LEMMA FreshPending ==
  ASSUME NEW s, Pending(gpu, s)
  PROVE  /\ Pending(Fresh, s) /\ Fresh.out = <<>> /\ Fresh.irq = gpu.irq /\ Fresh.page = gpu.page /\ Fresh.e1 = gpu.e1
         /\ Fresh.left = gpu.left /\ Fresh.xfer = gpu.xfer /\ Fresh.poly = gpu.poly /\ Fresh.read = gpu.read
         /\ Fresh.ready = gpu.ready /\ Fresh.buf = gpu.buf /\ Fresh.color = gpu.color /\ Fresh.shaded = gpu.shaded
<1>1. gpu \in Parsers
  BY DEF Pending
<1>2. <<>> \in Seq(Events)
  OBVIOUS
<1>3. /\ Fresh \in Parsers /\ Fresh.out = <<>> /\ Fresh.irq = gpu.irq /\ Fresh.page = gpu.page /\ Fresh.e1 = gpu.e1
      /\ Fresh.left = gpu.left /\ Fresh.xfer = gpu.xfer /\ Fresh.poly = gpu.poly /\ Fresh.read = gpu.read
      /\ Fresh.ready = gpu.ready /\ Fresh.buf = gpu.buf /\ Fresh.color = gpu.color /\ Fresh.shaded = gpu.shaded
  <2> DEFINE z == <<>>
  <2>1. Fresh = [gpu EXCEPT !.out = z] /\ z \in Seq(Events)
    BY <1>2 DEF Fresh
  <2> HIDE DEF z
  <2>2. /\ Fresh \in Parsers /\ Fresh.out = z /\ Fresh.irq = gpu.irq /\ Fresh.page = gpu.page /\ Fresh.e1 = gpu.e1
        /\ Fresh.left = gpu.left /\ Fresh.xfer = gpu.xfer /\ Fresh.poly = gpu.poly /\ Fresh.read = gpu.read
        /\ Fresh.ready = gpu.ready /\ Fresh.buf = gpu.buf /\ Fresh.color = gpu.color /\ Fresh.shaded = gpu.shaded
    BY <1>1, <2>1 DEF Parsers
  <2> QED BY <2>2 DEF z
<1>4. At(Fresh, s)
  <2>1. AtRest(gpu) => AtRest(Fresh)
    BY <1>3 DEF AtRest
  <2>2. \A c, p : InWord(gpu, c, p) => InWord(Fresh, c, p)
    BY <1>3, <2>1 DEF InWord, Collecting, Loading, Polyline
  <2> QED BY <2>1, <2>2 DEF Pending, At
<1>5. EnvOK(Fresh, s)
  BY <1>3 DEF Pending, EnvOK, PageFor
<1> QED BY <1>3, <1>4, <1>5 DEF Pending

-----------------------------------------------------------------------------
(* Words taken from the block or packet.                                   *)
Frame ==
  /\ feed' = feed \/ (feed \in Lists /\ feed' \in Lists)
  /\ rest' = rest /\ packets' = packets

LEMMA BlockIs ==
  ASSUME GpuIInv, blk # <<>>
  PROVE  /\ Chain(blk \o rest) /\ blk \o rest # <<>> /\ (blk \o rest)[1] = blk[1] /\ 1 \in 1 .. Len(blk)
         /\ blk \in Seq(StreamWords) /\ rest \in Seq(StreamWords) /\ Len(blk) \in Nat /\ Len(blk \o rest) \in Nat
         /\ Len(blk \o rest) = Len(blk) + Len(rest) /\ Len(rest) \in Nat
         /\ \A i \in 1 .. Len(blk) : i \in 1 .. Len(blk \o rest) /\ (blk \o rest)[i] = blk[i]
         /\ \A i \in 1 .. Len(rest) : (blk \o rest)[Len(blk) + i] = rest[i]
         /\ blk[1] \in StreamWords /\ blk[1].own \in GpuCommands /\ blk[1].pos \in 1 .. Count(blk[1].own)
         /\ blk[1] = WordOf(blk[1].own, blk[1].pos)
<1>1. blk \in Seq(StreamWords) /\ rest \in Seq(StreamWords) /\ Chain(blk \o rest)
  BY DEF GpuIInv, Cut, Pending
<1>2. JoinedTo(blk, rest, blk \o rest)
  BY <1>1, JoinIs
<1>3. 1 \in 1 .. Len(blk) /\ Len(blk) \in Nat
  BY <1>1, EmptySeq
<1>4. /\ (\A i \in 1 .. Len(blk) : i \in 1 .. Len(blk \o rest) /\ (blk \o rest)[i] = blk[i])
      /\ (\A i \in 1 .. Len(rest) : (blk \o rest)[Len(blk) + i] = rest[i])
      /\ Len(blk \o rest) = Len(blk) + Len(rest) /\ Len(rest) \in Nat /\ Len(blk \o rest) \in Nat
  BY <1>2 DEF JoinedTo
<1>5. blk \o rest # <<>>
  BY <1>3, <1>4, EmptySeq
<1>6. blk[1] \in StreamWords
  BY <1>1, <1>3
<1>7. blk[1].own \in GpuCommands /\ blk[1].pos \in 1 .. Count(blk[1].own) /\ blk[1] = WordOf(blk[1].own, blk[1].pos)
  BY <1>6, WordIs
<1>8. (blk \o rest)[1] = blk[1]
  BY <1>3, <1>4
<1> QED BY <1>1, <1>3, <1>4, <1>5, <1>6, <1>7, <1>8

LEMMA CutKeeps ==
  ASSUME NEW f, NEW b, NEW r, Cut(f, b, r), NEW k \in 0 .. Len(b), NEW f2, f2 = f \/ (f \in Lists /\ f2 \in Lists)
  PROVE  f # "cpu" => Cut(f2, SubSeq(b, k + 1, Len(b)), r)
<1> SUFFICES ASSUME f # "cpu" PROVE Cut(f2, SubSeq(b, k + 1, Len(b)), r)
  OBVIOUS
<1> DEFINE t == SubSeq(b, k + 1, Len(b))
<1>1. t \in Seq(StreamWords) /\ Len(t) = Len(b) - k /\ \A i \in 1 .. Len(b) - k : t[i] = b[i + k]
  BY DropIs DEF Cut
<1> HIDE DEF t
<1>2. f2 # "cpu" /\ f2 \in {"cpu", "block"} \cup Lists /\ (f2 \in Lists <=> f \in Lists) /\ (f2 = "block" => f = "block")
  BY DEF Cut, Lists
<1>3. f2 \in Lists => \A i \in 1 .. Len(t) : t[i].own.op = "load" => ListImageWords(t[i].own) = PixelWords(t[i].own)
  <2> SUFFICES ASSUME f2 \in Lists, NEW i \in 1 .. Len(t) PROVE t[i].own.op = "load" => ListImageWords(t[i].own) = PixelWords(t[i].own)
    OBVIOUS
  <2>1. b \in Seq(StreamWords) /\ Len(b) \in Nat
    BY DEF Cut
  <2>2. i + k \in 1 .. Len(b) /\ t[i] = b[i + k]
    BY <1>1, <2>1
  <2> QED BY <1>2, <2>2 DEF Cut
<1> QED BY <1>1, <1>2, <1>3 DEF Cut, t

LEMMA TakeFromBlock ==
  ASSUME GpuIInv, blk # <<>>, NEW k \in 1 .. Len(blk), k = 1 \/ (blk[1].pos = 1 /\ k = Count(blk[1].own)),
         NEW h, Stepped(Fresh, h, blk[1].own, blk[k].pos), h.out = Expected(SubSeq(blk, 1, k)),
         Consume(k, h), Frame
  PROVE  GpuIInv'
<1> DEFINE s == blk \o rest
           t == SubSeq(s, k + 1, Len(s))
           ws == SubSeq(blk, 1, k)
<1>1. /\ Chain(s) /\ s # <<>> /\ s[1] = blk[1] /\ blk \in Seq(StreamWords) /\ rest \in Seq(StreamWords)
      /\ \A i \in 1 .. Len(blk) : i \in 1 .. Len(s) /\ s[i] = blk[i]
  BY BlockIs
<1>2. gpu' = h /\ due' = Expected(ws) /\ want' = Commanded(ws) /\ blk' = SubSeq(blk, k + 1, Len(blk))
  BY <1>1 DEF Consume, Consumed
<1>3. Turn(s, k)
  BY <1>1 DEF Turn
<1>4. Pending(Fresh, s) /\ Fresh.page = gpu.page
  BY FreshPending DEF GpuIInv
<1>5. blk' \o rest' = t
  <2>1. k \in 0 .. Len(blk)
    OBVIOUS
  <2>2. SubSeq(blk, k + 1, Len(blk)) \o rest = t
    BY <1>1, <2>1, DropJoin
  <2> HIDE DEF t
  <2> QED BY <1>2, <2>2 DEF Frame
<1>6. s[k] = blk[k]
  BY <1>1
<1>7. Taken(ws, s, k)
  <2>1. Taken(ws, blk, k)
    BY <1>1, TakenIs
  <2> HIDE DEF s, ws
  <2> QED BY <1>1, <2>1 DEF Taken
<1> HIDE DEF s, ws
<1>8. Pending(h, t)
  BY <1>1, <1>3, <1>4, <1>6, TakeTurn
<1>9. want' = h.page
  <2>1. want' = IF s[k].pos = Count(s[1].own) /\ s[1].own.op \in {"env", "poly"} THEN s[1].own.page ELSE want
    BY <1>1, <1>2, <1>3, <1>7, CommandedTurn
  <2>2. gpu.page = want
    BY DEF GpuIInv
  <2> QED BY <1>1, <1>4, <1>6, <2>1, <2>2 DEF Stepped
<1> HIDE DEF t
<1>10. Cut(feed', blk', rest')
  <2>1. Cut(feed, blk, rest) /\ feed # "cpu" /\ k \in 0 .. Len(blk)
    BY DEF GpuIInv, Cut
  <2> QED BY <1>2, <2>1, CutKeeps DEF Frame
<1>11. Pending(gpu', blk' \o rest')
  BY <1>2, <1>5, <1>8
<1> QED BY <1>2, <1>9, <1>10, <1>11 DEF GpuIInv, Frame, ws

LEMMA Feed1Keeps ==
  ASSUME GpuIInv, blk # <<>>, Feed1, Frame
  PROVE  GpuIInv'
<1> DEFINE c == blk[1].own
           p == blk[1].pos
           s == blk \o rest
           h == GPU_WriteGP0(Fresh, blk[1].x)
<1>1. /\ Chain(s) /\ s # <<>> /\ s[1] = blk[1] /\ 1 \in 1 .. Len(blk) /\ c \in GpuCommands /\ p \in 1 .. Count(c)
      /\ blk[1] = WordOf(c, p) /\ blk \in Seq(StreamWords) /\ Len(s) \in Nat /\ 1 \in 1 .. Len(s)
  BY BlockIs
<1>2. Pending(Fresh, s) /\ Fresh.out = <<>> /\ Fresh.irq = gpu.irq
  BY FreshPending DEF GpuIInv
<1> HIDE DEF s, c, p
<1>3. Fresh \in Parsers /\ InWord(Fresh, c, p) /\ (Fresh.ready <=> Fresh.read > 0)
  BY <1>1, <1>2 DEF Pending, At, c, p
<1>4. FirstWord(Fresh, c)
  <2>1. c.op = "env" /\ Fresh.e1 = <<c.page>> => PageFor(Fresh, s, 1) = c.page
    BY <1>1, <1>2 DEF Pending, EnvOK, c
  <2> QED BY <2>1 DEF FirstWord, PageFor
<1>5. Fed(Fresh, GPU_WriteGP0(Fresh, WordOf(c, p).x), c, p)
  BY <1>1, <1>2, <1>3, <1>4, FeedWord
<1>6. Stepped(Fresh, h, c, p) /\ h.out = Answer(c, p, gpu.irq)
  BY <1>1, <1>2, <1>5 DEF Fed
<1> HIDE DEF h
<1>7. Expected(SubSeq(blk, 1, 1)) = Answer(c, p, gpu.irq)
  <2>1. Taken(SubSeq(blk, 1, 1), blk, 1)
    BY <1>1, TakenIs
  <2>2. Taken(SubSeq(blk, 1, 1), s, 1)
    BY <1>1, <2>1 DEF Taken
  <2> QED BY <1>1, <2>2, ExpectedOne DEF c, p
<1>8. Consume(1, h)
  BY DEF Feed1, h
<1> QED BY <1>1, <1>6, <1>7, <1>8, TakeFromBlock DEF c, p

LEMMA FirstIs ==
  ASSUME GpuIInv, blk # <<>>, blk[1].x.op # "nop"
  PROVE  /\ blk[1].own \in GpuCommands /\ blk[1].pos = 1 /\ blk[1].own.op = blk[1].x.op /\ AtRest(gpu)
         /\ Count(blk[1].own) \in Nat \ {0} /\ Len(blk) \in Nat \ {0}
         /\ \A i \in 1 .. Count(blk[1].own) : i <= Len(blk) => blk[i] = WordOf(blk[1].own, i)
         /\ Count(blk[1].own) <= Len(blk) \/ (rest # <<>> /\ rest[1].own = blk[1].own)
<1> DEFINE c == blk[1].own
           s == blk \o rest
<1>1. /\ Chain(s) /\ s # <<>> /\ s[1] = blk[1] /\ 1 \in 1 .. Len(blk) /\ c \in GpuCommands /\ blk[1].pos \in 1 .. Count(c)
      /\ blk[1] = WordOf(c, blk[1].pos) /\ Len(s) = Len(blk) + Len(rest) /\ Len(blk) \in Nat /\ Len(rest) \in Nat
      /\ (\A i \in 1 .. Len(blk) : s[i] = blk[i]) /\ \A i \in 1 .. Len(rest) : s[Len(blk) + i] = rest[i]
  BY BlockIs
<1>2. blk[1].pos = 1 /\ blk[1].x = Word0(c) /\ Count(c) \in Nat \ {0}
  BY <1>1, XIs, CommandIs
<1>3. blk[1].x.op = c.op
  <2>1. Word0(c).op = c.op
    BY DEF Word0, Word
  <2> HIDE DEF c
  <2> QED BY <1>2, <2>1
<1>4. AtRest(gpu)
  BY <1>1, <1>2 DEF GpuIInv, Pending, At, InWord
<1>5. 1 \in 1 .. Len(s)
  BY <1>1
<1> HIDE DEF s
<1>6. \A j \in 0 .. Count(c) - 1 : 1 + j <= Len(s) /\ s[1 + j] = WordOf(c, 1 + j)
  <2>1. s[1].own = c /\ s[1].pos = 1
    BY <1>1, <1>2
  <2> HIDE DEF c
  <2> QED BY <1>1, <1>5, <2>1, ChainRun
<1> HIDE DEF c
<1>7. \A i \in 1 .. Count(c) : i <= Len(s) /\ s[i] = WordOf(c, i)
  <2> TAKE i \in 1 .. Count(c)
  <2>1. i - 1 \in 0 .. Count(c) - 1 /\ 1 + (i - 1) = i
    BY <1>2
  <2> QED BY <1>6, <2>1
<1>8. \A i \in 1 .. Count(c) : i <= Len(blk) => blk[i] = WordOf(c, i)
  BY <1>1, <1>2, <1>7
<1>9. ASSUME ~(Count(c) <= Len(blk)) PROVE rest # <<>> /\ rest[1].own = c
  <2>1. Len(blk) + 1 \in 1 .. Count(c)
    BY <1>1, <1>2, <1>9
  <2>2. Len(blk) + 1 <= Len(s) /\ s[Len(blk) + 1] = WordOf(c, Len(blk) + 1)
    BY <1>7, <2>1
  <2>3. 1 \in 1 .. Len(rest)
    BY <1>1, <2>2
  <2>4. rest[1] = WordOf(c, Len(blk) + 1)
    BY <1>1, <2>2, <2>3
  <2> QED BY <2>3, <2>4, WordFields, EmptySeq
<1> QED BY <1>1, <1>2, <1>3, <1>4, <1>8, <1>9 DEF c

(* The fast path of a drawing command.                                     *)
LEMMA DrawFastKeeps ==
  ASSUME GpuIInv, blk # <<>>, blk[1].x.op \in {"poly", "fill"}, 3 <= Len(blk), Draw, Frame
  PROVE  GpuIInv'
<1> DEFINE c == blk[1].own
           s == blk \o rest
           b == [i \in 1 .. PolyWords |-> Raw(i)]
           h == Translate(Fresh, b)
<1>1. /\ c \in GpuCommands /\ blk[1].pos = 1 /\ c.op \in {"poly", "fill"} /\ AtRest(gpu) /\ Len(blk) \in Nat
      /\ \A i \in 1 .. Count(c) : i <= Len(blk) => blk[i] = WordOf(c, i)
  BY FirstIs
<1>2. Count(c) = 3
  BY <1>1 DEF Count
<1>3. Pending(Fresh, s) /\ Fresh.out = <<>> /\ Fresh.page = gpu.page /\ Fresh.e1 = gpu.e1
      /\ Fresh.left = gpu.left /\ Fresh.xfer = gpu.xfer /\ Fresh.poly = gpu.poly
  BY FreshPending DEF GpuIInv
<1>4. Chain(s) /\ s[1] = blk[1] /\ \A i \in 1 .. Len(blk) : i \in 1 .. Len(s) /\ s[i] = blk[i]
  BY BlockIs
<1>5. 1 \in 1 .. Len(blk) /\ 2 \in 1 .. Len(blk) /\ 3 \in 1 .. Len(blk)
  BY <1>1
<1> HIDE DEF s
<1>6. b[1].op = c.op /\ (c.op = "poly" => b[2].page = c.page)
  <2>1. b[1] = blk[1].x /\ b[2] = blk[2].x
    BY <1>1, <1>5, GpuConstants DEF Raw, Fits
  <2>2. blk[2] = WordOf(c, 2)
    BY <1>1, <1>2, <1>5
  <2>3. 2 \in 1 .. Count(c)
    BY <1>2
  <2>4. c.op = "poly" => blk[2].x.page = c.page
    BY <1>1, <2>2, <2>3, XIs
  <2>5. blk[1].x.op = c.op
    BY FirstIs
  <2> QED BY <2>1, <2>4, <2>5
<1> DEFINE q == IF c.op = "poly" THEN c.page ELSE Fresh.page
           o == <<c.op>>
<1>7. Fresh \in Parsers /\ (Fresh.ready <=> Fresh.read > 0)
  BY <1>3 DEF Pending
<1>8. q \in GpuPages /\ o \in Seq(Events)
  BY <1>1, <1>7, GpuConstants DEF Parsers, Events
<1>9. h = [Fresh EXCEPT !.page = q, !.out = o]
  <2>1. <<>> \o o = o
    BY <1>8, ConcatEmptySeq
  <2> HIDE DEF b
  <2>2. h = Emit([Fresh EXCEPT !.page = q], o)
    BY <1>6 DEF Translate
  <2> HIDE DEF h, q, o
  <2> QED BY <1>3, <1>7, <2>1, <2>2 DEF Emit, Parsers
<1> HIDE DEF h, q, o
<1>10. /\ h \in Parsers /\ h.page = q /\ h.out = o /\ h.e1 = Fresh.e1 /\ h.read = Fresh.read /\ h.ready = Fresh.ready
       /\ h.left = Fresh.left /\ h.xfer = Fresh.xfer /\ h.poly = Fresh.poly
  BY <1>7, <1>8, <1>9 DEF Parsers
<1>11. blk[3].pos = 3
  <2>1. blk[3] = WordOf(c, 3)
    BY <1>1, <1>2, <1>5
  <2> QED BY <2>1, WordFields
<1>12. Stepped(Fresh, h, c, 3)
  <2>1. InWord(h, c, 3 + 1)
    BY <1>1, <1>2, <1>3, <1>10 DEF InWord, AtRest
  <2> QED BY <1>1, <1>2, <1>7, <1>10, <2>1 DEF Stepped, q
<1>13. Expected(SubSeq(blk, 1, 3)) = o
  <2>1. Taken(SubSeq(blk, 1, 3), blk, 3)
    BY <1>5, TakenIs, BlockIs
  <2>2. Taken(SubSeq(blk, 1, 3), s, 3)
    BY <1>1, <1>4, <1>5, <2>1 DEF Taken
  <2>3. Turn(s, 3) /\ s[1].pos = 1 /\ 3 = Count(s[1].own) /\ s[1].own.op \in {"poly", "fill", "copy"} /\ s[1].own = c
    BY <1>1, <1>2, <1>4, <1>5 DEF Turn
  <2> QED BY <1>4, <2>2, <2>3, ExpectedDraw DEF o
<1>14. Consume(3, h)
  BY GpuConstants DEF Draw, h
<1> QED BY <1>1, <1>2, <1>5, <1>10, <1>11, <1>12, <1>13, <1>14, TakeFromBlock DEF c

(* The fast path of an image.                                              *)
LEMMA UploadKeeps ==
  ASSUME GpuIInv, blk # <<>>, blk[1].x.op = "load", NEW n, n = PixelWords(blk[1].own), 3 + n <= Len(blk), Upload(n), Frame
  PROVE  GpuIInv'
<1> DEFINE c == blk[1].own
           s == blk \o rest
           o == <<"load">> \o [i \in 1 .. n |-> "pixel"]
           h == Emit(Fresh, o)
           k == 3 + n
<1>1. /\ c \in GpuCommands /\ blk[1].pos = 1 /\ c.op = "load" /\ AtRest(gpu) /\ Len(blk) \in Nat
      /\ \A i \in 1 .. Count(c) : i <= Len(blk) => blk[i] = WordOf(c, i)
  BY FirstIs
<1>2. Count(c) = k /\ n \in Nat \ {0}
  BY <1>1, PrefixIs
<1>3. Pending(Fresh, s) /\ Fresh.out = <<>> /\ Fresh.page = gpu.page /\ Fresh.e1 = gpu.e1
      /\ Fresh.left = gpu.left /\ Fresh.xfer = gpu.xfer /\ Fresh.poly = gpu.poly
  BY FreshPending DEF GpuIInv
<1>4. Chain(s) /\ s[1] = blk[1] /\ \A i \in 1 .. Len(blk) : i \in 1 .. Len(s) /\ s[i] = blk[i]
  BY BlockIs
<1>5. k \in 1 .. Len(blk) /\ 1 \in 1 .. Len(blk) /\ k \in 1 .. Count(c)
  BY <1>1, <1>2
<1> HIDE DEF s
<1>6. Fresh \in Parsers /\ (Fresh.ready <=> Fresh.read > 0)
  BY <1>3 DEF Pending
<1>7. o \in Seq(Events)
  <2> DEFINE a == <<"load">>
             b == [i \in 1 .. n |-> "pixel"]
  <2>1. a \in Seq(Events) /\ b \in Seq(Events)
    BY <1>2 DEF Events
  <2> HIDE DEF a, b
  <2>2. a \o b \in Seq(Events)
    BY <2>1, ConcatProperties
  <2> QED BY <2>2 DEF a, b
<1>8. h = [Fresh EXCEPT !.out = o]
  <2> HIDE DEF o
  <2>1. <<>> \o o = o
    BY <1>7, ConcatEmptySeq
  <2> QED BY <1>3, <2>1 DEF Emit
<1> HIDE DEF h, o
<1>9. /\ h \in Parsers /\ h.page = Fresh.page /\ h.out = o /\ h.e1 = Fresh.e1 /\ h.read = Fresh.read /\ h.ready = Fresh.ready
      /\ h.left = Fresh.left /\ h.xfer = Fresh.xfer /\ h.poly = Fresh.poly
  BY <1>6, <1>7, <1>8 DEF Parsers
<1>10. blk[k].pos = k
  <2>1. blk[k] = WordOf(c, k)
    BY <1>1, <1>5
  <2> HIDE DEF k, c
  <2> QED BY <2>1, WordFields
<1>11. Stepped(Fresh, h, c, k)
  <2>1. InWord(h, c, k + 1)
    BY <1>1, <1>2, <1>3, <1>9 DEF InWord, AtRest
  <2> QED BY <1>1, <1>6, <1>9, <2>1 DEF Stepped
<1>12. Expected(SubSeq(blk, 1, k)) = o
  <2>1. Taken(SubSeq(blk, 1, k), blk, k)
    BY <1>5, TakenIs, BlockIs
  <2>2. Taken(SubSeq(blk, 1, k), s, k)
    BY <1>1, <1>4, <1>5, <2>1 DEF Taken
  <2>3. Turn(s, k) /\ s[1].pos = 1 /\ k = Count(s[1].own) /\ s[1].own.op = "load" /\ n = PixelWords(s[1].own)
    BY <1>1, <1>2, <1>4, <1>5 DEF Turn
  <2> HIDE DEF k, c
  <2> QED BY <1>4, <2>2, <2>3, ExpectedLoad DEF o
<1>13. Consume(k, h)
  BY DEF Upload, h, o
<1> HIDE DEF k
<1> QED BY <1>1, <1>2, <1>5, <1>9, <1>10, <1>11, <1>12, <1>13, TakeFromBlock DEF c

(* A copy in a list.                                                       *)
LEMMA CopyKeeps ==
  ASSUME GpuIInv, blk # <<>>, blk[1].x.op = "copy", Fits(4), Frame,
         Consume(4, GPU_WriteGP0(GPU_WriteGP0(GPU_WriteGP0(GPU_WriteGP0(Fresh, Raw(1)), Raw(2)), Raw(3)), Raw(4)))
  PROVE  GpuIInv'
<1> DEFINE c == blk[1].own
           s == blk \o rest
           g1 == GPU_WriteGP0(Fresh, Raw(1))
           g2 == GPU_WriteGP0(g1, Raw(2))
           g3 == GPU_WriteGP0(g2, Raw(3))
           h == GPU_WriteGP0(g3, Raw(4))
<1>1. /\ c \in GpuCommands /\ blk[1].pos = 1 /\ c.op = "copy" /\ AtRest(gpu) /\ Len(blk) \in Nat
      /\ \A i \in 1 .. Count(c) : i <= Len(blk) => blk[i] = WordOf(c, i)
  BY FirstIs
<1>2. Count(c) = 4
  BY <1>1 DEF Count
<1>3. Pending(Fresh, s) /\ Fresh.out = <<>> /\ Fresh.left = gpu.left /\ Fresh.xfer = gpu.xfer /\ Fresh.poly = gpu.poly
  BY FreshPending DEF GpuIInv
<1>4. Chain(s) /\ s[1] = blk[1] /\ \A i \in 1 .. Len(blk) : i \in 1 .. Len(s) /\ s[i] = blk[i]
  BY BlockIs
<1>5. 4 <= Len(blk) /\ \A i \in 1 .. 4 : i \in 1 .. Len(blk) /\ Raw(i) = WordOf(c, i).x
  BY <1>1, <1>2 DEF Raw, Fits
<1>6. Fresh \in Parsers /\ (Fresh.ready <=> Fresh.read > 0) /\ InWord(Fresh, c, 1)
  BY <1>1, <1>3 DEF Pending, InWord, AtRest
<1>7. \A g : FirstWord(g, c)
  BY <1>1 DEF FirstWord
<1>8. \A i \in 1 .. 4 : \A irq : Answer(c, i, irq) = IF i = 4 THEN <<"copy">> ELSE <<>>
  BY <1>1, <1>2 DEF Answer, Effect
<1>9. 1 \in 1 .. Count(c) /\ 2 \in 1 .. Count(c) /\ 3 \in 1 .. Count(c) /\ 4 \in 1 .. Count(c)
  BY <1>2
<1> HIDE DEF c, s
<1>10. Fed(Fresh, g1, c, 1)
  BY <1>1, <1>3, <1>5, <1>6, <1>7, <1>9, FeedWord
<1> HIDE DEF g1
<1>11. g1 \in Parsers /\ InWord(g1, c, 2) /\ g1.out = <<>> /\ (g1.ready <=> g1.read > 0) /\ g1.page = Fresh.page /\ g1.e1 = Fresh.e1
  <2>1. 1 + 1 = 2 /\ 1 # Count(c) /\ Answer(c, 1, Fresh.irq) = <<>>
    BY <1>2, <1>8
  <2> QED BY <1>1, <1>10, <2>1 DEF Fed, Stepped
<1>12. Fed(g1, g2, c, 2)
  BY <1>1, <1>5, <1>7, <1>9, <1>11, FeedWord
<1> HIDE DEF g2
<1>13. g2 \in Parsers /\ InWord(g2, c, 3) /\ g2.out = <<>> /\ (g2.ready <=> g2.read > 0) /\ g2.page = Fresh.page /\ g2.e1 = Fresh.e1
  <2>1. 2 + 1 = 3 /\ 2 # Count(c) /\ Answer(c, 2, g1.irq) = <<>>
    BY <1>2, <1>8
  <2> QED BY <1>1, <1>11, <1>12, <2>1 DEF Fed, Stepped
<1>14. Fed(g2, g3, c, 3)
  BY <1>1, <1>5, <1>7, <1>9, <1>13, FeedWord
<1> HIDE DEF g3
<1>15. g3 \in Parsers /\ InWord(g3, c, 4) /\ g3.out = <<>> /\ (g3.ready <=> g3.read > 0) /\ g3.page = Fresh.page /\ g3.e1 = Fresh.e1
  <2>1. 3 + 1 = 4 /\ 3 # Count(c) /\ Answer(c, 3, g2.irq) = <<>>
    BY <1>2, <1>8
  <2> QED BY <1>1, <1>13, <1>14, <2>1 DEF Fed, Stepped
<1>16. Fed(g3, h, c, 4)
  BY <1>1, <1>5, <1>7, <1>9, <1>15, FeedWord
<1>17. Consume(4, h)
  BY DEF h, g3, g2, g1
<1> HIDE DEF h
<1>18. Stepped(Fresh, h, c, 4) /\ h.out = <<"copy">>
  <2>1. Answer(c, 4, g3.irq) = <<"copy">>
    BY <1>8
  <2> QED BY <1>1, <1>15, <1>16, <2>1 DEF Fed, Stepped
<1>19. Expected(SubSeq(blk, 1, 4)) = <<"copy">>
  <2>1. Taken(SubSeq(blk, 1, 4), blk, 4)
    BY <1>5, TakenIs, BlockIs
  <2>2. Taken(SubSeq(blk, 1, 4), s, 4)
    BY <1>1, <1>4, <1>5, <2>1 DEF Taken
  <2>3. /\ Turn(s, 4) /\ s[1].pos = 1 /\ 4 = Count(s[1].own) /\ s[1].own.op \in {"poly", "fill", "copy"}
        /\ s[1].own.op = "copy"
    BY <1>1, <1>2, <1>4, <1>5 DEF Turn, c
  <2>4. Expected(SubSeq(blk, 1, 4)) = <<s[1].own.op>>
    BY <1>4, <2>2, <2>3, ExpectedDraw
  <2> QED BY <2>3, <2>4
<1>20. blk[4].pos = 4
  <2>1. blk[4] = WordOf(c, 4)
    BY <1>1, <1>2, <1>5
  <2> QED BY <2>1, WordFields
<1> QED BY <1>1, <1>2, <1>5, <1>17, <1>18, <1>19, <1>20, TakeFromBlock DEF c

LEMMA SizeIs ==
  ASSUME GpuIInv, blk # <<>>, blk[1].x.op = "load", Fits(3)
  PROVE  /\ ImageWords(Raw(3)) = PixelWords(blk[1].own)
         /\ feed \in Lists => ListImageWords(Raw(3)) = PixelWords(blk[1].own)
<1> DEFINE c == blk[1].own
<1>1. /\ c \in GpuCommands /\ c.op = "load" /\ Len(blk) \in Nat \ {0}
      /\ \A i \in 1 .. Count(c) : i <= Len(blk) => blk[i] = WordOf(c, i)
  BY FirstIs
<1>2. 3 \in 1 .. Count(c) /\ 1 \in 1 .. Len(blk)
  BY <1>1, PrefixIs
<1> HIDE DEF c
<1>3. Raw(3) = WordOf(c, 3).x
  BY <1>1, <1>2 DEF Raw, Fits
<1>4. ImageWords(WordOf(c, 3).x) = PixelWords(c)
  BY <1>1, <1>2, XIs
<1>5. ListImageWords(WordOf(c, 3).x) = ListImageWords(c)
  <2>1. WordOf(c, 3).x = Body(c)[2]
    BY WordFields
  <2>2. Body(c)[2] = Sized(c)
    BY <1>1, BodyIs DEF IsBody
  <2>3. Sized(c).w = c.w /\ Sized(c).h = c.h
    BY DEF Sized, Word
  <2> QED BY <2>1, <2>2, <2>3 DEF ListImageWords
<1>6. feed \in Lists => ListImageWords(c) = PixelWords(c)
  <2>1. feed \in Lists => \A i \in 1 .. Len(blk) : blk[i].own.op = "load" => ListImageWords(blk[i].own) = PixelWords(blk[i].own)
    BY DEF GpuIInv, Cut
  <2> QED BY <1>1, <1>2, <2>1 DEF c
<1> QED BY <1>3, <1>4, <1>5, <1>6 DEF c

(* One turn of GPU_ProcessDmaBlock.                                        *)
LEMMA BlockKeeps ==
  ASSUME GpuIInv, GPU_ProcessDmaBlock
  PROVE  GpuIInv'
<1> DEFINE op == blk[1].x.op
<1>1. feed = "block" /\ blk # <<>> /\ Frame
  BY DEF GPU_ProcessDmaBlock, Frame
<1>2. CASE Feed1
  BY <1>1, <1>2, Feed1Keeps
<1>3. CASE op = "load" /\ Fits(3) /\ Fits(3 + ImageWords(Raw(3))) /\ Upload(ImageWords(Raw(3)))
  <2>1. ImageWords(Raw(3)) = PixelWords(blk[1].own)
    BY <1>1, <1>3, SizeIs
  <2> QED BY <1>1, <1>3, <2>1, UploadKeeps DEF Fits
<1>4. CASE op \in {"poly", "fill"} /\ Draw /\ Fits(PolyWords)
  BY <1>1, <1>4, GpuConstants, DrawFastKeeps DEF Fits
<1>5. CASE op = "poly" /\ Draw
  <2>1. rest # <<>> => rest[1].own.op # "poly"
    BY <1>1 DEF GpuIInv, Cut
  <2>2. /\ blk[1].own.op = "poly"
        /\ Count(blk[1].own) <= Len(blk) \/ (rest # <<>> /\ rest[1].own = blk[1].own)
    BY <1>1, <1>5, FirstIs
  <2>3. 3 <= Len(blk)
    BY <2>1, <2>2 DEF Count
  <2> QED BY <1>1, <1>5, <2>3, DrawFastKeeps
<1> QED BY <1>2, <1>3, <1>4, <1>5 DEF GPU_ProcessDmaBlock

(* A word of a packet, or one turn of the list's dispatcher.               *)
LEMMA ListKeeps ==
  ASSUME GpuIInv, ListWord \/ ListDispatch
  PROVE  GpuIInv'
<1> DEFINE op == blk[1].x.op
<1>1. feed \in Lists /\ blk # <<>> /\ Frame
  BY DEF ListWord, ListDispatch, Frame, Lists
<1>2. CASE Feed1
  BY <1>1, <1>2, Feed1Keeps
<1>3. op # "nop" => \/ 3 <= Len(blk) /\ Count(blk[1].own) <= Len(blk)
                    \/ op \notin {"poly", "fill", "load"}
  <2> SUFFICES ASSUME op \in {"poly", "fill", "load"} PROVE 3 <= Len(blk) /\ Count(blk[1].own) <= Len(blk)
    OBVIOUS
  <2>1. rest # <<>> => rest[1].own.op = "line"
    BY <1>1 DEF GpuIInv, Cut
  <2>2. /\ blk[1].own.op = op /\ blk[1].own \in GpuCommands /\ Len(blk) \in Nat
        /\ Count(blk[1].own) <= Len(blk) \/ (rest # <<>> /\ rest[1].own = blk[1].own)
    BY <1>1, FirstIs
  <2>3. 3 <= Count(blk[1].own) /\ Count(blk[1].own) \in Nat
    BY <2>2, PrefixIs
  <2> QED BY <2>1, <2>2, <2>3
<1>4. CASE op = "load" /\ Fits(3 + ListImageWords(Raw(3))) /\ Upload(ListImageWords(Raw(3)))
  <2>1. Fits(3) /\ Count(blk[1].own) <= Len(blk)
    BY <1>3, <1>4 DEF Fits
  <2>2. ListImageWords(Raw(3)) = PixelWords(blk[1].own)
    BY <1>1, <1>4, <2>1, SizeIs
  <2>3. blk[1].own \in GpuCommands /\ blk[1].own.op = "load"
    BY <1>1, <1>4, FirstIs
  <2>4. 3 + PixelWords(blk[1].own) <= Len(blk)
    BY <2>1, <2>3, PrefixIs
  <2> QED BY <1>1, <1>4, <2>2, <2>4, UploadKeeps
<1>5. CASE op \in {"poly", "fill"} /\ Draw
  BY <1>1, <1>3, <1>5, DrawFastKeeps
<1>6. CASE /\ op = "copy" /\ Fits(4)
           /\ Consume(4, GPU_WriteGP0(GPU_WriteGP0(GPU_WriteGP0(GPU_WriteGP0(Fresh, Raw(1)), Raw(2)), Raw(3)), Raw(4)))
  BY <1>1, <1>6, CopyKeeps
<1>7. ListWord => Feed1
  BY DEF ListWord
<1> HIDE DEF op
<1>8. ListDispatch =>
        \/ Feed1
        \/ op = "load" /\ Fits(3 + ListImageWords(Raw(3))) /\ Upload(ListImageWords(Raw(3)))
        \/ op \in {"poly", "fill"} /\ Draw
        \/ /\ op = "copy" /\ Fits(4)
           /\ Consume(4, GPU_WriteGP0(GPU_WriteGP0(GPU_WriteGP0(GPU_WriteGP0(Fresh, Raw(1)), Raw(2)), Raw(3)), Raw(4)))
  BY DEF ListDispatch, op
<1> QED BY <1>2, <1>4, <1>5, <1>6, <1>7, <1>8

-----------------------------------------------------------------------------
(* Words sent: a whole command behind what is left of another.             *)
InForce(g, a) == IF a # <<>> /\ a[1].own.op = "poly" THEN a[1].own.page ELSE g.page

LEMMA NothingPending ==
  Chain(<<>>) /\ AtMostTwo(<<>>) /\ \A g : EnvOK(g, <<>>)
<1>1. Len(<<>>) = 0 /\ <<>> \in Seq(StreamWords)
  BY EmptySeq
<1> QED BY <1>1 DEF Chain, AtMostTwo, EnvOK

LEMMA SendCommand ==
  ASSUME NEW g, NEW a, Pending(g, a), \A i \in 2 .. Len(a) : a[i].pos # 1, NEW d \in GpuCommands,
         d.op = "env" /\ g.e1 = <<d.page>> /\ (a # <<>> => a[1].own.op # "env") => InForce(g, a) = d.page
  PROVE  /\ Pending(g, a \o CommandWords(d)) /\ a \o CommandWords(d) # <<>>
         /\ JoinedTo(a, CommandWords(d), a \o CommandWords(d))
         /\ \A i \in Len(a) + 2 .. Len(a \o CommandWords(d)) : (a \o CommandWords(d))[i].pos # 1
<1> DEFINE w == CommandWords(d)
           u == a \o w
<1>1. /\ Chain(w) /\ Len(w) = Count(d) /\ Count(d) \in Nat \ {0}
      /\ \A p \in 1 .. Count(d) : w[p] = WordOf(d, p)
  BY ChainCommand
<1>2. Chain(a) /\ a \in Seq(StreamWords) /\ w \in Seq(StreamWords) /\ AtMostTwo(a) /\ At(g, a) /\ EnvOK(g, a)
  BY <1>1 DEF Pending, Chain
<1> HIDE DEF w
<1>3. JoinedTo(a, w, u)
  BY <1>2, JoinIs
<1>4. w[1].pos = 1
  BY <1>1, WordFields
<1>5. Chain(u)
  BY <1>1, <1>2, <1>4, ChainConcat
<1> HIDE DEF u
<1>6. /\ u \in Seq(StreamWords) /\ Len(u) = Len(a) + Count(d) /\ Len(a) \in Nat /\ Len(u) \in Nat
      /\ (\A i \in 1 .. Len(a) : u[i] = a[i])
      /\ \A i \in 1 .. Count(d) : u[Len(a) + i] = WordOf(d, i)
  BY <1>1, <1>3 DEF JoinedTo
<1>7. u # <<>>
  BY <1>1, <1>6, EmptySeq
<1>8. ASSUME NEW i \in 1 .. Len(u), i > Len(a) PROVE u[i].own = d /\ u[i].pos = i - Len(a)
  <2>1. i - Len(a) \in 1 .. Count(d) /\ Len(a) + (i - Len(a)) = i
    BY <1>1, <1>6, <1>8
  <2>2. u[i] = WordOf(d, i - Len(a))
    BY <1>6, <2>1
  <2> QED BY <2>2, WordFields
<1>9. \A i \in Len(a) + 2 .. Len(u) : u[i].pos # 1
  <2> TAKE i \in Len(a) + 2 .. Len(u)
  <2>1. i \in 1 .. Len(u) /\ i > Len(a) /\ i - Len(a) # 1
    BY <1>6
  <2> QED BY <1>8, <2>1
<1>10. \A i \in 2 .. Len(u) : u[i].pos = 1 => i = Len(a) + 1
  <2> TAKE i \in 2 .. Len(u)
  <2>1. CASE i <= Len(a)
    BY <1>6, <2>1
  <2>2. CASE i > Len(a)
    <3>1. i = Len(a) + 1 \/ i \in Len(a) + 2 .. Len(u)
      BY <1>6, <2>2
    <3> QED BY <1>9, <3>1
  <2> QED BY <1>6, <2>1, <2>2
<1>11. AtMostTwo(u)
  BY <1>10 DEF AtMostTwo
<1>12. a # <<>> => 1 \in 1 .. Len(a) /\ u[1] = a[1]
  BY <1>2, <1>6, EmptySeq
<1>13. a = <<>> => Len(a) = 0
  BY EmptySeq
<1>14. At(g, u)
  <2>1. CASE a = <<>>
    <3>1. u[1].pos = 1
      BY <1>1, <1>6, <1>8, <1>13, <2>1
    <3> QED BY <1>2, <1>7, <2>1, <3>1 DEF At, InWord
  <2>2. CASE a # <<>>
    BY <1>2, <1>7, <1>12, <2>2 DEF At
  <2> QED BY <2>1, <2>2
<1>15. EnvOK(g, u)
  <2> SUFFICES ASSUME NEW i \in 1 .. Len(u), u[i].own.op = "env", g.e1 = <<u[i].own.page>>, i # 1 => u[1].own.op # "env"
               PROVE  PageFor(g, u, i) = u[i].own.page
    BY DEF EnvOK
  <2>1. u[i].pos = 1
    <3>1. u[i] \in StreamWords
      BY <1>6
    <3>2. u[i].pos \in 1 .. Count(u[i].own) /\ u[i].own \in GpuCommands
      BY <3>1, WordIs
    <3>3. Count(u[i].own) = 1
      BY <3>2, PrefixIs
    <3> QED BY <3>2, <3>3
  <2>2. i = 1 \/ i = Len(a) + 1
    <3>1. i \in 2 .. Len(u) \/ i = 1
      BY <1>6
    <3> QED BY <1>10, <2>1, <3>1
  <2>3. CASE i <= Len(a)
    <3>1. i = 1 /\ a # <<>> /\ u[1] = a[1] /\ 1 \in 1 .. Len(a)
      BY <1>6, <1>12, <1>13, <2>2, <2>3
    <3>2. PageFor(g, a, 1) = a[1].own.page
      BY <1>2, <3>1 DEF EnvOK
    <3> QED BY <3>1, <3>2 DEF PageFor
  <2>4. CASE i > Len(a)
    <3>1. u[i].own = d
      BY <1>8, <2>4
    <3>2. CASE a = <<>>
      <4>1. i = 1
        BY <1>13, <2>2, <3>2
      <4> QED BY <3>1, <3>2, <4>1 DEF PageFor, InForce
    <3>3. CASE a # <<>>
      <4>1. i # 1 /\ u[1] = a[1]
        BY <1>6, <1>12, <2>4, <3>3
      <4> QED BY <3>1, <3>3, <4>1 DEF PageFor, InForce
    <3> QED BY <3>2, <3>3
  <2> QED BY <1>6, <2>3, <2>4
<1>16. Pending(g, u)
  BY <1>5, <1>11, <1>14, <1>15 DEF Pending
<1> QED BY <1>3, <1>7, <1>9, <1>16 DEF u, w

(* What the guest has left over when a transfer begins.                    *)
LEMMA BetweenTransfers ==
  ASSUME GpuIInv, blk = <<>>
  PROVE  /\ Pending(gpu, rest) /\ Pending(Fresh, rest) /\ rest \in Seq(StreamWords) /\ Len(rest) \in Nat
         /\ \A i \in 1 .. Len(rest) : rest[i].pos # 1
         /\ Fresh.out = <<>> /\ Fresh.irq = gpu.irq /\ Fresh.page = want /\ Fresh.e1 = gpu.e1
<1>1. rest \in Seq(StreamWords)
  BY DEF GpuIInv, Cut
<1>2. blk \o rest = rest
  BY <1>1, ConcatEmptySeq
<1>3. Pending(gpu, rest)
  BY <1>2 DEF GpuIInv
<1>4. Pending(Fresh, rest) /\ Fresh.out = <<>> /\ Fresh.irq = gpu.irq /\ Fresh.page = gpu.page /\ Fresh.e1 = gpu.e1
  BY <1>3, FreshPending
<1> QED BY <1>1, <1>3, <1>4 DEF GpuIInv, Cut

(* What is sent, with the last command's words behind its first uncut.     *)
StreamOf(cs, s) ==
  /\ Pending(Fresh, s) /\ s \in Seq(StreamWords) /\ Len(s) \in Nat
  /\ LET final == IF cs = <<>> THEN rest ELSE CommandWords(Last(cs))
     IN Len(final) \in 0 .. Len(s) /\ \A i \in Len(s) - Len(final) + 2 .. Len(s) : s[i].pos # 1

LEMMA SentOne ==
  ASSUME GpuIInv, blk = <<>>, NEW c \in GpuCommands, ~SkippedE1(<<c>>)
  PROVE  StreamOf(<<c>>, rest \o CommandWords(c)) /\ rest \o CommandWords(c) # <<>>
<1> DEFINE w == CommandWords(c)
           s == rest \o w
<1>1. /\ Pending(Fresh, rest) /\ rest \in Seq(StreamWords) /\ Len(rest) \in Nat /\ \A i \in 1 .. Len(rest) : rest[i].pos # 1
      /\ Fresh.page = want /\ Fresh.e1 = gpu.e1
  BY BetweenTransfers
<1>2. c.op = "env" /\ Fresh.e1 = <<c.page>> /\ (rest # <<>> => rest[1].own.op # "env") => InForce(Fresh, rest) = c.page
  <2>1. 1 \in DOMAIN <<c>> /\ <<c>>[1] = c /\ ~(1 > 1)
    OBVIOUS
  <2>2. CASE rest = <<>>
    BY <1>1, <2>1, <2>2 DEF SkippedE1, InForce
  <2>3. CASE rest # <<>>
    <3> DEFINE o == rest[1].own
    <3>1. <<o>> # <<>> /\ <<o>>[1] = o
      OBVIOUS
    <3>2. c.op = "env" /\ o.op # "env" /\ gpu.e1 = <<c.page>> => (IF o.op = "poly" THEN o.page ELSE want) = c.page
      BY <2>1, <2>3 DEF SkippedE1
    <3> QED BY <1>1, <2>3, <3>2 DEF InForce
  <2> QED BY <2>2, <2>3
<1>3. \A i \in 2 .. Len(rest) : rest[i].pos # 1
  BY <1>1
<1>4. /\ Pending(Fresh, s) /\ s # <<>> /\ JoinedTo(rest, w, s)
      /\ \A i \in Len(rest) + 2 .. Len(s) : s[i].pos # 1
  BY <1>1, <1>2, <1>3, SendCommand
<1>5. Last(<<c>>) = c /\ <<c>> # <<>>
  BY DEF Last
<1> HIDE DEF s, w
<1>6. s \in Seq(StreamWords) /\ Len(s) \in Nat /\ Len(w) \in 0 .. Len(s) /\ Len(s) - Len(w) = Len(rest)
  BY <1>4 DEF JoinedTo
<1> QED BY <1>4, <1>5, <1>6 DEF StreamOf, s, w

LEMMA SentTwo ==
  ASSUME GpuIInv, blk = <<>>, rest = <<>>, NEW c \in GpuCommands, NEW d \in GpuCommands, ~SkippedE1(<<c, d>>)
  PROVE  StreamOf(<<c, d>>, CommandWords(c) \o CommandWords(d))
<1> DEFINE a == CommandWords(c)
           w == CommandWords(d)
           s == a \o w
<1>1. /\ Pending(Fresh, rest) /\ Fresh.page = want /\ Fresh.e1 = gpu.e1
  BY BetweenTransfers
<1>2. /\ <<c, d>>[1] = c /\ <<c, d>>[2] = d /\ 1 \in DOMAIN <<c, d>> /\ 2 \in DOMAIN <<c, d>> /\ ~(1 > 1) /\ 2 > 1
      /\ <<c, d>>[2 - 1] = c /\ <<c>> # <<>> /\ <<c>>[1] = c
  OBVIOUS
<1>3. c.op = "env" /\ Fresh.e1 = <<c.page>> => Fresh.page = c.page
  BY <1>1, <1>2 DEF SkippedE1
<1>4. d.op = "env" /\ Fresh.e1 = <<d.page>> /\ c.op # "env" => (IF c.op = "poly" THEN c.page ELSE Fresh.page) = d.page
  BY <1>1, <1>2 DEF SkippedE1
<1>5. Pending(Fresh, a) /\ a # <<>> /\ a[1].own = c /\ \A i \in 2 .. Len(a) : a[i].pos # 1
  <2>1. \A i \in 2 .. Len(<<>>) : <<>>[i].pos # 1
    BY EmptySeq
  <2>2. Pending(Fresh, <<>>)
    BY <1>1
  <2>3. /\ Pending(Fresh, <<>> \o a) /\ <<>> \o a # <<>>
        /\ \A i \in Len(<<>>) + 2 .. Len(<<>> \o a) : (<<>> \o a)[i].pos # 1
    <3>1. c.op = "env" /\ Fresh.e1 = <<c.page>> /\ (<<>> # <<>> => <<>>[1].own.op # "env") => InForce(Fresh, <<>>) = c.page
      BY <1>3 DEF InForce
    <3> QED BY <2>1, <2>2, <3>1, SendCommand
  <2>4. Chain(a) /\ Len(a) = Count(c) /\ a[1] = WordOf(c, 1)
    BY ChainCommand
  <2>5. <<>> \o a = a /\ Len(<<>>) + 2 = 2
    BY <2>4, ConcatEmptySeq, EmptySeq DEF Chain
  <2>6. a[1].own = c
    BY <2>4, WordFields
  <2> HIDE DEF a
  <2> QED BY <2>3, <2>5, <2>6
<1>6. d.op = "env" /\ Fresh.e1 = <<d.page>> /\ (a # <<>> => a[1].own.op # "env") => InForce(Fresh, a) = d.page
  BY <1>4, <1>5 DEF InForce
<1> HIDE DEF a
<1>7. /\ Pending(Fresh, s) /\ s # <<>> /\ JoinedTo(a, w, s)
      /\ \A i \in Len(a) + 2 .. Len(s) : s[i].pos # 1
  BY <1>5, <1>6, SendCommand
<1>8. Last(<<c, d>>) = d /\ <<c, d>> # <<>>
  BY DEF Last
<1> HIDE DEF s, w
<1>9. s \in Seq(StreamWords) /\ Len(s) \in Nat /\ Len(w) \in 0 .. Len(s) /\ Len(s) - Len(w) = Len(a)
  BY <1>7 DEF JoinedTo
<1> QED BY <1>7, <1>8, <1>9 DEF StreamOf, s, w, a

LEMMA SentIs ==
  ASSUME GpuIInv, blk = <<>>, NEW cs \in Streams, ~SkippedE1(cs)
  PROVE  StreamOf(cs, rest \o FlattenSeq([i \in 1 .. Len(cs) |-> CommandWords(cs[i])]))
<1> DEFINE ss == [i \in 1 .. Len(cs) |-> CommandWords(cs[i])]
<1>1. /\ Pending(Fresh, rest) /\ rest \in Seq(StreamWords) /\ Len(rest) \in Nat /\ \A i \in 1 .. Len(rest) : rest[i].pos # 1
  BY BetweenTransfers
<1>2. CASE cs = <<>>
  <2>1. Len(cs) = 0
    BY <1>2
  <2>2. ss = <<>> /\ Len(ss) = 0
    BY <2>1
  <2>3. FlattenSeq(ss) = <<>>
    BY <2>2 DEF FlattenSeq
  <2>4. rest \o <<>> = rest
    BY <1>1, ConcatEmptySeq
  <2>5. Len(rest) \in 0 .. Len(rest) /\ \A i \in Len(rest) - Len(rest) + 2 .. Len(rest) : rest[i].pos # 1
    BY <1>1
  <2> HIDE DEF ss
  <2> QED BY <1>1, <1>2, <2>3, <2>4, <2>5 DEF StreamOf, ss
<1>3. ASSUME NEW c \in GpuCommands, cs = <<c>> PROVE StreamOf(cs, rest \o FlattenSeq(ss))
  <2>1. Len(cs) = 1 /\ cs[1] = c
    BY <1>3
  <2>2. Len(ss) = 1 /\ ss[1] = CommandWords(c)
    BY <2>1
  <2> HIDE DEF ss
  <2>3. FlattenSeq(ss) = CommandWords(c)
    BY <2>2, FlattenOne
  <2> QED BY <1>3, <2>3, SentOne
<1>4. ASSUME NEW c \in GpuCommands, NEW d \in GpuCommands, cs = <<c, d>>, rest = <<>>
      PROVE StreamOf(cs, rest \o FlattenSeq(ss))
  <2>1. Len(cs) = 2 /\ cs[1] = c /\ cs[2] = d
    BY <1>4
  <2>2. Len(ss) = 2 /\ ss[1] = CommandWords(c) /\ ss[2] = CommandWords(d)
    BY <2>1
  <2> HIDE DEF ss
  <2>3. FlattenSeq(ss) = CommandWords(c) \o CommandWords(d)
    BY <2>2, FlattenTwo
  <2>4. CommandWords(c) \o CommandWords(d) \in Seq(StreamWords)
    <3>1. CommandWords(c) \in Seq(StreamWords) /\ CommandWords(d) \in Seq(StreamWords)
      BY ChainCommand DEF Chain
    <3> QED BY <3>1, ConcatProperties
  <2>5. <<>> \o (CommandWords(c) \o CommandWords(d)) = CommandWords(c) \o CommandWords(d)
    BY <2>4, ConcatEmptySeq
  <2> QED BY <1>4, <2>3, <2>5, SentTwo
<1> QED BY <1>2, <1>3, <1>4 DEF Streams

(* A transfer begins: the stream is cut into what is sent and the rest.    *)
LEMMA SendKeeps ==
  ASSUME GpuShown = {}, GpuIInv, blk = <<>>, NEW list \in BOOLEAN, Send(list),
         feed' \in (IF list THEN Lists ELSE {"block"}), packets' \in 0 .. MaxPackets
  PROVE  GpuIInv'
<1>1. PICK cs \in Streams :
        LET s == rest \o FlattenSeq([i \in 1..Len(cs) |-> CommandWords(cs[i])])
            final == IF cs = <<>> THEN rest ELSE CommandWords(Last(cs))
        IN /\ SkippedE1(cs) => "e1" \in GpuShown
           /\ list /\ Miscounted(s) => "size" \in GpuShown
           /\ \E n \in (Len(s) - Len(final) + 1)..Len(s) :
                /\ n < Len(s) => CutKept(list, s[n + 1]) \/ "split" \in GpuShown
                /\ blk' = SubSeq(s, 1, n)
                /\ rest' = SubSeq(s, n + 1, Len(s))
                /\ gpu' = Fresh /\ due' = <<>> /\ UNCHANGED want
  BY DEF Send
<1> DEFINE s == rest \o FlattenSeq([i \in 1..Len(cs) |-> CommandWords(cs[i])])
           final == IF cs = <<>> THEN rest ELSE CommandWords(Last(cs))
<1>2. PICK n \in (Len(s) - Len(final) + 1)..Len(s) :
        /\ n < Len(s) => CutKept(list, s[n + 1])
        /\ blk' = SubSeq(s, 1, n)
        /\ rest' = SubSeq(s, n + 1, Len(s))
        /\ gpu' = Fresh /\ due' = <<>> /\ want' = want
  BY <1>1
<1>3. ~SkippedE1(cs) /\ (list => ~Miscounted(s))
  BY <1>1
<1>4. StreamOf(cs, s)
  BY <1>3, SentIs
<1>5. Fresh.out = <<>> /\ Fresh.page = want
  BY BetweenTransfers
<1> HIDE DEF s
<1>6. /\ Pending(Fresh, s) /\ s \in Seq(StreamWords) /\ Len(s) \in Nat /\ Len(final) \in 0 .. Len(s)
      /\ \A i \in Len(s) - Len(final) + 2 .. Len(s) : s[i].pos # 1
  BY <1>4 DEF StreamOf
<1> HIDE DEF final
<1>7. n \in 0 .. Len(s) /\ n \in Nat /\ n >= Len(s) - Len(final) + 1
  BY <1>6
<1> DEFINE b == SubSeq(s, 1, n)
           r == SubSeq(s, n + 1, Len(s))
<1>8. r \in Seq(StreamWords) /\ Len(r) = Len(s) - n /\ \A i \in 1 .. Len(s) - n : r[i] = s[i + n]
  BY <1>6, <1>7, DropIs
<1>9. b \in Seq(StreamWords) /\ Len(b) = n /\ \A i \in 1 .. n : b[i] = s[i] /\ i \in 1 .. Len(s)
  <2>1. \A i \in 1 .. n : s[i] \in StreamWords
    BY <1>6, <1>7
  <2>2. /\ b \in Seq(StreamWords) /\ Len(b) = IF 1 <= n THEN n - 1 + 1 ELSE 0
        /\ \A i \in 1 .. n - 1 + 1 : b[i] = s[1 + i - 1]
    BY <1>7, <2>1, SubSeqProperties
  <2>3. (IF 1 <= n THEN n - 1 + 1 ELSE 0) = n /\ n - 1 + 1 = n /\ \A i \in 1 .. n : 1 + i - 1 = i /\ i \in 1 .. Len(s)
    BY <1>6, <1>7
  <2> HIDE DEF b
  <2> QED BY <2>2, <2>3
<1>10. b \o r = s
  <2>1. 1 \in 1 .. Len(s) + 1 /\ n \in 1 - 1 .. Len(s) /\ Len(s) \in n .. Len(s)
    BY <1>6, <1>7
  <2>2. SubSeq(s, 1, n) \o SubSeq(s, n + 1, Len(s)) = SubSeq(s, 1, Len(s))
    BY <1>6, <2>1, ConcatAdjacentSubSeq
  <2>3. SubSeq(s, 1, Len(s)) = s
    BY <1>6, SubSeqFull
  <2> QED BY <2>2, <2>3
<1> HIDE DEF b, r
<1>11. \A i \in 1 .. Len(r) : r[i].pos # 1
  <2> TAKE i \in 1 .. Len(r)
  <2>1. i + n \in Len(s) - Len(final) + 2 .. Len(s) /\ i \in 1 .. Len(s) - n
    BY <1>6, <1>7, <1>8
  <2> QED BY <1>6, <1>8, <2>1
<1>12. r # <<>> => CutKept(list, r[1])
  <2> SUFFICES ASSUME r # <<>> PROVE CutKept(list, r[1])
    OBVIOUS
  <2>1. 1 \in 1 .. Len(r) /\ Len(r) \in Nat
    BY <1>8, EmptySeq
  <2>2. n < Len(s) /\ 1 \in 1 .. Len(s) - n /\ 1 + n = n + 1
    BY <1>6, <1>7, <1>8, <2>1
  <2> QED BY <1>2, <1>8, <2>2
<1>13. list => \A i \in 1 .. Len(b) : b[i].own.op = "load" => ListImageWords(b[i].own) = PixelWords(b[i].own)
  <2>1. DOMAIN s = 1 .. Len(s)
    BY <1>6
  <2> QED BY <1>3, <1>9, <2>1 DEF Miscounted
<1>14. Cut(feed', b, r)
  <2>1. list => feed' \in Lists
    OBVIOUS
  <2>2. ~list => feed' = "block"
    OBVIOUS
  <2> QED BY <1>8, <1>9, <1>11, <1>12, <1>13, <2>1, <2>2 DEF Cut, CutKept, Lists
<1>15. blk' = b /\ rest' = r
  BY <1>2 DEF b, r
<1> QED BY <1>2, <1>5, <1>6, <1>10, <1>14, <1>15 DEF GpuIInv

LEMMA CpuKeeps ==
  ASSUME GpuShown = {}, GpuIInv, CpuWord
  PROVE  GpuIInv'
<1>1. feed = "cpu" /\ blk = <<>> /\ feed' = feed /\ blk' = blk /\ packets' = packets
  BY DEF CpuWord, GpuIInv, Cut
<1>2. PICK c \in GpuCommands :
        /\ rest = <<>> /\ SkippedE1(<<c>>) => "e1" \in GpuShown
        /\ LET s == IF rest # <<>> THEN rest ELSE CommandWords(c)
           IN Consumed(<<s[1]>>, GPU_WriteGP0(Fresh, s[1].x)) /\ rest' = Tail(s)
  BY DEF CpuWord
<1> DEFINE s == IF rest # <<>> THEN rest ELSE CommandWords(c)
           h == GPU_WriteGP0(Fresh, s[1].x)
           ws == <<s[1]>>
<1>3. gpu' = h /\ due' = Expected(ws) /\ want' = Commanded(ws) /\ rest' = Tail(s)
  BY <1>2 DEF Consumed
<1>4. /\ Pending(Fresh, rest) /\ rest \in Seq(StreamWords) /\ Len(rest) \in Nat /\ \A i \in 1 .. Len(rest) : rest[i].pos # 1
      /\ Fresh.out = <<>> /\ Fresh.irq = gpu.irq /\ Fresh.page = want /\ Fresh.e1 = gpu.e1
  BY <1>1, BetweenTransfers
<1>5. Pending(Fresh, s) /\ s # <<>> /\ \A i \in 2 .. Len(s) : s[i].pos # 1
  <2>1. CASE rest # <<>>
    <3>1. s = rest
      BY <2>1
    <3> QED BY <1>4, <2>1, <3>1
  <2>2. CASE rest = <<>>
    <3>1. s = CommandWords(c) /\ ~SkippedE1(<<c>>)
      BY <1>2, <2>2
    <3>2. Chain(s) /\ Len(s) = Count(c) /\ \A p \in 1 .. Count(c) : s[p] = WordOf(c, p)
      BY <3>1, ChainCommand
    <3> HIDE DEF s
    <3>3. rest \o s = s
      BY <2>2, <3>2, ConcatEmptySeq DEF Chain
    <3>4. StreamOf(<<c>>, s) /\ s # <<>>
      BY <1>1, <3>1, <3>3, SentOne
    <3>5. \A i \in 2 .. Len(s) : s[i].pos # 1
      <4> TAKE i \in 2 .. Len(s)
      <4>1. i \in 1 .. Count(c) /\ Count(c) \in Nat
        BY <3>2, CommandIs
      <4> QED BY <3>2, <4>1, WordFields
    <3> QED BY <3>4, <3>5 DEF StreamOf
  <2> QED BY <2>1, <2>2
<1> HIDE DEF s
<1>6. Chain(s) /\ s \in Seq(StreamWords) /\ 1 \in 1 .. Len(s) /\ Len(s) \in Nat
  BY <1>5, EmptySeq DEF Pending, Chain
<1> DEFINE cc == s[1].own
           p == s[1].pos
<1>7. s[1] \in StreamWords /\ cc \in GpuCommands /\ p \in 1 .. Count(cc) /\ s[1] = WordOf(cc, p)
  BY <1>6, WordIs
<1>8. Fresh \in Parsers /\ InWord(Fresh, cc, p) /\ (Fresh.ready <=> Fresh.read > 0)
  BY <1>5 DEF Pending, At
<1>9. FirstWord(Fresh, cc)
  <2>1. cc.op = "env" /\ Fresh.e1 = <<cc.page>> => PageFor(Fresh, s, 1) = cc.page
    BY <1>5, <1>6 DEF Pending, EnvOK
  <2> QED BY <2>1 DEF FirstWord, PageFor
<1>10. Fed(Fresh, h, cc, p)
  <2>1. Fed(Fresh, GPU_WriteGP0(Fresh, WordOf(cc, p).x), cc, p)
    <3> HIDE DEF cc, p
    <3> QED BY <1>4, <1>7, <1>8, <1>9, FeedWord
  <2> QED BY <1>7, <2>1
<1>11. Turn(s, 1) /\ Taken(ws, s, 1)
  BY <1>6 DEF Turn, Taken
<1> HIDE DEF h, ws
<1>12. Expected(ws) = h.out
  <2>1. Expected(ws) = Answer(cc, p, gpu.irq)
    BY <1>5, <1>6, <1>11, ExpectedOne
  <2> QED BY <1>4, <1>10, <2>1 DEF Fed
<1>13. Commanded(ws) = h.page
  <2>1. Commanded(ws) = IF p = Count(cc) /\ cc.op \in {"env", "poly"} THEN cc.page ELSE want
    BY <1>6, <1>11, CommandedTurn
  <2> QED BY <1>4, <1>10, <2>1 DEF Fed, Stepped
<1> DEFINE t == SubSeq(s, 1 + 1, Len(s))
<1>14. Pending(h, t)
  <2>1. Stepped(Fresh, h, s[1].own, s[1].pos)
    BY <1>10 DEF Fed
  <2> QED BY <1>5, <1>11, <2>1, TakeTurn
<1>15. t \in Seq(StreamWords) /\ Len(t) = Len(s) - 1 /\ \A i \in 1 .. Len(s) - 1 : t[i] = s[i + 1]
  <2>1. 1 \in 0 .. Len(s)
    BY <1>6
  <2> QED BY <1>6, <2>1, DropIs
<1>16. rest' = t
  <2>1. Tail(s) \in Seq(StreamWords) /\ Len(Tail(s)) = Len(s) - 1 /\ \A i \in 1 .. Len(Tail(s)) : Tail(s)[i] = s[i + 1]
    BY <1>5, <1>6, HeadTailProperties
  <2> DEFINE v == Tail(s)
  <2> HIDE DEF t, v
  <2>2. v = t
    BY <1>15, <2>1, SeqEqual DEF v
  <2> QED BY <1>3, <2>2 DEF v
<1> HIDE DEF t
<1>17. \A i \in 1 .. Len(t) : t[i].pos # 1
  <2> TAKE i \in 1 .. Len(t)
  <2>1. i + 1 \in 2 .. Len(s) /\ i \in 1 .. Len(s) - 1
    BY <1>6, <1>15
  <2> QED BY <1>5, <1>15, <2>1
<1>18. Cut("cpu", <<>>, t)
  BY <1>15, <1>17 DEF Cut, Lists
<1>19. <<>> \o t = t
  BY <1>15, ConcatEmptySeq
<1>20. Pending(gpu', blk' \o rest') /\ Cut(feed', blk', rest')
  BY <1>1, <1>3, <1>14, <1>16, <1>18, <1>19
<1> QED BY <1>1, <1>3, <1>12, <1>13, <1>20 DEF GpuIInv

(* Registers the stream does not depend on.                                *)
LEMMA SameParser ==
  ASSUME NEW g, NEW s, Pending(g, s), NEW h \in Parsers, h.ready <=> h.read > 0, h.left = g.left, h.xfer = g.xfer,
         h.poly = g.poly, h.buf = g.buf, h.shaded = g.shaded, h.color = g.color, h.e1 = g.e1, h.page = g.page
  PROVE  Pending(h, s)
<1>1. AtRest(g) => AtRest(h)
  BY DEF AtRest
<1>2. \A c, p : InWord(g, c, p) => InWord(h, c, p)
  BY <1>1 DEF InWord, Collecting, Loading, Polyline
<1>3. At(h, s)
  BY <1>1, <1>2 DEF Pending, At
<1>4. EnvOK(h, s)
  BY DEF Pending, EnvOK, PageFor
<1> QED BY <1>3, <1>4 DEF Pending

LEMMA CpuCut ==
  ASSUME NEW r, r \in Seq(StreamWords), \A i \in 1 .. Len(r) : r[i].pos # 1
  PROVE  Cut("cpu", <<>>, r) /\ <<>> \o r = r
BY ConcatEmptySeq DEF Cut, Lists

LEMMA DoneKeeps ==
  ASSUME GpuIInv, DmaDone
  PROVE  GpuIInv'
<1>1. feed' = "cpu" /\ packets' = 0 /\ gpu' = Fresh /\ due' = <<>> /\ blk = <<>> /\ blk' = <<>> /\ rest' = rest /\ want' = want
  BY DEF DmaDone
<1>2. /\ Pending(Fresh, rest) /\ rest \in Seq(StreamWords) /\ Fresh.out = <<>> /\ Fresh.page = want
      /\ \A i \in 1 .. Len(rest) : rest[i].pos # 1
  BY <1>1, BetweenTransfers
<1>3. Cut("cpu", <<>>, rest) /\ <<>> \o rest = rest
  BY <1>2, CpuCut
<1> QED BY <1>1, <1>2, <1>3, GpuConstants DEF GpuIInv

LEMMA ReadKeeps ==
  ASSUME GpuIInv, GPU_Read \/ GP1Ack
  PROVE  GpuIInv'
<1>1. /\ feed = "cpu" /\ blk = <<>> /\ feed' = feed /\ blk' = blk /\ rest' = rest /\ packets' = packets
      /\ want' = want /\ due' = <<>>
  BY DEF GPU_Read, GP1Ack, GpuIInv, Cut
<1>2. /\ Pending(Fresh, rest) /\ rest \in Seq(StreamWords) /\ Fresh.out = <<>> /\ Fresh.page = want
      /\ \A i \in 1 .. Len(rest) : rest[i].pos # 1
  BY <1>1, BetweenTransfers
<1>3. Cut("cpu", <<>>, rest) /\ <<>> \o rest = rest
  BY <1>2, CpuCut
<1>4. Fresh \in Parsers /\ (Fresh.ready <=> Fresh.read > 0) /\ Fresh.read = gpu.read /\ gpu.read \in Nat
  <2>1. Fresh \in Parsers /\ (Fresh.ready <=> Fresh.read > 0) /\ Fresh.read = gpu.read
    BY <1>2, <1>1, BetweenTransfers, FreshPending DEF Pending
  <2> QED BY <2>1 DEF Parsers
<1>5. Pending(gpu', rest) /\ gpu'.out = <<>> /\ gpu'.page = want
  <2>1. CASE GPU_Read
    <3> DEFINE n == gpu.read - 1
               b == gpu.read > 1
               h == [Fresh EXCEPT !.read = n, !.ready = b]
    <3>1. gpu' = h
      BY <1>4, <2>1 DEF GPU_Read
    <3>2. n \in Nat /\ b \in BOOLEAN /\ (b <=> n > 0)
      BY <1>4, <2>1 DEF GPU_Read
    <3> HIDE DEF n, b
    <3>3. /\ h \in Parsers /\ h.read = n /\ h.ready = b /\ h.left = Fresh.left /\ h.xfer = Fresh.xfer
          /\ h.poly = Fresh.poly /\ h.buf = Fresh.buf /\ h.shaded = Fresh.shaded /\ h.color = Fresh.color
          /\ h.e1 = Fresh.e1 /\ h.page = Fresh.page /\ h.out = Fresh.out
      BY <1>4, <3>2 DEF Parsers
    <3> HIDE DEF h
    <3>4. Pending(h, rest)
      BY <1>2, <3>2, <3>3, SameParser
    <3> QED BY <1>2, <3>1, <3>3, <3>4
  <2>2. CASE GP1Ack
    <3> DEFINE h == [Fresh EXCEPT !.irq = FALSE]
    <3>1. gpu' = h
      BY <2>2 DEF GP1Ack
    <3>2. /\ h \in Parsers /\ h.read = Fresh.read /\ h.ready = Fresh.ready /\ h.left = Fresh.left /\ h.xfer = Fresh.xfer
          /\ h.poly = Fresh.poly /\ h.buf = Fresh.buf /\ h.shaded = Fresh.shaded /\ h.color = Fresh.color
          /\ h.e1 = Fresh.e1 /\ h.page = Fresh.page /\ h.out = Fresh.out
      BY <1>4 DEF Parsers
    <3> HIDE DEF h
    <3>3. Pending(h, rest)
      BY <1>2, <1>4, <3>2, SameParser
    <3> QED BY <1>2, <3>1, <3>2, <3>3
  <2> QED BY <2>1, <2>2
<1> QED BY <1>1, <1>3, <1>5 DEF GpuIInv

LEMMA ResetKeeps ==
  ASSUME GpuShown = {}, GpuIInv, GP1Reset \/ GP1ResetBuffer
  PROVE  GpuIInv'
<1>1. /\ feed = "cpu" /\ blk = <<>> /\ feed' = feed /\ blk' = blk /\ rest' = <<>> /\ packets' = packets
      /\ due' = <<>>
  BY DEF GP1Reset, GP1ResetBuffer, GpuIInv, Cut
<1>2. /\ Pending(Fresh, rest) /\ Fresh.out = <<>> /\ Fresh.page = want /\ Fresh.read = gpu.read /\ Fresh.poly = gpu.poly
      /\ Fresh.shaded = gpu.shaded /\ Fresh.color = gpu.color
  <2>1. Pending(gpu, rest)
    BY <1>1, BetweenTransfers
  <2> QED BY <1>1, <2>1, BetweenTransfers, FreshPending
<1>3. Fresh \in Parsers /\ (Fresh.ready <=> Fresh.read > 0)
  BY <1>2 DEF Pending
<1>4. <<>> \in Seq(Xs) /\ <<>> \in Seq(GpuPages) /\ <<>> \in Seq(Events)
  OBVIOUS
<1>5. /\ gpu' \in Parsers /\ (gpu'.ready <=> gpu'.read > 0) /\ AtRest(gpu') /\ gpu'.out = <<>> /\ gpu'.page = want'
  <2>1. CASE GP1Reset
    <3>1. ~gpu.poly /\ ~(gpu.read > 0)
      BY <2>1 DEF GP1Reset
    <3>2. gpu.read \in Nat /\ gpu.poly \in BOOLEAN /\ gpu.shaded \in BOOLEAN /\ gpu.color \in BOOLEAN
      BY <1>2, <1>3 DEF Parsers
    <3>3. gpu.read = 0 /\ gpu.poly = FALSE
      BY <3>1, <3>2
    <3>4. gpu' = [left |-> 0, buf |-> <<>>, xfer |-> 0, poly |-> FALSE, shaded |-> gpu.shaded, color |-> gpu.color,
                  read |-> 0, ready |-> FALSE, irq |-> FALSE, page |-> 0, e1 |-> <<>>, out |-> <<>>]
      BY <2>1, <3>3 DEF GP1Reset, GpuReset
    <3>5. want' = 0
      BY <2>1 DEF GP1Reset
    <3> QED BY <1>4, <3>2, <3>4, <3>5, GpuConstants DEF Parsers, AtRest
  <2>2. CASE GP1ResetBuffer
    <3> DEFINE z == <<>>
               n == 0
               f == FALSE
               h == [Fresh EXCEPT !.left = n, !.buf = z, !.xfer = n, !.poly = f]
    <3>1. gpu' = h /\ want' = want
      BY <2>2 DEF GP1ResetBuffer
    <3>2. z \in Seq(Xs) /\ n \in 0 .. 3 /\ n \in Nat /\ f \in BOOLEAN
      BY <1>4
    <3> HIDE DEF z, n, f
    <3>3. h \in Parsers
      BY <1>3, <3>2 DEF Parsers
    <3>4. /\ h.read = Fresh.read /\ h.ready = Fresh.ready /\ h.left = n /\ h.xfer = n
          /\ h.poly = f /\ h.page = Fresh.page /\ h.out = Fresh.out
      BY <1>3 DEF Parsers
    <3> HIDE DEF h
    <3> QED BY <1>2, <1>3, <3>1, <3>3, <3>4 DEF AtRest, n, f
  <2> QED BY <2>1, <2>2
<1>6. Pending(gpu', <<>>)
  BY <1>5, NothingPending DEF Pending, At
<1>7. Cut("cpu", <<>>, <<>>) /\ <<>> \o <<>> = <<>>
  <2>1. <<>> \in Seq(StreamWords) /\ \A i \in 1 .. Len(<<>>) : <<>>[i].pos # 1
    BY EmptySeq
  <2> QED BY <2>1, CpuCut
<1> QED BY <1>1, <1>5, <1>6, <1>7 DEF GpuIInv

LEMMA GpuInitHolds == GpuInit => GpuIInv
<1> SUFFICES ASSUME GpuInit PROVE GpuIInv
  OBVIOUS
<1>1. gpu = GpuReset /\ feed = "cpu" /\ blk = <<>> /\ rest = <<>> /\ packets = 0 /\ due = <<>> /\ want = 0
  BY DEF GpuInit
<1>2. <<>> \in Seq(Xs) /\ <<>> \in Seq(GpuPages) /\ <<>> \in Seq(Events)
  OBVIOUS
<1>3. /\ gpu \in Parsers /\ (gpu.ready <=> gpu.read > 0) /\ AtRest(gpu) /\ gpu.out = <<>> /\ gpu.page = 0
  BY <1>1, <1>2, GpuConstants DEF GpuReset, Parsers, AtRest
<1>4. Pending(gpu, <<>>)
  BY <1>3, NothingPending DEF Pending, At
<1>5. Cut("cpu", <<>>, <<>>) /\ <<>> \o <<>> = <<>>
  <2>1. <<>> \in Seq(StreamWords) /\ \A i \in 1 .. Len(<<>>) : <<>>[i].pos # 1
    BY EmptySeq
  <2> QED BY <2>1, CpuCut
<1> QED BY <1>1, <1>3, <1>4, <1>5, GpuConstants DEF GpuIInv

LEMMA GpuStepKeeps ==
  ASSUME GpuShown = {}, GpuIInv, [GpuNext]_gpuVars
  PROVE  GpuIInv'
<1>1. CASE CpuWord
  BY <1>1, CpuKeeps
<1>2. CASE StartBlock
  <2>1. Send(FALSE) /\ blk = <<>> /\ feed' = "block" /\ packets' \in 0 .. MaxPackets
    BY <1>2 DEF StartBlock, GpuIInv, Cut
  <2> QED BY <2>1, SendKeeps
<1>3. CASE GPU_ProcessDmaBlock
  BY <1>3, BlockKeeps
<1>4. CASE NextPacket
  <2>1. Send(TRUE) /\ blk = <<>> /\ feed' \in Lists /\ packets' \in 0 .. MaxPackets
    <3>1. Send(TRUE) /\ blk = <<>> /\ feed' = (IF gpu.poly THEN "slow" ELSE "dispatch")
      BY <1>4 DEF NextPacket
    <3>2. packets < MaxPackets /\ packets' = packets + 1 /\ packets \in 0 .. MaxPackets
      BY <1>4 DEF NextPacket, GpuIInv
    <3>3. MaxPackets \in Nat
      BY GpuConstants
    <3>4. packets' \in 0 .. MaxPackets
      BY <3>2, <3>3
    <3>5. feed' \in Lists
      BY <3>1 DEF Lists
    <3> QED BY <3>1, <3>4, <3>5
  <2> QED BY <2>1, SendKeeps
<1>5. CASE ListWord \/ ListDispatch
  BY <1>5, ListKeeps
<1>6. CASE DmaDone
  BY <1>6, DoneKeeps
<1>7. CASE GPU_Read \/ GP1Ack
  BY <1>7, ReadKeeps
<1>8. CASE GP1Reset \/ GP1ResetBuffer
  BY <1>8, ResetKeeps
<1>9. CASE UNCHANGED gpuVars
  BY <1>9 DEF gpuVars, GpuIInv
<1> QED BY <1>1, <1>2, <1>3, <1>4, <1>5, <1>6, <1>7, <1>8, <1>9 DEF GpuNext

LEMMA GpuIInvShows ==
  ASSUME GpuIInv
  PROVE  CommandsAsSent /\ ParserInStep
<1> DEFINE s == blk \o rest
           c == s[1].own
           p == s[1].pos
<1>1. Pending(gpu, s) /\ gpu \in Parsers
  BY DEF GpuIInv, Pending
<1>2. s # <<>> => c \in GpuCommands /\ p \in 1 .. Count(c) /\ InWord(gpu, c, p)
  <2> SUFFICES ASSUME s # <<>> PROVE c \in GpuCommands /\ p \in 1 .. Count(c) /\ InWord(gpu, c, p)
    OBVIOUS
  <2> HIDE DEF s
  <2>1. s[1] \in StreamWords
    BY <1>1, EmptySeq DEF Pending, Chain
  <2>2. c \in GpuCommands /\ p \in 1 .. Count(c)
    BY <2>1, WordIs
  <2> QED BY <1>1, <2>2 DEF Pending, At
<1>3. s = <<>> => AtRest(gpu)
  BY <1>1 DEF Pending, At
<1> HIDE DEF s, c, p
<1>4. gpu.left > 0 => gpu.buf # <<>> /\ gpu.left + Len(gpu.buf) \in 3 .. 4
  <2> SUFFICES ASSUME gpu.left > 0 PROVE gpu.buf # <<>> /\ gpu.left + Len(gpu.buf) \in 3 .. 4
    OBVIOUS
  <2>1. s # <<>>
    BY <1>3 DEF AtRest
  <2>2. Collecting(gpu, c, p) /\ p # 1 /\ p <= Prefix(c)
    BY <1>2, <2>1 DEF InWord, AtRest, Loading, Polyline
  <2>3. gpu.left = Prefix(c) - p + 1 /\ Len(gpu.buf) = p - 1
    BY <2>2 DEF Collecting
  <2>4. Prefix(c) \in {1, 3, 4} /\ p \in Nat \ {0}
    BY <1>2, <2>1, PrefixIs
  <2>5. Len(gpu.buf) # 0
    BY <2>2, <2>3, <2>4
  <2> QED BY <2>2, <2>3, <2>4, <2>5, EmptySeq
<1>5. GpuTypeOK
  <2>1. /\ gpu.left \in 0..3 /\ gpu.xfer \in Nat /\ gpu.read \in Nat /\ gpu.page \in GpuPages
        /\ {gpu.poly, gpu.shaded, gpu.color, gpu.ready, gpu.irq} \subseteq BOOLEAN
    BY <1>1 DEF Parsers
  <2>2. feed \in {"cpu", "block", "slow", "dispatch", "words"} /\ packets \in 0 .. MaxPackets /\ want = gpu.page
    BY DEF GpuIInv, Cut, Lists
  <2> QED BY <1>4, <2>1, <2>2 DEF GpuTypeOK
<1>6. InStep
  <2> SUFFICES ASSUME feed = "cpu" PROVE GpuBusy(gpu) <=> rest # <<>>
    BY DEF InStep
  <2>1. blk = <<>> /\ rest \in Seq(StreamWords) /\ \A i \in 1 .. Len(rest) : rest[i].pos # 1
    BY DEF GpuIInv, Cut
  <2>2. s = rest
    BY <2>1, ConcatEmptySeq DEF s
  <2>3. CASE rest = <<>>
    BY <1>1, <1>3, <2>2, <2>3 DEF AtRest, GpuBusy, Parsers
  <2>4. CASE rest # <<>>
    <3>1. p # 1
      <4>1. 1 \in 1 .. Len(rest)
        BY <2>1, <2>4, EmptySeq
      <4> QED BY <2>1, <2>2, <4>1 DEF p
    <3>2. p \in 1 .. Count(c) /\ InWord(gpu, c, p) /\ Count(c) \in Nat /\ Prefix(c) \in Nat
      BY <1>2, <2>2, <2>4, PrefixIs
    <3>3. (Collecting(gpu, c, p) /\ p <= Prefix(c)) \/ Loading(gpu, c, p) \/ Polyline(gpu, c, p)
      BY <3>1, <3>2 DEF InWord
    <3>4. gpu.left > 0 \/ gpu.xfer > 0 \/ gpu.poly
      BY <3>2, <3>3 DEF Collecting, Loading, Polyline
    <3> QED BY <2>4, <3>4 DEF GpuBusy
  <2> QED BY <2>3, <2>4
<1>7. PageAsCommanded /\ ReadReady /\ CommandsAsSent
  BY <1>1 DEF GpuIInv, Pending, PageAsCommanded, ReadReady, CommandsAsSent
<1> QED BY <1>5, <1>6, <1>7 DEF ParserInStep

(* However the words are cut into register writes, blocks and packets, the *)
(* commands carried out are those the guest sent (GPU_WriteGP0,            *)
(* GPU_ProcessDmaBlock, GPU_DMA2), for every command set, image size and   *)
(* number of packets, when the guest avoids the disagreements shown.       *)
THEOREM CommandsAlwaysAsSent == GpuShown = {} => (GpuSpec => []CommandsAsSent)
<1> SUFFICES ASSUME GpuShown = {} PROVE GpuSpec => []CommandsAsSent
  OBVIOUS
<1>1. GpuIInv /\ [GpuNext]_gpuVars => GpuIInv'
  BY GpuStepKeeps
<1> QED BY GpuInitHolds, <1>1, GpuIInvShows, PTL DEF GpuSpec

(* The parser is inside a command exactly when the guest is, its page is   *)
(* the one last commanded and bit 27 tells of words to be read.            *)
THEOREM ParserAlwaysInStep == GpuShown = {} => (GpuSpec => []ParserInStep)
<1> SUFFICES ASSUME GpuShown = {} PROVE GpuSpec => []ParserInStep
  OBVIOUS
<1>1. GpuIInv /\ [GpuNext]_gpuVars => GpuIInv'
  BY GpuStepKeeps
<1> QED BY GpuInitHolds, <1>1, GpuIInvShows, PTL DEF GpuSpec
=============================================================================
