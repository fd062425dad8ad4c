--------------------------- MODULE CompilerProofs ---------------------------
(***************************************************************************)
(* For any blocks, pages and links and any size of the code buffer: the    *)
(* tables of the recompiler lead to live code of the right block, and C    *)
(* starts no block on a written page without comparing it.  For any        *)
(* program, the stalls charged for the geometry coprocessor suffice and    *)
(* what the scans of a block conclude is so.                               *)
(***************************************************************************)
EXTENDS JitCache, BlockScan, WellFoundedInduction, TLAPS

(* The tables on their own, and the sites once waiting ones are patched.   *)
Sound(j) ==
  /\ j \in Tables /\ Len(j.code) <= CodeRoom /\ j.dirty \subseteq j.l2
  /\ NoDanglingCode(j) /\ EntriesTrue(j) /\ LinksWait(j)
AllSound(j) == Sound(j) /\ NoneWaitsInVain(j)

LEMMA SoundSplit ==
  CodeTablesSound <=>
    /\ ram \in [Pcs -> Versions] /\ native \in 0 .. CodeRoom /\ curpc \in Pcs \cup {NoCode}
    /\ PointsTo(jit, native, curpc) /\ AllSound(jit)
BY DEF CodeTablesSound, JitTypeOK, AllSound, Sound

LEMMA JitConstants ==
  /\ Pcs \subseteq Nat \ {0} /\ \A pc \in Pcs : PageOf[pc] \in Pages /\ Links[pc] \in SUBSET Pcs
  /\ 0 \notin Versions /\ CodeRoom \in Nat \ {0} /\ Gens \in Nat \ {0} /\ Epochs \in Nat \ {0}
  /\ NoBlock \in Entries /\ NoCode = 0
BY JitAssumption DEF Pages, NoBlock, Entries, NoCode

(* The same code, apart from where an entry comes from, and tables that    *)
(* point to no more than before.                                           *)
LEMMA FewerPointers ==
  ASSUME NEW j, NEW k \in Tables, AllSound(j), k.dirty \subseteq k.l2, k.sites = j.sites,
         Len(k.code) = Len(j.code),
         \A n \in LiveCode(j) :
           k.code[n].pc = j.code[n].pc /\ k.code[n].ver = j.code[n].ver /\ k.code[n].link = j.code[n].link,
         \A pc \in Pcs : \/ k.tab[pc].native = NoCode
                         \/ k.tab[pc].native = j.tab[pc].native /\ k.tab[pc].ver = j.tab[pc].ver,
         \A pc \in Pcs : k.ht[pc] \in {NoCode, j.ht[pc], j.tab[pc].native}
  PROVE  AllSound(k) /\ \A n, pc : PointsTo(j, n, pc) => PointsTo(k, n, pc)
<1>1. LiveCode(k) = LiveCode(j)
  BY DEF LiveCode
<1>2. ASSUME NEW n, NEW pc, PointsTo(j, n, pc) PROVE PointsTo(k, n, pc)
  BY <1>1, <1>2 DEF PointsTo
<1>3. NoDanglingCode(k)
  <2>1. ASSUME NEW pc \in Pcs PROVE PointsTo(k, k.tab[pc].native, pc) /\ PointsTo(k, k.ht[pc], pc)
    <3>1. PointsTo(j, j.tab[pc].native, pc) /\ PointsTo(j, j.ht[pc], pc) /\ PointsTo(k, NoCode, pc)
      BY DEF AllSound, Sound, NoDanglingCode, PointsTo
    <3> QED BY <1>2, <3>1
  <2>2. ASSUME NEW n \in LiveCode(k) PROVE DOMAIN k.code[n].link = Links[k.code[n].pc]
    BY <1>1 DEF AllSound, Sound, NoDanglingCode
  <2>3. ASSUME NEW n \in LiveCode(k), NEW t \in Links[k.code[n].pc] PROVE PointsTo(k, k.code[n].link[t], t)
    BY <1>1, <1>2 DEF AllSound, Sound, NoDanglingCode
  <2>4. ASSUME NEW s \in k.sites PROVE s[1] \in LiveCode(k)
    BY <1>1 DEF AllSound, Sound, NoDanglingCode
  <2> QED BY <2>1, <2>2, <2>3, <2>4 DEF NoDanglingCode
<1>4. EntriesTrue(k)
  BY <1>1 DEF AllSound, Sound, EntriesTrue, NoDanglingCode, PointsTo
<1>5. LinksWait(k)
  <2>1. ASSUME NEW n \in LiveCode(k), NEW t \in Links[k.code[n].pc]
        PROVE  (k.code[n].link[t] = NoCode) <=> (<<n, t>> \in k.sites)
    <3>1. n \in LiveCode(j) /\ t \in Links[j.code[n].pc] /\ k.code[n].link[t] = j.code[n].link[t]
      BY <1>1
    <3>2. LinksWait(j)
      BY DEF AllSound, Sound
    <3> QED BY <3>1, <3>2 DEF LinksWait
  <2> QED BY <2>1 DEF LinksWait
<1>6. NoneWaitsInVain(k)
  <2> SUFFICES ASSUME NEW s \in k.sites PROVE k.tab[s[2]].native = NoCode
    BY DEF NoneWaitsInVain
  <2>1. k.sites \in SUBSET ((1 .. CodeRoom) \X Pcs)
    BY DEF Tables
  <2>2. s[2] \in Pcs /\ j.tab[s[2]].native = NoCode
    BY <2>1 DEF AllSound, NoneWaitsInVain
  <2> QED BY <2>2
<1>7. Len(k.code) <= CodeRoom
  BY DEF AllSound, Sound
<1> QED BY <1>2, <1>3, <1>4, <1>5, <1>6, <1>7 DEF AllSound, Sound

-----------------------------------------------------------------------------
(* The operations that only drop, verify or enter what is there.           *)
LEMMA DropOK ==
  ASSUME NEW j, AllSound(j), NEW pc \in Pcs
  PROVE  /\ AllSound(DropBlock(j, pc)) /\ DropBlock(j, pc).tab[pc] = NoBlock
         /\ DropBlock(j, pc).code = j.code /\ DropBlock(j, pc).gen = j.gen
<1> DEFINE tab == [j.tab EXCEPT ![pc] = NoBlock]
           k == [j EXCEPT !.tab = tab]
<1>0. j \in Tables /\ j.tab \in [Pcs -> Entries]
  BY DEF AllSound, Sound, Tables
<1>1. DropBlock(j, pc) = k
  BY <1>0 DEF DropBlock
<1>2. tab \in [Pcs -> Entries] /\ \A p \in Pcs : tab[p] = IF p = pc THEN NoBlock ELSE j.tab[p]
  BY <1>0, JitConstants
<1> HIDE DEF tab
<1>3. k \in Tables
  BY <1>0, <1>2 DEF Tables
<1>4. /\ k.code = j.code /\ k.sites = j.sites /\ k.dirty = j.dirty /\ k.l2 = j.l2
      /\ k.ht = j.ht /\ k.tab = tab /\ k.gen = j.gen
  BY <1>0 DEF Tables
<1> HIDE DEF k
<1>5. NoBlock.native = NoCode
  BY DEF NoBlock
<1>6. j.dirty \subseteq j.l2
  BY DEF AllSound, Sound
<1>7. AllSound(k)
  BY <1>2, <1>3, <1>4, <1>5, <1>6, FewerPointers
<1> QED BY <1>1, <1>2, <1>4, <1>7

LEMMA VerifyOK ==
  ASSUME NEW j, AllSound(j), NEW pc \in Pcs
  PROVE  /\ AllSound(CodeVerified(j, pc)) /\ CodeVerified(j, pc).code = j.code
         /\ CodeVerified(j, pc).tab[pc].native = j.tab[pc].native
<1> DEFINE new == [j.tab[pc] EXCEPT !.gen = j.gen[PageOf[pc]]]
           tab == [j.tab EXCEPT ![pc] = new]
           k == [j EXCEPT !.tab = tab]
<1>0. j \in Tables /\ j.tab \in [Pcs -> Entries] /\ j.gen[PageOf[pc]] \in 0 .. Gens - 1
  BY JitConstants DEF AllSound, Sound, Tables
<1>1. new \in Entries /\ new.native = j.tab[pc].native /\ new.ver = j.tab[pc].ver
  BY <1>0 DEF Entries
<1> HIDE DEF new
<1>2. CodeVerified(j, pc) = k
  BY <1>0 DEF CodeVerified, new
<1>3. tab \in [Pcs -> Entries] /\ \A p \in Pcs : tab[p] = IF p = pc THEN new ELSE j.tab[p]
  BY <1>0, <1>1
<1> HIDE DEF tab
<1>4. k \in Tables
  BY <1>0, <1>3 DEF Tables
<1>5. /\ k.code = j.code /\ k.sites = j.sites /\ k.dirty = j.dirty /\ k.l2 = j.l2
      /\ k.ht = j.ht /\ k.tab = tab
  BY <1>0 DEF Tables
<1> HIDE DEF k
<1>6. j.dirty \subseteq j.l2
  BY DEF AllSound, Sound
<1>7. AllSound(k)
  BY <1>1, <1>3, <1>4, <1>5, <1>6, FewerPointers
<1> QED BY <1>1, <1>2, <1>3, <1>5, <1>7

(* The hash table is given an entry of the page table, or loses some.      *)
LEMMA HtOpsOK ==
  ASSUME NEW j, AllSound(j), NEW pc \in Pcs
  PROVE  /\ AllSound(jit_ht_add(j, pc)) /\ AllSound(jit_ht_remove(j, pc))
         /\ \A k \in {jit_ht_add(j, pc), jit_ht_remove(j, pc)} : k.code = j.code /\ k.tab = j.tab /\ k.gen = j.gen
<1>0. /\ j \in Tables /\ j.ht \in [Pcs -> 0 .. CodeRoom] /\ j.flushed \in 0 .. Epochs - 1
      /\ j.tab[pc].native \in 0 .. CodeRoom /\ NoCode \in 0 .. CodeRoom
  <2>1. j \in Tables /\ j.tab[pc] \in Entries
    BY DEF AllSound, Sound, Tables
  <2>2. j.ht \in [Pcs -> 0 .. CodeRoom] /\ j.flushed \in 0 .. Epochs - 1
    BY <2>1 DEF Tables
  <2>3. j.tab[pc].native \in 0 .. CodeRoom
    BY <2>1 DEF Entries
  <2>4. NoCode \in 0 .. CodeRoom
    BY JitConstants
  <2> QED BY <2>1, <2>2, <2>3, <2>4
<1>1. ASSUME NEW n \in {NoCode, j.tab[pc].native}
      PROVE  LET k == [j EXCEPT !.ht[pc] = n]
             IN  AllSound(k) /\ k.code = j.code /\ k.tab = j.tab /\ k.gen = j.gen
  <2> DEFINE ht == [j.ht EXCEPT ![pc] = n]
             k == [j EXCEPT !.ht[pc] = n]
  <2>1. ht \in [Pcs -> 0 .. CodeRoom] /\ \A p \in Pcs : ht[p] \in {NoCode, j.ht[p], j.tab[p].native}
    BY <1>0
  <2> HIDE DEF ht
  <2>2. k = [j EXCEPT !.ht = ht]
    BY <1>0 DEF ht
  <2>3. k \in Tables
    BY <1>0, <2>1, <2>2 DEF Tables
  <2>4. /\ k.code = j.code /\ k.sites = j.sites /\ k.dirty = j.dirty /\ k.l2 = j.l2
        /\ k.ht = ht /\ k.tab = j.tab /\ k.gen = j.gen
    BY <1>0, <2>2 DEF Tables
  <2> HIDE DEF k
  <2>5. j.dirty \subseteq j.l2
    BY DEF AllSound, Sound
  <2>6. AllSound(k)
    BY <2>1, <2>3, <2>4, <2>5, FewerPointers
  <2> QED BY <2>4, <2>6 DEF k
<1> QED BY <1>1 DEF jit_ht_add, jit_ht_remove

LEMMA FlushOK ==
  ASSUME NEW j, AllSound(j)
  PROVE  LET k == [j EXCEPT !.ht = EmptyHt, !.flushed = j.epoch]
         IN  AllSound(k) /\ k.code = j.code /\ k.tab = j.tab /\ k.gen = j.gen
<1> DEFINE k == [j EXCEPT !.ht = EmptyHt, !.flushed = j.epoch]
<1>1. /\ EmptyHt \in [Pcs -> 0 .. CodeRoom] /\ j.epoch \in 0 .. Epochs - 1
      /\ \A pc \in Pcs : EmptyHt[pc] = NoCode
  BY JitConstants DEF EmptyHt, AllSound, Sound, Tables
<1>2. k \in Tables
  BY <1>1 DEF AllSound, Sound, Tables
<1>3. /\ k.code = j.code /\ k.sites = j.sites /\ k.dirty = j.dirty /\ k.l2 = j.l2
      /\ k.ht = EmptyHt /\ k.tab = j.tab /\ k.gen = j.gen /\ j.dirty \subseteq j.l2
  BY DEF AllSound, Sound, Tables
<1> HIDE DEF k
<1>4. AllSound(k)
  BY <1>1, <1>2, <1>3, FewerPointers
<1> QED BY <1>3, <1>4 DEF k

LEMMA NextGen == ASSUME NEW g \in 0 .. Gens - 1 PROVE (g + 1) % Gens \in 0 .. Gens - 1
BY JitConstants
LEMMA NextEpoch == ASSUME NEW e \in 0 .. Epochs - 1 PROVE (e + 1) % Epochs \in 0 .. Epochs - 1
BY JitConstants

(* A write that is noticed moves the generation of its page.               *)
LEMMA SmcOK ==
  ASSUME NEW j, AllSound(j), NEW p \in Pages, NEW n, NEW pc, PointsTo(j, n, pc)
  PROVE  AllSound(jit_smc_handler(j, p)) /\ PointsTo(jit_smc_handler(j, p), n, pc)
<1>1. CASE p \in j.dirty \/ p \notin j.l2
  BY <1>1 DEF jit_smc_handler
<1>2. CASE ~(p \in j.dirty \/ p \notin j.l2)
  <2> DEFINE gen == [j.gen EXCEPT ![p] = (@ + 1) % Gens]
             ht == [q \in Pcs |-> IF PageOf[q] = p /\ j.tab[q].native # NoCode THEN NoCode ELSE j.ht[q]]
             dirty == j.dirty \cup {p}
             k == [j EXCEPT !.dirty = dirty, !.gen = gen, !.ht = ht]
  <2>0. /\ j \in Tables /\ j.gen \in [Pages -> 0 .. Gens - 1] /\ j.ht \in [Pcs -> 0 .. CodeRoom]
        /\ j.l2 \subseteq Pages /\ j.dirty \subseteq j.l2
    BY DEF AllSound, Sound, Tables
  <2>1. jit_smc_handler(j, p) = k
    BY <1>2, <2>0 DEF jit_smc_handler
  <2>2. gen \in [Pages -> 0 .. Gens - 1]
    BY <2>0, NextGen
  <2>3. /\ ht \in [Pcs -> 0 .. CodeRoom] /\ \A q \in Pcs : ht[q] = NoCode \/ ht[q] = j.ht[q]
        /\ dirty \subseteq j.l2 /\ dirty \subseteq Pages
    BY <1>2, <2>0, JitConstants
  <2> HIDE DEF gen, ht, dirty
  <2>4. k \in Tables
    BY <2>0, <2>2, <2>3 DEF Tables
  <2>5. /\ k.code = j.code /\ k.sites = j.sites /\ k.dirty = dirty /\ k.l2 = j.l2
        /\ k.ht = ht /\ k.tab = j.tab
    BY <2>0 DEF Tables
  <2> HIDE DEF k
  <2>6. AllSound(k) /\ PointsTo(k, n, pc)
    BY <2>3, <2>4, <2>5, FewerPointers
  <2> QED BY <2>1, <2>6
<1> QED BY <1>1, <1>2

LEMMA InvalidateOK ==
  ASSUME NEW j, AllSound(j), NEW p \in Pages, NEW n, NEW pc, PointsTo(j, n, pc)
  PROVE  AllSound(jit_invalidate_page(j, p)) /\ PointsTo(jit_invalidate_page(j, p), n, pc)
<1>1. CASE p \notin j.l2
  BY <1>1 DEF jit_invalidate_page
<1>2. CASE p \in j.l2
  <2> DEFINE gen == [j.gen EXCEPT ![p] = (@ + 1) % Gens]
             k == [j EXCEPT !.gen = gen]
  <2>0. j \in Tables /\ j.gen \in [Pages -> 0 .. Gens - 1] /\ j.dirty \subseteq j.l2
    BY DEF AllSound, Sound, Tables
  <2>1. jit_invalidate_page(j, p) = k
    BY <1>2, <2>0 DEF jit_invalidate_page
  <2>2. gen \in [Pages -> 0 .. Gens - 1]
    BY <2>0, NextGen
  <2> HIDE DEF gen
  <2>3. k \in Tables
    BY <2>0, <2>2 DEF Tables
  <2>4. /\ k.code = j.code /\ k.sites = j.sites /\ k.dirty = j.dirty /\ k.l2 = j.l2
        /\ k.ht = j.ht /\ k.tab = j.tab
    BY <2>0 DEF Tables
  <2> HIDE DEF k
  <2>5. AllSound(k) /\ PointsTo(k, n, pc)
    BY <2>0, <2>3, <2>4, FewerPointers
  <2> QED BY <2>1, <2>5
<1> QED BY <1>1, <1>2

-----------------------------------------------------------------------------
(* The poll patch changes where an entry comes from and nothing else.      *)
Patched(c, a, f) == [c EXCEPT ![a].first = f]
LEMMA PatchedCode ==
  ASSUME NEW j, AllSound(j), NEW a \in LiveCode(j), NEW f \in {"own", "abort", "other"}
  PROVE  LET c == Patched(j.code, a, f)
         IN  /\ c \in Seq(Natives) /\ Len(c) = Len(j.code)
             /\ \A n \in LiveCode(j) :
                  c[n].pc = j.code[n].pc /\ c[n].ver = j.code[n].ver /\ c[n].link = j.code[n].link
<1> DEFINE c == Patched(j.code, a, f)
<1>0. j.code \in Seq(Natives)
  BY DEF AllSound, Sound, Tables
<1>1. [j.code[a] EXCEPT !.first = f] \in Natives
  <2>1. j.code[a] \in Natives
    BY <1>0 DEF LiveCode
  <2> QED BY <2>1 DEF Natives
<1>2. /\ c \in Seq(Natives) /\ Len(c) = Len(j.code)
      /\ \A n \in LiveCode(j) : c[n] = IF n = a THEN [j.code[n] EXCEPT !.first = f] ELSE j.code[n]
  BY <1>0, <1>1 DEF LiveCode, Patched
<1> HIDE DEF c
<1>3. ASSUME NEW n \in LiveCode(j)
      PROVE  c[n].pc = j.code[n].pc /\ c[n].ver = j.code[n].ver /\ c[n].link = j.code[n].link
  <2>1. j.code[n] \in Natives
    BY <1>0 DEF LiveCode
  <2> QED BY <1>2, <2>1 DEF Natives
<1> QED BY <1>2, <1>3 DEF c

LEMMA RestoreOK ==
  ASSUME NEW j, AllSound(j)
  PROVE  AllSound([RestorePoll(j) EXCEPT !.poll.pc = NoCode])
<1> DEFINE a == j.poll.addr
           f == IF j.poll.old THEN "other" ELSE "own"
           c == IF a # NoCode /\ a \in LiveCode(j) THEN [j.code EXCEPT ![a].first = f] ELSE j.code
           poll == IF a = NoCode THEN j.poll ELSE [j.poll EXCEPT !.addr = NoCode, !.old = FALSE]
           r == [j EXCEPT !.poll = poll, !.code = c]
           k == [r EXCEPT !.poll.pc = NoCode]
<1>0. /\ j \in Tables /\ j.code \in Seq(Natives) /\ j.dirty \subseteq j.l2
      /\ j.poll \in [addr : 0 .. CodeRoom, pc : Pcs \cup {NoCode}, old : BOOLEAN]
  BY DEF AllSound, Sound, Tables
<1>1. DOMAIN j.code = LiveCode(j)
  BY <1>0 DEF LiveCode
<1>2. poll \in [addr : 0 .. CodeRoom, pc : Pcs \cup {NoCode}, old : BOOLEAN]
  <2>1. NoCode \in 0 .. CodeRoom
    BY JitConstants
  <2>2. [j.poll EXCEPT !.addr = NoCode, !.old = FALSE] \in [addr : 0 .. CodeRoom, pc : Pcs \cup {NoCode}, old : BOOLEAN]
    BY <1>0, <2>1
  <2> QED BY <1>0, <2>2
<1>3. /\ c \in Seq(Natives) /\ Len(c) = Len(j.code)
      /\ \A n \in LiveCode(j) :
           c[n].pc = j.code[n].pc /\ c[n].ver = j.code[n].ver /\ c[n].link = j.code[n].link
  <2>1. CASE a # NoCode /\ a \in LiveCode(j)
    <3>1. f \in {"own", "abort", "other"}
      OBVIOUS
    <3>2. c = Patched(j.code, a, f)
      BY <2>1 DEF Patched
    <3> HIDE DEF f, a, c
    <3> QED BY <2>1, <3>1, <3>2, PatchedCode
  <2>2. CASE ~(a # NoCode /\ a \in LiveCode(j))
    BY <1>0, <2>2
  <2> QED BY <2>1, <2>2
<1>4. RestorePoll(j) = r
  <2>1. CASE a = NoCode
    <3>1. r = j
      BY <1>0, <2>1 DEF Tables
    <3> QED BY <2>1, <3>1 DEF RestorePoll
  <2>2. CASE a # NoCode /\ a \in LiveCode(j)
    BY <1>0, <1>1, <2>2 DEF RestorePoll
  <2>3. CASE a # NoCode /\ a \notin LiveCode(j)
    BY <1>0, <1>1, <2>3 DEF RestorePoll
  <2> QED BY <2>1, <2>2, <2>3
<1> HIDE DEF c, poll
<1>5. r \in Tables /\ r.poll = poll
  BY <1>0, <1>2, <1>3 DEF Tables
<1>6. /\ r.code = c /\ r.sites = j.sites /\ r.dirty = j.dirty /\ r.l2 = j.l2
      /\ r.ht = j.ht /\ r.tab = j.tab
  BY <1>0 DEF Tables
<1> HIDE DEF r
<1>7. k \in Tables
  <2>1. [r.poll EXCEPT !.pc = NoCode] \in [addr : 0 .. CodeRoom, pc : Pcs \cup {NoCode}, old : BOOLEAN]
    BY <1>2, <1>5
  <2>2. k = [r EXCEPT !.poll = [r.poll EXCEPT !.pc = NoCode]]
    OBVIOUS
  <2> QED BY <1>5, <2>1, <2>2 DEF Tables
<1>8. /\ k.code = c /\ k.sites = j.sites /\ k.dirty = j.dirty /\ k.l2 = j.l2
      /\ k.ht = j.ht /\ k.tab = j.tab
  BY <1>5, <1>6 DEF Tables
<1> HIDE DEF k
<1>9. AllSound(k)
  BY <1>0, <1>3, <1>7, <1>8, FewerPointers
<1> QED BY <1>4, <1>9 DEF k

LEMMA ChainPollsOK ==
  ASSUME AllSound(jit), NEW pc \in Pcs, ChainPolls(pc)
  PROVE  AllSound(jit')
<1> DEFINE a == jit.tab[pc].native
           c == IF jit.poll.addr = NoCode /\ a # NoCode THEN Patched(jit.code, a, "abort") ELSE jit.code
           poll == [addr |-> IF jit.poll.addr = NoCode THEN a ELSE jit.poll.addr,
                    pc |-> pc, old |-> IF jit.poll.addr = NoCode THEN FALSE ELSE jit.poll.old]
           k == [jit EXCEPT !.poll = poll, !.code = c]
<1>0. /\ jit \in Tables /\ jit.code \in Seq(Natives) /\ jit.dirty \subseteq jit.l2
      /\ jit.poll \in [addr : 0 .. CodeRoom, pc : Pcs \cup {NoCode}, old : BOOLEAN]
      /\ jit.tab[pc] \in Entries
  BY DEF AllSound, Sound, Tables
<1>1. a \in 0 .. CodeRoom /\ (a # NoCode => a \in LiveCode(jit))
  BY <1>0 DEF AllSound, Sound, NoDanglingCode, PointsTo, Entries
<1>2. jit' = k
  BY DEF ChainPolls, Patched
<1>3. poll \in [addr : 0 .. CodeRoom, pc : Pcs \cup {NoCode}, old : BOOLEAN]
  BY <1>0, <1>1
<1>4. /\ c \in Seq(Natives) /\ Len(c) = Len(jit.code)
      /\ \A n \in LiveCode(jit) :
           c[n].pc = jit.code[n].pc /\ c[n].ver = jit.code[n].ver /\ c[n].link = jit.code[n].link
  BY <1>0, <1>1, PatchedCode
<1> HIDE DEF c, poll
<1>5. k \in Tables
  BY <1>0, <1>3, <1>4 DEF Tables
<1>6. /\ k.code = c /\ k.sites = jit.sites /\ k.dirty = jit.dirty /\ k.l2 = jit.l2
      /\ k.ht = jit.ht /\ k.tab = jit.tab
  BY <1>0 DEF Tables
<1> HIDE DEF k
<1>7. AllSound(k)
  BY <1>0, <1>4, <1>5, <1>6, FewerPointers
<1> QED BY <1>2, <1>7

-----------------------------------------------------------------------------
(* An emptied buffer with emptied tables.                                  *)
LEMMA ResetOK ==
  ASSUME NEW j, AllSound(j)
  PROVE  AllSound(ResetBuffer(j)) /\ ResetBuffer(j).code = <<>>
<1> DEFINE k == ResetBuffer(j)
<1>0. /\ j \in Tables
      /\ j.poll \in [addr : 0 .. CodeRoom, pc : Pcs \cup {NoCode}, old : BOOLEAN]
  BY DEF AllSound, Sound, Tables
<1>1. /\ NoBlocks \in [Pcs -> Entries] /\ \A pc \in Pcs : NoBlocks[pc].native = NoCode
      /\ EmptyHt \in [Pcs -> 0 .. CodeRoom] /\ \A pc \in Pcs : EmptyHt[pc] = NoCode
  BY JitConstants DEF NoBlocks, EmptyHt, NoBlock
<1>2. [j.poll EXCEPT !.old = j.poll.addr # NoCode] \in [addr : 0 .. CodeRoom, pc : Pcs \cup {NoCode}, old : BOOLEAN]
  BY <1>0
<1>3. k = [j EXCEPT !.code = <<>>, !.tab = NoBlocks, !.ht = EmptyHt, !.l2 = {}, !.dirty = {}, !.sites = {},
                    !.poll = [j.poll EXCEPT !.old = j.poll.addr # NoCode]]
  BY DEF ResetBuffer
<1>4. <<>> \in Seq(Natives) /\ Len(<<>>) = 0
  OBVIOUS
<1>5. k \in Tables
  BY <1>0, <1>1, <1>2, <1>3, <1>4 DEF Tables
<1>6. k.code = <<>> /\ k.tab = NoBlocks /\ k.ht = EmptyHt /\ k.l2 = {} /\ k.dirty = {} /\ k.sites = {}
  BY <1>0, <1>3 DEF Tables
<1> HIDE DEF k
<1>7. LiveCode(k) = {} /\ Len(k.code) <= CodeRoom
  BY <1>4, <1>6, JitConstants DEF LiveCode
<1>8. NoDanglingCode(k) /\ EntriesTrue(k) /\ LinksWait(k) /\ NoneWaitsInVain(k)
  BY <1>1, <1>6, <1>7 DEF NoDanglingCode, PointsTo, EntriesTrue, LinksWait, NoneWaitsInVain
<1> QED BY <1>5, <1>6, <1>7, <1>8 DEF AllSound, Sound, k

LEMMA CheckedOK ==
  ASSUME NEW j, AllSound(j), NEW t \in Pcs
  PROVE  /\ Checked(j, t) \in Entries
         /\ \/ Checked(j, t).native = NoCode
            \/ Checked(j, t).native = j.tab[t].native /\ Checked(j, t).ver = j.tab[t].ver
<1> DEFINE new == [j.tab[t] EXCEPT !.gen = j.gen[PageOf[t]]]
<1>0. j.tab[t] \in Entries /\ j.gen[PageOf[t]] \in 0 .. Gens - 1
  BY JitConstants DEF AllSound, Sound, Tables
<1>1. new \in Entries /\ new.native = j.tab[t].native /\ new.ver = j.tab[t].ver
  BY <1>0 DEF Entries
<1>2. NoBlock.native = NoCode
  BY DEF NoBlock
<1>3. Checked(j, t) \in {NoBlock, new, j.tab[t]}
  BY DEF Checked
<1> HIDE DEF new
<1> QED BY <1>0, <1>1, <1>2, <1>3, JitConstants

(* A new native: its links are made to blocks that are there, or wait.     *)
LEMMA EmitOK ==
  ASSUME NEW j, AllSound(j), Len(j.code) < CodeRoom, NEW pc \in Pcs,
         NEW new, new \in Natives, new.pc = pc
  PROVE  LET k == emit_direct_link(j, new, Links[pc])
             n == Len(j.code) + 1
         IN  /\ AllSound(k) /\ n \in LiveCode(k) /\ n \in 1 .. CodeRoom
             /\ k.code[n].pc = pc /\ k.code[n].ver = new.ver
<1> DEFINE ts == Links[pc]
           n == Len(j.code) + 1
           tab == [t \in Pcs |-> IF t \in ts THEN Checked(j, t) ELSE j.tab[t]]
           d == [new EXCEPT !.link = [t \in ts |-> tab[t].native]]
           c == Append(j.code, d)
           sites == j.sites \cup {<<n, t>> : t \in {u \in ts : tab[u].native = NoCode}}
           k == [j EXCEPT !.tab = tab, !.code = c, !.sites = sites]
<1>0. /\ j \in Tables /\ j.code \in Seq(Natives) /\ j.dirty \subseteq j.l2 /\ j.tab \in [Pcs -> Entries]
      /\ j.sites \in SUBSET ((1 .. CodeRoom) \X Pcs)
  BY DEF AllSound, Sound, Tables
<1>1. n \in 1 .. CodeRoom /\ ts \in SUBSET Pcs /\ Len(j.code) \in Nat
  BY <1>0, JitConstants
<1>2. k = emit_direct_link(j, new, ts)
  BY <1>0 DEF emit_direct_link
<1>3. /\ tab \in [Pcs -> Entries]
      /\ \A t \in Pcs : \/ tab[t].native = NoCode
                        \/ tab[t].native = j.tab[t].native /\ tab[t].ver = j.tab[t].ver
  BY <1>0, CheckedOK
<1> HIDE DEF tab
<1>4. \A t \in Pcs : tab[t].native \in 0 .. CodeRoom
  BY <1>3 DEF Entries
<1>5. [t \in ts |-> tab[t].native] \in UNION {[us -> 0 .. CodeRoom] : us \in SUBSET Pcs}
  <2>1. [t \in ts |-> tab[t].native] \in [ts -> 0 .. CodeRoom]
    BY <1>1, <1>4
  <2> QED BY <1>1, <2>1
<1>6. d \in Natives /\ d.pc = pc /\ d.ver = new.ver /\ d.link = [t \in ts |-> tab[t].native]
  BY <1>5 DEF Natives
<1> HIDE DEF d
<1>7. /\ c \in Seq(Natives) /\ Len(c) = n /\ c[n] = d
      /\ \A m \in LiveCode(j) : c[m] = j.code[m]
  BY <1>0, <1>6 DEF LiveCode
<1> HIDE DEF c
<1>8. sites \in SUBSET ((1 .. CodeRoom) \X Pcs)
  BY <1>0, <1>1
<1>9. \A m, t : <<m, t>> \in sites <=> <<m, t>> \in j.sites \/ (m = n /\ t \in ts /\ tab[t].native = NoCode)
  OBVIOUS
<1> HIDE DEF sites
<1>10. k \in Tables
  BY <1>0, <1>3, <1>7, <1>8 DEF Tables
<1>11. /\ k.code = c /\ k.sites = sites /\ k.dirty = j.dirty /\ k.l2 = j.l2
       /\ k.ht = j.ht /\ k.tab = tab
  BY <1>0 DEF Tables
<1> HIDE DEF k
<1>12. /\ LiveCode(k) = LiveCode(j) \cup {n} /\ n \notin LiveCode(j)
       /\ \A m, t : PointsTo(j, m, t) => PointsTo(k, m, t)
  BY <1>1, <1>7, <1>11 DEF LiveCode, PointsTo
<1>13. NoDanglingCode(k)
  <2>1. ASSUME NEW t \in Pcs PROVE PointsTo(k, k.tab[t].native, t) /\ PointsTo(k, k.ht[t], t)
    <3>1. PointsTo(j, j.tab[t].native, t) /\ PointsTo(j, j.ht[t], t) /\ PointsTo(k, NoCode, t)
      BY DEF AllSound, Sound, NoDanglingCode, PointsTo
    <3> QED BY <1>3, <1>11, <1>12, <3>1
  <2>2. ASSUME NEW m \in LiveCode(k) PROVE DOMAIN k.code[m].link = Links[k.code[m].pc]
    BY <1>6, <1>7, <1>11, <1>12 DEF AllSound, Sound, NoDanglingCode
  <2>3. ASSUME NEW m \in LiveCode(k), NEW t \in Links[k.code[m].pc] PROVE PointsTo(k, k.code[m].link[t], t)
    <3>1. CASE m = n
      <4>1. t \in ts /\ t \in Pcs /\ k.code[m].link[t] = tab[t].native
        BY <1>1, <1>6, <1>7, <1>11, <3>1
      <4> QED BY <1>11, <2>1, <4>1
    <3>2. CASE m # n
      BY <1>7, <1>11, <1>12, <3>2 DEF AllSound, Sound, NoDanglingCode
    <3> QED BY <3>1, <3>2
  <2>4. ASSUME NEW s \in k.sites PROVE s[1] \in LiveCode(k)
    BY <1>11, <1>12 DEF AllSound, Sound, NoDanglingCode, sites
  <2> QED BY <2>1, <2>2, <2>3, <2>4 DEF NoDanglingCode
<1>14. EntriesTrue(k)
  <2> SUFFICES ASSUME NEW t \in Pcs, k.tab[t].native # NoCode
               PROVE  k.code[k.tab[t].native].ver = k.tab[t].ver
    BY DEF EntriesTrue
  <2>1. k.tab[t].native = j.tab[t].native /\ k.tab[t].ver = j.tab[t].ver /\ j.tab[t].native \in LiveCode(j)
    BY <1>3, <1>11 DEF AllSound, Sound, NoDanglingCode, PointsTo
  <2> QED BY <1>7, <1>11, <2>1 DEF AllSound, Sound, EntriesTrue
<1>15. LinksWait(k)
  <2>1. ASSUME NEW m \in LiveCode(k), NEW t \in Links[k.code[m].pc]
        PROVE  (k.code[m].link[t] = NoCode) <=> (<<m, t>> \in k.sites)
    <3>1. CASE m = n
      <4>1. t \in ts /\ k.code[m].link[t] = tab[t].native
        BY <1>6, <1>7, <1>11, <3>1
      <4>2. <<m, t>> \notin j.sites
        BY <1>12, <3>1 DEF AllSound, Sound, NoDanglingCode
      <4> QED BY <1>9, <1>11, <3>1, <4>1, <4>2
    <3>2. CASE m # n
      <4>1. m \in LiveCode(j) /\ k.code[m] = j.code[m]
        BY <1>7, <1>11, <1>12, <3>2
      <4> QED BY <1>9, <1>11, <3>2, <4>1 DEF AllSound, Sound, LinksWait
    <3> QED BY <3>1, <3>2
  <2> QED BY <2>1 DEF LinksWait
<1>16. NoneWaitsInVain(k)
  <2> SUFFICES ASSUME NEW s \in sites PROVE tab[s[2]].native = NoCode
    BY <1>11 DEF NoneWaitsInVain
  <2>1. CASE s \in j.sites
    BY <1>0, <1>3, <2>1 DEF AllSound, NoneWaitsInVain
  <2>2. CASE s \notin j.sites
    BY <2>2 DEF sites
  <2> QED BY <2>1, <2>2
<1>17. AllSound(k)
  BY <1>0, <1>1, <1>7, <1>10, <1>11, <1>13, <1>14, <1>15, <1>16 DEF AllSound, Sound
<1>18. n \in LiveCode(k) /\ k.code[n].pc = pc /\ k.code[n].ver = new.ver
  BY <1>6, <1>7, <1>11, <1>12
<1> QED BY <1>1, <1>2, <1>17, <1>18

(* A block newly entered in the page table: only links to it still wait.   *)
Entered(k, pc) ==
  /\ Sound(k) /\ \A s \in k.sites : s[2] # pc => k.tab[s[2]].native = NoCode
  /\ k.tab[pc].native # NoCode /\ k.tab[pc].ver = ram[pc] /\ k.tab[pc].gen = k.gen[PageOf[pc]]

LEMMA CacheOK ==
  ASSUME NEW j, AllSound(j), NEW pc \in Pcs, ram[pc] \in Versions, NEW n \in 1 .. CodeRoom,
         n \in LiveCode(j), j.code[n].pc = pc, j.code[n].ver = ram[pc]
  PROVE  Entered(cache_block(j, pc, n), pc)
<1> DEFINE p == PageOf[pc]
           e == IF p \in j.l2 THEN j.epoch ELSE (j.epoch + 1) % Epochs
           new == [native |-> n, ver |-> ram[pc], gen |-> j.gen[p], epoch |-> e]
           tab == [j.tab EXCEPT ![pc] = new]
           l2 == j.l2 \cup {p}
           dirty == j.dirty \ {p}
           k == [j EXCEPT !.l2 = l2, !.dirty = dirty, !.epoch = e, !.tab = tab]
<1>0. /\ j \in Tables /\ j.dirty \subseteq j.l2 /\ j.tab \in [Pcs -> Entries] /\ j.l2 \subseteq Pages
      /\ j.gen \in [Pages -> 0 .. Gens - 1] /\ j.epoch \in 0 .. Epochs - 1 /\ p \in Pages
      /\ j.sites \in SUBSET ((1 .. CodeRoom) \X Pcs) /\ Len(j.code) <= CodeRoom
  BY JitConstants DEF AllSound, Sound, Tables
<1>1. cache_block(j, pc, n) = k
  BY <1>0 DEF cache_block
<1>2. e \in 0 .. Epochs - 1
  BY <1>0, NextEpoch
<1> HIDE DEF e
<1>3. new \in Entries /\ new.native = n /\ new.ver = ram[pc] /\ new.gen = j.gen[p]
  <2>1. j.gen[p] \in 0 .. Gens - 1
    BY <1>0
  <2> QED BY <1>2, <2>1, JitConstants DEF Entries
<1> HIDE DEF new
<1>4. tab \in [Pcs -> Entries] /\ \A t \in Pcs : tab[t] = IF t = pc THEN new ELSE j.tab[t]
  BY <1>0, <1>3
<1>5. l2 \subseteq Pages /\ dirty \subseteq l2 /\ dirty \subseteq Pages
  BY <1>0
<1> HIDE DEF tab, l2, dirty
<1>6. k \in Tables
  BY <1>0, <1>2, <1>4, <1>5 DEF Tables
<1>7. /\ k.code = j.code /\ k.sites = j.sites /\ k.dirty = dirty /\ k.l2 = l2
      /\ k.ht = j.ht /\ k.tab = tab /\ k.gen = j.gen
  BY <1>0 DEF Tables
<1> HIDE DEF k
<1>8. LiveCode(k) = LiveCode(j) /\ \A m, t : PointsTo(j, m, t) => PointsTo(k, m, t)
  BY <1>7 DEF LiveCode, PointsTo
<1>9. NoDanglingCode(k)
  <2>1. ASSUME NEW t \in Pcs PROVE PointsTo(k, k.tab[t].native, t) /\ PointsTo(k, k.ht[t], t)
    <3>1. PointsTo(j, j.tab[t].native, t) /\ PointsTo(j, j.ht[t], t) /\ PointsTo(j, n, pc)
      BY DEF AllSound, Sound, NoDanglingCode, PointsTo
    <3> QED BY <1>3, <1>4, <1>7, <1>8, <3>1
  <2> QED BY <1>7, <1>8, <2>1 DEF AllSound, Sound, NoDanglingCode
<1>10. EntriesTrue(k)
  BY <1>3, <1>4, <1>7 DEF AllSound, Sound, EntriesTrue
<1>11. LinksWait(k)
  <2>1. LinksWait(j)
    BY DEF AllSound, Sound
  <2>2. k.code = j.code /\ k.sites = j.sites /\ LiveCode(k) = LiveCode(j)
    BY <1>7, <1>8
  <2> QED BY <2>1, <2>2, Zenon DEF LinksWait
<1>12. ASSUME NEW s \in k.sites, s[2] # pc PROVE k.tab[s[2]].native = NoCode
  <2>1. s \in j.sites /\ s[2] \in Pcs
    BY <1>0, <1>7
  <2>2. j.tab[s[2]].native = NoCode
    BY <2>1 DEF AllSound, NoneWaitsInVain
  <2>3. k.tab[s[2]] = j.tab[s[2]]
    BY <1>4, <1>7, <1>12, <2>1
  <2> QED BY <2>2, <2>3
<1>13. k.tab[pc].native # NoCode /\ k.tab[pc].ver = ram[pc] /\ k.tab[pc].gen = k.gen[PageOf[pc]]
  <2>1. k.tab[pc] = new /\ k.gen[p] = j.gen[p] /\ n # NoCode
    BY <1>4, <1>7, JitConstants
  <2> QED BY <1>3, <2>1
<1> QED BY <1>0, <1>1, <1>5, <1>6, <1>7, <1>9, <1>10, <1>11, <1>12, <1>13 DEF Entered, Sound

LEMMA CompileOK ==
  ASSUME NEW j, AllSound(j), NEW pc \in Pcs, ram[pc] \in Versions
  PROVE  Entered(compile_block(j, pc), pc)
<1> DEFINE k == IF Len(j.code) = CodeRoom THEN ResetBuffer(j) ELSE j
           new == [pc |-> pc, ver |-> ram[pc], knows |-> k.l2, first |-> "own",
                   link |-> [t \in Links[pc] |-> NoCode]]
           m == emit_direct_link(k, new, Links[pc])
           n == Len(k.code) + 1
<1>1. compile_block(j, pc) = cache_block(m, pc, n)
  BY DEF compile_block
<1>2. AllSound(k) /\ Len(k.code) < CodeRoom
  <2>1. j.code \in Seq(Natives) /\ Len(j.code) <= CodeRoom
    BY DEF AllSound, Sound, Tables
  <2> QED BY <2>1, ResetOK, JitConstants
<1> HIDE DEF k
<1>3. new \in Natives /\ new.pc = pc /\ new.ver = ram[pc]
  <2>1. k.l2 \in SUBSET Pages
    BY <1>2 DEF AllSound, Sound, Tables
  <2>2. [t \in Links[pc] |-> NoCode] \in UNION {[us -> 0 .. CodeRoom] : us \in SUBSET Pcs}
    <3>1. [t \in Links[pc] |-> NoCode] \in [Links[pc] -> 0 .. CodeRoom] /\ Links[pc] \in SUBSET Pcs
      BY JitConstants
    <3> QED BY <3>1
  <2> QED BY <2>1, <2>2 DEF Natives
<1> HIDE DEF new
<1>4. /\ AllSound(m) /\ n \in LiveCode(m) /\ n \in 1 .. CodeRoom
      /\ m.code[n].pc = pc /\ m.code[n].ver = ram[pc]
  BY <1>2, <1>3, EmitOK
<1> HIDE DEF m, n
<1> QED BY <1>1, <1>4, CacheOK

(* Every site that waited for the block is linked to it.                   *)
LEMMA PatchesOK ==
  ASSUME NEW j, NEW pc \in Pcs, Entered(j, pc)
  PROVE  LET k == apply_pending_patches(j, pc)
         IN  /\ AllSound(k) /\ k.tab = j.tab /\ k.gen = j.gen
             /\ \A m \in LiveCode(j) : k.code[m].ver = j.code[m].ver
<1> DEFINE n == j.tab[pc].native
           lk(m) == [t \in DOMAIN j.code[m].link |-> IF t = pc /\ <<m, pc>> \in j.sites THEN n ELSE j.code[m].link[t]]
           d(m) == [j.code[m] EXCEPT !.link = lk(m)]
           c == [m \in DOMAIN j.code |-> d(m)]
           sites == {s \in j.sites : s[2] # pc}
           k == [j EXCEPT !.sites = sites, !.code = c]
<1>0. /\ j \in Tables /\ j.code \in Seq(Natives) /\ j.dirty \subseteq j.l2 /\ j.tab \in [Pcs -> Entries]
      /\ j.sites \in SUBSET ((1 .. CodeRoom) \X Pcs) /\ Len(j.code) <= CodeRoom
      /\ NoDanglingCode(j) /\ EntriesTrue(j) /\ LinksWait(j)
      /\ \A s \in j.sites : s[2] # pc => j.tab[s[2]].native = NoCode
  BY DEF Entered, Sound, Tables
<1>1. k = apply_pending_patches(j, pc)
  BY <1>0 DEF apply_pending_patches
<1>2. n \in 0 .. CodeRoom /\ n \in LiveCode(j) /\ j.code[n].pc = pc /\ n # NoCode
  BY <1>0 DEF Entered, NoDanglingCode, PointsTo, Entries
<1>3. DOMAIN j.code = LiveCode(j)
  BY <1>0 DEF LiveCode
<1>4. ASSUME NEW m \in LiveCode(j)
      PROVE  /\ d(m) \in Natives /\ d(m).pc = j.code[m].pc /\ d(m).ver = j.code[m].ver
             /\ d(m).link = lk(m)
             /\ DOMAIN lk(m) = Links[j.code[m].pc] /\ DOMAIN j.code[m].link = Links[j.code[m].pc]
             /\ Links[j.code[m].pc] \in SUBSET Pcs
  <2>1. j.code[m] \in Natives
    BY <1>0 DEF LiveCode
  <2>2. j.code[m].pc \in Pcs /\ DOMAIN j.code[m].link = Links[j.code[m].pc] /\ Links[j.code[m].pc] \in SUBSET Pcs
    BY <1>0, <2>1, JitConstants DEF NoDanglingCode, Natives
  <2>3. j.code[m].link \in [Links[j.code[m].pc] -> 0 .. CodeRoom]
    <3>1. j.code[m].link \in UNION {[us -> 0 .. CodeRoom] : us \in SUBSET Pcs}
      BY <2>1 DEF Natives
    <3>2. PICK us \in SUBSET Pcs : j.code[m].link \in [us -> 0 .. CodeRoom]
      BY <3>1
    <3> QED BY <2>2, <3>2
  <2>4. lk(m) \in [Links[j.code[m].pc] -> 0 .. CodeRoom]
    BY <1>2, <2>2, <2>3
  <2> HIDE DEF lk
  <2>5. lk(m) \in UNION {[us -> 0 .. CodeRoom] : us \in SUBSET Pcs}
    BY <2>2, <2>4
  <2>6. d(m) \in Natives
    BY <2>1, <2>5 DEF Natives
  <2>7. d(m).pc = j.code[m].pc /\ d(m).ver = j.code[m].ver /\ d(m).link = lk(m)
    BY <2>1 DEF Natives
  <2> QED BY <2>2, <2>4, <2>6, <2>7
<1>5. ASSUME NEW m \in LiveCode(j), NEW t \in Links[j.code[m].pc]
      PROVE  lk(m)[t] = IF t = pc /\ <<m, pc>> \in j.sites THEN n ELSE j.code[m].link[t]
  BY <1>4
<1> HIDE DEF lk, d
<1>6. c \in Seq(Natives) /\ Len(c) = Len(j.code) /\ \A m \in LiveCode(j) : c[m] = d(m)
  <2>1. c \in [1 .. Len(j.code) -> Natives] /\ Len(j.code) \in Nat
    BY <1>0, <1>3, <1>4 DEF LiveCode
  <2> QED BY <1>3, <2>1 DEF LiveCode
<1> HIDE DEF c
<1>7. sites \in SUBSET ((1 .. CodeRoom) \X Pcs)
  BY <1>0
<1>8. k \in Tables
  BY <1>0, <1>6, <1>7 DEF Tables
<1>9. /\ k.code = c /\ k.sites = sites /\ k.dirty = j.dirty /\ k.l2 = j.l2
      /\ k.ht = j.ht /\ k.tab = j.tab /\ k.gen = j.gen
  BY <1>0 DEF Tables
<1> HIDE DEF k
<1>10. /\ LiveCode(k) = LiveCode(j)
       /\ \A m \in LiveCode(j) : /\ k.code[m].pc = j.code[m].pc /\ k.code[m].ver = j.code[m].ver
                                 /\ k.code[m].link = lk(m)
       /\ \A m, t : PointsTo(j, m, t) => PointsTo(k, m, t)
  BY <1>4, <1>6, <1>9 DEF LiveCode, PointsTo
<1>11. NoDanglingCode(k)
  <2>1. ASSUME NEW t \in Pcs PROVE PointsTo(k, k.tab[t].native, t) /\ PointsTo(k, k.ht[t], t)
    BY <1>0, <1>9, <1>10 DEF NoDanglingCode
  <2>2. ASSUME NEW m \in LiveCode(k) PROVE DOMAIN k.code[m].link = Links[k.code[m].pc]
    BY <1>4, <1>10
  <2>3. ASSUME NEW m \in LiveCode(k), NEW t \in Links[k.code[m].pc] PROVE PointsTo(k, k.code[m].link[t], t)
    <3>1. m \in LiveCode(j) /\ t \in Links[j.code[m].pc] /\ k.code[m].link[t] = lk(m)[t]
      BY <1>10
    <3>2. PointsTo(j, j.code[m].link[t], t) /\ PointsTo(j, n, pc)
      BY <1>0, <1>2, <3>1 DEF NoDanglingCode, PointsTo
    <3> QED BY <1>5, <1>10, <3>1, <3>2
  <2>4. ASSUME NEW s \in k.sites PROVE s[1] \in LiveCode(k)
    BY <1>0, <1>9, <1>10 DEF NoDanglingCode
  <2> QED BY <2>1, <2>2, <2>3, <2>4 DEF NoDanglingCode
<1>12. EntriesTrue(k)
  BY <1>0, <1>9, <1>10 DEF EntriesTrue, NoDanglingCode, PointsTo
<1>13. LinksWait(k)
  <2>1. ASSUME NEW m \in LiveCode(k), NEW t \in Links[k.code[m].pc]
        PROVE  (k.code[m].link[t] = NoCode) <=> (<<m, t>> \in k.sites)
    <3>1. m \in LiveCode(j) /\ t \in Links[j.code[m].pc] /\ k.code[m].link[t] = lk(m)[t]
      BY <1>10
    <3>2. (j.code[m].link[t] = NoCode) <=> (<<m, t>> \in j.sites)
      BY <1>0, <3>1 DEF LinksWait
    <3>3. <<m, t>> \in k.sites <=> <<m, t>> \in j.sites /\ t # pc
      BY <1>9
    <3> QED BY <1>2, <1>5, <3>1, <3>2, <3>3
  <2> QED BY <2>1 DEF LinksWait
<1>14. NoneWaitsInVain(k)
  BY <1>0, <1>9 DEF NoneWaitsInVain
<1>15. AllSound(k)
  BY <1>0, <1>6, <1>8, <1>9, <1>11, <1>12, <1>13, <1>14 DEF AllSound, Sound
<1> QED BY <1>1, <1>9, <1>10, <1>15

-----------------------------------------------------------------------------
(* After it, a block of pc is there, and code that was there is unchanged. *)
LEMMA EnsureOK ==
  ASSUME NEW j, AllSound(j), NEW pc \in Pcs, ram[pc] \in Versions
  PROVE  LET k == dynarec_ensure_block(j, pc)
         IN  /\ AllSound(k) /\ k.tab[pc].native # NoCode
             /\ \/ j.tab[pc].native # NoCode /\ k.tab = j.tab /\ k.gen = j.gen
                \/ k.tab[pc].ver = ram[pc] /\ k.tab[pc].gen = k.gen[PageOf[pc]]
<1> DEFINE m == compile_block(j, pc)
           q == apply_pending_patches(m, pc)
<1>1. CASE j.tab[pc].native # NoCode
  BY <1>1, HtOpsOK DEF dynarec_ensure_block
<1>2. CASE j.tab[pc].native = NoCode
  <2>1. dynarec_ensure_block(j, pc) = jit_ht_add(q, pc)
    BY <1>2 DEF dynarec_ensure_block
  <2>2. Entered(m, pc)
    BY CompileOK
  <2> HIDE DEF m
  <2>3. AllSound(q) /\ q.tab = m.tab /\ q.gen = m.gen
    BY <2>2, PatchesOK
  <2> HIDE DEF q
  <2>4. AllSound(jit_ht_add(q, pc)) /\ jit_ht_add(q, pc).tab = q.tab /\ jit_ht_add(q, pc).gen = q.gen
    BY <2>3, HtOpsOK
  <2> QED BY <2>1, <2>2, <2>3, <2>4 DEF Entered
<1> QED BY <1>1, <1>2

(* A block dropped and compiled again is the guest's code.                 *)
LEMMA RecompileOK ==
  ASSUME NEW j, AllSound(j), NEW pc \in Pcs, ram[pc] \in Versions
  PROVE  LET k == dynarec_ensure_block(jit_ht_remove(DropBlock(j, pc), pc), pc)
         IN  /\ AllSound(k) /\ k.tab[pc].native # NoCode
             /\ k.tab[pc].ver = ram[pc] /\ k.tab[pc].gen = k.gen[PageOf[pc]]
<1> DEFINE d == DropBlock(j, pc)
           r == jit_ht_remove(d, pc)
<1>1. AllSound(d) /\ d.tab[pc] = NoBlock
  BY DropOK
<1> HIDE DEF d
<1>2. AllSound(r) /\ r.tab = d.tab
  BY <1>1, HtOpsOK
<1> HIDE DEF r
<1>3. r.tab[pc].native = NoCode
  BY <1>1, <1>2 DEF NoBlock
<1> QED BY <1>2, <1>3, EnsureOK DEF r, d

LEMMA EpochOK ==
  ASSUME NEW j, AllSound(j), NEW pc \in Pcs, ram[pc] \in Versions, j.tab[pc].native # NoCode
  PROVE  LET k == EpochCheck(j, pc)
         IN  /\ AllSound(k) /\ k.tab[pc].native # NoCode
             /\ \/ k = j
                \/ k.tab[pc].ver = ram[pc] /\ k.tab[pc].gen = k.gen[PageOf[pc]]
<1> DEFINE f == [j EXCEPT !.ht = EmptyHt, !.flushed = j.epoch]
           h == IF j.flushed = j.epoch THEN j ELSE f
<1>1. CASE j.tab[pc].epoch = j.epoch
  BY <1>1 DEF EpochCheck
<1>2. CASE j.tab[pc].epoch # j.epoch
  <2>1. EpochCheck(j, pc) = dynarec_ensure_block(jit_ht_remove(DropBlock(h, pc), pc), pc)
    BY <1>2 DEF EpochCheck
  <2>2. AllSound(f)
    BY FlushOK
  <2>3. AllSound(h)
    BY <2>2
  <2> HIDE DEF h
  <2> QED BY <2>1, <2>3, RecompileOK
<1> QED BY <1>1, <1>2

LEMMA GenOK ==
  ASSUME NEW j, AllSound(j), NEW pc \in Pcs, ram[pc] \in Versions, j.tab[pc].native # NoCode
  PROVE  LET k == GenCheck(j, pc)
         IN  /\ AllSound(k) /\ k.tab[pc].native # NoCode
             /\ (Suspect(j, pc) \/ j.tab[pc].ver = ram[pc]) => k.code[k.tab[pc].native].ver = ram[pc]
<1>1. CASE Suspect(j, pc) /\ CodeChanged(j, pc)
  <2> DEFINE k == dynarec_ensure_block(jit_ht_remove(DropBlock(j, pc), pc), pc)
  <2>1. GenCheck(j, pc) = k
    BY <1>1 DEF GenCheck
  <2>2. AllSound(k) /\ k.tab[pc].native # NoCode /\ k.tab[pc].ver = ram[pc]
    BY RecompileOK
  <2> HIDE DEF k
  <2> QED BY <2>1, <2>2 DEF AllSound, Sound, EntriesTrue
<1>2. CASE Suspect(j, pc) /\ ~CodeChanged(j, pc)
  <2> DEFINE k == CodeVerified(j, pc)
  <2>1. GenCheck(j, pc) = k
    BY <1>2 DEF GenCheck
  <2>2. AllSound(k) /\ k.tab[pc].native = j.tab[pc].native /\ k.code = j.code
    BY VerifyOK
  <2>3. j.code[j.tab[pc].native].ver = ram[pc]
    BY <1>2 DEF AllSound, Sound, EntriesTrue, CodeChanged
  <2> HIDE DEF k
  <2> QED BY <2>1, <2>2, <2>3
<1>3. CASE ~Suspect(j, pc)
  <2>1. GenCheck(j, pc) = j
    BY <1>3 DEF GenCheck
  <2> QED BY <1>3, <2>1 DEF AllSound, Sound, EntriesTrue
<1> QED BY <1>1, <1>2, <1>3

LEMMA DispatchOK ==
  ASSUME NEW j, AllSound(j), NEW pc \in Pcs, ram[pc] \in Versions
  PROVE  LET k == GenCheck(EpochCheck(dynarec_ensure_block(j, pc), pc), pc)
         IN  /\ AllSound(k) /\ k.tab[pc].native # NoCode
             /\ Suspect(j, pc) => k.code[k.tab[pc].native].ver = ram[pc]
<1> DEFINE a == dynarec_ensure_block(j, pc)
           b == EpochCheck(a, pc)
           k == GenCheck(b, pc)
<1>1. /\ AllSound(a) /\ a.tab[pc].native # NoCode
      /\ Suspect(j, pc) => Suspect(a, pc) \/ a.tab[pc].ver = ram[pc]
  BY EnsureOK DEF Suspect
<1> HIDE DEF a
<1>2. AllSound(b) /\ b.tab[pc].native # NoCode /\ (b = a \/ b.tab[pc].ver = ram[pc])
  BY <1>1, EpochOK
<1> HIDE DEF b
<1>3. /\ AllSound(k) /\ k.tab[pc].native # NoCode
      /\ (Suspect(b, pc) \/ b.tab[pc].ver = ram[pc]) => k.code[k.tab[pc].native].ver = ram[pc]
  BY <1>2, GenOK
<1> HIDE DEF k
<1>4. Suspect(j, pc) => k.code[k.tab[pc].native].ver = ram[pc]
  BY <1>1, <1>2, <1>3
<1> QED BY <1>3, <1>4 DEF k, b, a

-----------------------------------------------------------------------------
LEMMA InitSound == JitInit => CodeTablesSound
<1> SUFFICES ASSUME JitInit PROVE CodeTablesSound
  OBVIOUS
<1>1. /\ NoBlocks \in [Pcs -> Entries] /\ \A pc \in Pcs : NoBlocks[pc].native = NoCode
      /\ EmptyHt \in [Pcs -> 0 .. CodeRoom] /\ \A pc \in Pcs : EmptyHt[pc] = NoCode
  BY JitConstants DEF NoBlocks, EmptyHt, NoBlock
<1>2. <<>> \in Seq(Natives) /\ Len(<<>>) = 0
  OBVIOUS
<1>3. jit \in Tables
  BY <1>1, <1>2, JitConstants DEF JitInit, Tables
<1>4. /\ jit.code = <<>> /\ jit.tab = NoBlocks /\ jit.ht = EmptyHt /\ jit.l2 = {} /\ jit.dirty = {}
      /\ jit.sites = {}
  BY DEF JitInit
<1>5. LiveCode(jit) = {} /\ Len(jit.code) <= CodeRoom
  BY <1>2, <1>4, JitConstants DEF LiveCode
<1>6. NoDanglingCode(jit) /\ EntriesTrue(jit) /\ LinksWait(jit) /\ NoneWaitsInVain(jit)
  BY <1>1, <1>4, <1>5 DEF NoDanglingCode, PointsTo, EntriesTrue, LinksWait, NoneWaitsInVain
<1>7. ram \in [Pcs -> Versions]
  BY JitAssumption DEF JitInit
<1>8. native \in 0 .. CodeRoom /\ curpc \in Pcs \cup {NoCode} /\ PointsTo(jit, native, curpc)
  BY JitConstants DEF JitInit, PointsTo
<1> QED BY <1>3, <1>4, <1>5, <1>6, <1>7, <1>8 DEF CodeTablesSound, JitTypeOK

LEMMA NextSound == CodeTablesSound /\ [JitNext]_jitVars => CodeTablesSound'
<1> SUFFICES ASSUME CodeTablesSound, [JitNext]_jitVars PROVE CodeTablesSound'
  OBVIOUS
<1> DEFINE Held == /\ ram' \in [Pcs -> Versions] /\ native' \in 0 .. CodeRoom /\ curpc' \in Pcs \cup {NoCode}
                   /\ PointsTo(jit', native', curpc') /\ AllSound(jit')
<1>0. /\ ram \in [Pcs -> Versions] /\ native \in 0 .. CodeRoom /\ curpc \in Pcs \cup {NoCode}
      /\ PointsTo(jit, native, curpc) /\ AllSound(jit)
  BY SoundSplit
<1>z. NoCode \in 0 .. CodeRoom /\ PointsTo(jit', NoCode, NoCode)
  BY JitConstants DEF PointsTo
<1>1. ASSUME NEW pc \in Pcs, JitDispatch(pc) PROVE Held
  <2>1. AllSound(jit')
    BY <1>0, <1>1, DispatchOK DEF JitDispatch
  <2>2. jit'.tab[pc] \in Entries /\ PointsTo(jit', jit'.tab[pc].native, pc)
    BY <2>1 DEF AllSound, Sound, NoDanglingCode, Tables
  <2>3. native' \in 0 .. CodeRoom /\ PointsTo(jit', native', curpc')
    BY <1>1, <2>2 DEF JitDispatch, Entries
  <2> QED BY <1>0, <1>1, <2>1, <2>3 DEF JitDispatch
<1>2. ASSUME NEW pc \in Pcs, JumpHt(pc) PROVE Held
  <2>1. jit.ht[pc] \in 0 .. CodeRoom /\ PointsTo(jit, jit.ht[pc], pc)
    BY <1>0 DEF AllSound, Sound, NoDanglingCode, Tables
  <2> QED BY <1>0, <1>2, <2>1 DEF JumpHt
<1>3. ASSUME NEW t \in Pcs, FollowLink(t) PROVE Held
  <2> DEFINE n == jit.code[native].link[t]
  <2>1. native \in LiveCode(jit) /\ jit.code[native].pc = curpc /\ t \in Links[curpc]
    BY <1>0, <1>3 DEF FollowLink, InNative, PointsTo
  <2>2. PointsTo(jit, n, t) /\ n # NoCode
    BY <1>0, <1>3, <2>1 DEF FollowLink, AllSound, Sound, NoDanglingCode
  <2>3. n \in LiveCode(jit)
    BY <2>2 DEF PointsTo
  <2>4. n \in 0 .. CodeRoom
    <3>1. Len(jit.code) \in Nat /\ Len(jit.code) <= CodeRoom
      BY <1>0 DEF AllSound, Sound, Tables
    <3> QED BY <2>3, <3>1, JitConstants DEF LiveCode
  <2> QED BY <1>0, <1>3, <2>2, <2>4 DEF FollowLink
<1>4. ASSUME NEW pc \in Pcs, ChainPolls(pc) PROVE Held
  <2>1. AllSound(jit')
    BY <1>0, <1>4, ChainPollsOK
  <2> QED BY <1>0, <1>4, <1>z, <2>1 DEF ChainPolls
<1>5. ASSUME DispatchPolled PROVE Held
  <2>1. AllSound(jit')
    BY <1>0, <1>5, RestoreOK DEF DispatchPolled
  <2> QED BY <1>0, <1>5, <1>z, <2>1 DEF DispatchPolled, PointsTo
<1>6. ASSUME JitChainEnds PROVE Held
  <2>1. AllSound(jit')
    BY <1>0, <1>6, RestoreOK DEF JitChainEnds
  <2> QED BY <1>0, <1>6, <1>z, <2>1 DEF JitChainEnds
<1>7. ASSUME NEW pc \in Pcs, NEW v \in Versions, StoreConst(pc, v) \/ WriteBus(pc, v) \/ StoreVar(pc, v) PROVE Held
  <2>1. PageOf[pc] \in Pages
    BY JitConstants
  <2>2. ram' \in [Pcs -> Versions] /\ native' = native /\ curpc' = curpc
    BY <1>0, <1>7 DEF StoreConst, WriteBus, StoreVar, WriteCode
  <2>3. jit' \in {jit, jit_smc_handler(jit, PageOf[pc]), jit_invalidate_page(jit, PageOf[pc])}
    BY <1>7 DEF StoreConst, WriteBus, StoreVar
  <2>4. AllSound(jit') /\ PointsTo(jit', native, curpc)
    BY <1>0, <2>1, <2>3, SmcOK, InvalidateOK
  <2> QED BY <1>0, <2>2, <2>4
<1>8. ASSUME UNCHANGED jitVars PROVE Held
  BY <1>0, <1>8 DEF jitVars
<1>9. Held
  BY <1>1, <1>2, <1>3, <1>4, <1>5, <1>6, <1>7, <1>8 DEF JitNext
<1> QED BY <1>9 DEF CodeTablesSound, JitTypeOK, AllSound, Sound

(* Nothing in the recompiler leads to code that is gone, belongs to        *)
(* another block, or waits for a block that is there: dynarec_cache.c.     *)
THEOREM TablesAlwaysSound == JitSpec => []CodeTablesSound
BY InitSound, NextSound, PTL DEF JitSpec

(* run_jit_chain starts no block of a written page before it has compared  *)
(* or recompiled it.                                                       *)
THEOREM SuspectsAlwaysChecked == JitSpec => SuspectsAreChecked
<1>1. CodeTablesSound /\ [JitNext]_jitVars => [StartIsChecked]_jitVars
  <2> SUFFICES ASSUME CodeTablesSound, NEW pc \in Pcs, Suspect(jit, pc), JitDispatch(pc)
               PROVE  native' # NoCode /\ jit'.code[native'].ver = ram[pc]
    BY DEF StartIsChecked
  <2>1. AllSound(jit) /\ ram[pc] \in Versions
    BY SoundSplit
  <2>2. jit'.tab[pc].native # NoCode /\ jit'.code[jit'.tab[pc].native].ver = ram[pc]
    BY <2>1, DispatchOK DEF JitDispatch
  <2> QED BY <2>2 DEF JitDispatch
<1> QED BY <1>1, TablesAlwaysSound, PTL DEF JitSpec, SuspectsAreChecked

-----------------------------------------------------------------------------
(* What is left of a GTE command is never more than the compiler counts.   *)
StallInv == cycles \in Nat /\ stall \in Nat /\ gteDone \in Nat /\ gteDone <= cycles + stall

LEMMA CostOK == \A i : r3000a_cycle_cost(i) \in Nat \ {0}
BY DEF r3000a_cycle_cost

LEMMA StallStep == StallInv /\ [ScanNext]_scanVars => StallInv' /\ [StallCovers]_scanVars
<1> SUFFICES ASSUME StallInv, [ScanNext]_scanVars PROVE StallInv' /\ [StallCovers]_scanVars
  OBVIOUS
<1>1. CASE RunBefore /\ ~RunBlock
  BY <1>1 DEF RunBefore, StallInv, StallCovers
<1>2. CASE RunBlock
  <2> DEFINE i == code[pos]
             c == r3000a_cycle_cost(i)
  <2>1. c \in Nat \ {0} /\ GtePipeline \in Nat \ {0}
    BY CostOK, ScanAssumption
  <2>2. /\ cycles' = cycles + StallCycles(i) + c /\ stall' = StallAfter(i)
        /\ gteDone' = IF i.kind = "cop2" THEN cycles + StallCycles(i) + GtePipeline ELSE gteDone
    BY <1>2 DEF RunBlock
  <2>3. StallCycles(i) = IF GteAccess(i) /\ stall > 0 THEN stall + 1 ELSE 0
    BY DEF StallCycles
  <2>4. i.kind = "cop2" => GteAccess(i)
    BY DEF GteAccess
  <2>5. StallAfter(i) = IF i.kind = "cop2" THEN GtePipeline - 1
                        ELSE IF GteAccess(i) THEN 0 ELSE IF stall > 0 THEN stall - 1 ELSE 0
    BY <2>1, <2>4 DEF StallAfter, StallInv
  <2> HIDE DEF c, i
  <2>6. StallInv'
    BY <2>1, <2>2, <2>3, <2>4, <2>5 DEF StallInv
  <2>7. GteAccess(i) => cycles' - c >= gteDone
    BY <2>1, <2>2, <2>3 DEF StallInv
  <2> QED BY <2>6, <2>7 DEF StallCovers, c, i
<1>3. CASE UNCHANGED scanVars
  BY <1>3 DEF scanVars, StallInv
<1> QED BY <1>1, <1>2, <1>3 DEF ScanNext

(* For every program and pipeline length, an access to the coprocessor is  *)
(* charged at least the time it waits: compile_block's stall count.        *)
THEOREM StallsAlwaysSuffice == ScanSpec => StallsSuffice
<1>1. ScanInit => StallInv
  BY DEF ScanInit, StallInv
<1> QED BY <1>1, StallStep, PTL DEF ScanSpec, StallsSuffice

-----------------------------------------------------------------------------
(* What the program and the start of the block are, in every run.          *)
InsnsOK == code \in Seq(ScanInsns) /\ start \in 1 .. Len(code)

LEMMA ScanConstants ==
  0 \notin ScanRegs /\ Programs \subseteq Seq(ScanInsns) /\ GtePipeline \in Nat \ {0}
BY ScanAssumption

(* Induction down a finite interval.                                       *)
LEMMA Downwards ==
  ASSUME NEW lo \in Nat, NEW hi \in Nat, NEW S, hi \in S,
         \A n \in lo .. hi - 1 : n + 1 \in S => n \in S
  PROVE  \A n \in lo .. hi : n \in S
<1> DEFINE R == {ss \in Nat \X Nat : ss[1] < ss[2]}
           T == {x \in 0 .. hi - lo : hi - x \notin S}
<1>1. IsWellFoundedOn(R, Nat)
  BY NatLessThanWellFounded DEF OpToRel
<1>2. T \subseteq Nat
  OBVIOUS
<1>3. CASE T = {}
  <2> TAKE n \in lo .. hi
  <2>1. hi - n \in 0 .. hi - lo /\ hi - (hi - n) = n
    OBVIOUS
  <2>2. n \notin S => hi - n \in T
    BY <2>1
  <2> QED BY <2>2, <1>3
<1>4. CASE T # {}
  <2> HIDE DEF R, T
  <2>1. PICK m \in T : \A y \in T : ~(<<y, m>> \in R)
    BY <1>1, <1>2, <1>4, WFMin
  <2>2. m \in 0 .. hi - lo /\ hi - m \notin S /\ m # 0
    <3>1. m \in 0 .. hi - lo /\ hi - m \notin S
      BY DEF T
    <3>2. m = 0 => hi - m = hi
      BY <3>1
    <3> QED BY <3>1, <3>2
  <2>3. hi - (m - 1) \in S
    <3>1. m - 1 \in Nat /\ m \in Nat /\ m - 1 < m
      BY <2>2
    <3>2. <<m - 1, m>> \in R
      BY <3>1 DEF R
    <3>3. m - 1 \notin T
      BY <3>2, <2>1
    <3> QED BY <3>3, <2>2 DEF T
  <2>4. hi - m \in lo .. hi - 1 /\ (hi - m) + 1 = hi - (m - 1)
    BY <2>2
  <2> QED BY <2>2, <2>3, <2>4
<1> QED BY <1>3, <1>4

(* The smallest number of an interval that is in a set, when its end is.   *)
LEMMA FirstOf ==
  ASSUME NEW lo \in Nat, NEW hi \in Nat, lo <= hi, NEW S, hi \in S
  PROVE  \E n \in lo .. hi : n \in S /\ \A m \in lo .. n - 1 : m \notin S
<1> DEFINE U == {n \in lo .. hi : \E k \in n .. hi : k \in S /\ \A m \in n .. k - 1 : m \notin S}
<1>1. hi \in U
  OBVIOUS
<1>2. ASSUME NEW n \in lo .. hi - 1, n + 1 \in U PROVE n \in U
  <2>1. PICK k \in n + 1 .. hi : k \in S /\ \A m \in n + 1 .. k - 1 : m \notin S
    BY <1>2
  <2>2. CASE n \in S
    BY <2>2
  <2>3. CASE n \notin S
    <3>1. \A m \in n .. k - 1 : m \notin S
      <4> TAKE m \in n .. k - 1
      <4>1. m = n \/ m \in n + 1 .. k - 1
        OBVIOUS
      <4> QED BY <4>1, <2>1, <2>3
    <3>2. k \in n .. hi
      OBVIOUS
    <3> QED BY <2>1, <3>1, <3>2
  <2> QED BY <2>2, <2>3
<1> HIDE DEF U
<1>3. \A n \in lo .. hi : n \in U
  BY <1>1, <1>2, Downwards
<1>4. lo \in U
  BY <1>3
<1> QED BY <1>4 DEF U

(* The block ends within the program.                                      *)
LEMMA LastInsnOK == InsnsOK => LastInsn \in start .. Len(code)
<1> SUFFICES ASSUME InsnsOK PROVE LastInsn \in start .. Len(code)
  OBVIOUS
<1> DEFINE Stops(n) == (n > start /\ EndsBlock(code[n - 1])) \/ code[n].kind = "syscall" \/ n = Len(code)
           S == {n \in start .. Len(code) : Stops(n)}
<1>1. start \in Nat /\ Len(code) \in Nat /\ start <= Len(code)
  BY DEF InsnsOK
<1>2. Len(code) \in S
  BY <1>1
<1>3. \E n \in start .. Len(code) : n \in S /\ \A m \in start .. n - 1 : m \notin S
  <2> HIDE DEF S
  <2> QED BY <1>1, <1>2, FirstOf
<1>4. \E n \in start .. Len(code) : Stops(n) /\ \A m \in start .. n - 1 : ~Stops(m)
  <2>1. PICK n \in start .. Len(code) : n \in S /\ \A m \in start .. n - 1 : m \notin S
    BY <1>3
  <2>2. \A m \in start .. n - 1 : m \in start .. Len(code)
    BY <1>1
  <2> QED BY <2>1, <2>2
<1> HIDE DEF Stops
<1>5. (CHOOSE n \in start .. Len(code) : Stops(n) /\ \A m \in start .. n - 1 : ~Stops(m)) \in start .. Len(code)
  BY <1>4
<1> QED BY <1>5 DEF LastInsn, Stops

-----------------------------------------------------------------------------
(* What one step backwards makes of the liveness behind an instruction.    *)
LiveStep(after, n) ==
  IF Dead(n, after.live)
    THEN [after EXCEPT !.dead = @ \cup {n}]
    ELSE [after EXCEPT !.live = (@ \ dce_dest_gpr(code[n])) \cup dce_read_mask(code[n])]

LEMMA LiveIs ==
  InsnsOK =>
    live = [n \in start .. LastInsn + 1 |->
              IF n = LastInsn + 1 THEN [live |-> ScanRegs, dead |-> {}] ELSE LiveStep(live[n + 1], n)]
<1> SUFFICES ASSUME InsnsOK
             PROVE  live = [n \in start .. LastInsn + 1 |->
                              IF n = LastInsn + 1 THEN [live |-> ScanRegs, dead |-> {}] ELSE LiveStep(live[n + 1], n)]
  OBVIOUS
<1> DEFINE top == LastInsn + 1
           Body(f, n) == IF n = top THEN [live |-> ScanRegs, dead |-> {}] ELSE LiveStep(f[n + 1], n)
           S == {k \in start .. top : \E f : f = [n \in k .. top |-> Body(f, n)]}
<1>1. start \in Nat /\ top \in Nat /\ start <= top
  BY LastInsnOK DEF InsnsOK
<1>2. top \in S
  <2> DEFINE g == [n \in top .. top |-> [live |-> ScanRegs, dead |-> {}]]
  <2>1. \A n \in top .. top : n = top
    BY <1>1
  <2>2. g = [n \in top .. top |-> Body(g, n)]
    BY <2>1
  <2>3. \E f : f = [n \in top .. top |-> Body(f, n)]
    BY <2>2
  <2> HIDE DEF top
  <2> QED BY <1>1, <2>3
<1>3. ASSUME NEW k \in start .. top - 1, k + 1 \in S PROVE k \in S
  <2> HIDE DEF top
  <2>1. PICK f : f = [n \in k + 1 .. top |-> Body(f, n)]
    BY <1>3
  <2> DEFINE g == [n \in k .. top |-> IF n = k THEN LiveStep(f[k + 1], k) ELSE f[n]]
  <2>2. \A n \in k .. top : g[n] = Body(g, n)
    <3> TAKE n \in k .. top
    <3>1. CASE n = k
      <4>1. k + 1 \in k .. top /\ k + 1 # k /\ k # top
        BY <1>1
      <4>2. g[k + 1] = f[k + 1]
        BY <4>1
      <4> QED BY <4>1, <4>2, <3>1
    <3>2. CASE n # k /\ n = top
      <4>1. n \in k + 1 .. top
        BY <3>2, <1>1
      <4>2. g[n] = f[n]
        BY <3>2
      <4>3. f[n] = Body(f, n)
        BY <2>1, <4>1
      <4> QED BY <4>2, <4>3, <3>2
    <3>3. CASE n # k /\ n # top
      <4>1. n \in k + 1 .. top /\ n + 1 \in k .. top /\ n + 1 # k
        BY <3>3, <1>1
      <4>2. g[n] = f[n] /\ g[n + 1] = f[n + 1]
        BY <3>3, <4>1
      <4>3. f[n] = Body(f, n)
        BY <2>1, <4>1
      <4> QED BY <4>2, <4>3, <3>3
    <3> QED BY <3>1, <3>2, <3>3
  <2>3. g = [n \in k .. top |-> Body(g, n)]
    <3> HIDE DEF Body
    <3> QED BY <2>2
  <2>4. \E h : h = [n \in k .. top |-> Body(h, n)]
    BY <2>3
  <2>5. k \in start .. top
    BY <1>1
  <2> QED BY <2>4, <2>5
<1> HIDE DEF S
<1>4. \A k \in start .. top : k \in S
  <2> HIDE DEF top
  <2> QED BY <1>1, <1>2, <1>3, Downwards
<1>5. \E f : f = [n \in start .. top |-> Body(f, n)]
  <2>1. start \in S
    <3> HIDE DEF top
    <3> QED BY <1>1, <1>4
  <2> QED BY <2>1 DEF S
<1>6. live = CHOOSE f : f = [n \in start .. top |-> Body(f, n)]
  BY DEF live, LiveStep
<1> HIDE DEF Body, top
<1>7. live = [n \in start .. top |-> Body(live, n)]
  BY <1>5, <1>6, Zenon
<1> QED BY <1>7 DEF Body, top

LEMMA InsnIs ==
  ASSUME InsnsOK, NEW n \in 1 .. Len(code)
  PROVE  /\ code[n] \in ScanInsns /\ code[n].kind \in ScanKinds /\ code[n].d \in ScanRegs \cup {0}
         /\ code[n].s \subseteq ScanRegs \cup {0} /\ (code[n].kind \in NoSources => code[n].s = {})
BY DEF InsnsOK, ScanInsns

LEMMA MasksOK ==
  ASSUME InsnsOK, NEW n \in 1 .. Len(code)
  PROVE  /\ dce_read_mask(code[n]) = Needs(code[n]) /\ Needs(code[n]) \subseteq ScanRegs
         /\ scan_write_mask(code[n]) \subseteq ScanRegs
         /\ dce_dest_gpr(code[n]) \subseteq scan_write_mask(code[n])
<1> DEFINE i == code[n]
<1>1. /\ i.kind \in ScanKinds /\ i.d \in ScanRegs \cup {0}
      /\ i.s \subseteq ScanRegs \cup {0} /\ (i.kind \in NoSources => i.s = {})
  BY InsnIs
<1> HIDE DEF i
<1>2. dce_read_mask(i) = Needs(i)
  <2>1. CASE i.kind = "lwx"
    BY <2>1 DEF dce_read_mask, Needs
  <2>2. CASE i.kind \in NoSources
    BY <2>2, <1>1 DEF dce_read_mask, Needs, NoSources
  <2>3. CASE i.kind \in {"alu", "mult", "store", "mtc", "branch", "jr", "load", "lwc2"}
    BY <2>3 DEF dce_read_mask, Needs
  <2> QED BY <1>1, <2>1, <2>2, <2>3 DEF ScanKinds, NoSources
<1>3. Needs(i) \subseteq ScanRegs
  BY <1>1 DEF Needs
<1>4. scan_write_mask(i) \subseteq ScanRegs /\ dce_dest_gpr(i) \subseteq scan_write_mask(i)
  BY <1>1 DEF scan_write_mask, dce_dest_gpr
<1> QED BY <1>2, <1>3, <1>4 DEF i

(* Liveness is what its steps say, and the dead instructions are those     *)
(* found dead on the way.                                                  *)
LEMMA LiveKnown ==
  ASSUME InsnsOK
  PROVE  \A k \in start .. LastInsn + 1 :
           /\ live[k] \in [live : SUBSET ScanRegs, dead : SUBSET Nat]
           /\ live[k].dead = {n \in k .. LastInsn : Dead(n, live[n + 1].live)}
<1> DEFINE top == LastInsn + 1
           Types == [live : SUBSET ScanRegs, dead : SUBSET Nat]
           S == {k \in start .. top : /\ live[k] \in Types
                                      /\ live[k].dead = {n \in k .. LastInsn : Dead(n, live[n + 1].live)}}
<1>1. start \in Nat /\ top \in Nat /\ start <= top /\ LastInsn \in Nat /\ LastInsn <= Len(code) /\ start # 0
  BY LastInsnOK DEF InsnsOK
<1>2. top \in S
  <2>1. live[top] = [live |-> ScanRegs, dead |-> {}]
    <3>1. LastInsn + 1 \in start .. LastInsn + 1
      BY <1>1
    <3> QED BY <3>1, LiveIs
  <2>2. top .. LastInsn = {}
    BY <1>1
  <2>3. live[top].dead = {n \in top .. LastInsn : Dead(n, live[n + 1].live)}
    BY <2>1, <2>2
  <2> QED BY <2>1, <2>3, <1>1
<1>3. ASSUME NEW k \in start .. top - 1, k + 1 \in S PROVE k \in S
  <2> DEFINE after == live[k + 1]
  <2>1. live[k] = LiveStep(after, k)
    <3>1. k \in start .. LastInsn + 1 /\ k # LastInsn + 1
      BY <1>1
    <3> QED BY <3>1, LiveIs
  <2>2. after \in Types /\ after.dead = {n \in k + 1 .. LastInsn : Dead(n, live[n + 1].live)}
    BY <1>3
  <2>3. k \in 1 .. Len(code) /\ k \in k .. LastInsn
    BY <1>1
  <2>4. dce_read_mask(code[k]) \subseteq ScanRegs
    BY <2>3, MasksOK
  <2> DEFINE dead == Dead(k, after.live)
  <2> HIDE DEF after
  <2>5. /\ live[k] \in Types
        /\ live[k].dead = IF dead THEN after.dead \cup {k} ELSE after.dead
    <3> HIDE DEF dead
    <3>1. CASE dead
      <4>1. LiveStep(after, k) = [after EXCEPT !.dead = @ \cup {k}]
        BY <3>1 DEF LiveStep, dead
      <4> QED BY <4>1, <2>1, <2>2, <2>3, <3>1
    <3>2. CASE ~dead
      <4>1. LiveStep(after, k) = [after EXCEPT !.live = (@ \ dce_dest_gpr(code[k])) \cup dce_read_mask(code[k])]
        BY <3>2 DEF LiveStep, dead
      <4> QED BY <4>1, <2>1, <2>2, <2>4, <3>2
    <3> QED BY <3>1, <3>2
  <2>6. dead <=> Dead(k, live[k + 1].live)
    BY DEF after
  <2> HIDE DEF dead
  <2>7. live[k].dead = {n \in k .. LastInsn : Dead(n, live[n + 1].live)}
    <3>1. \A n : n \in k .. LastInsn <=> n = k \/ n \in k + 1 .. LastInsn
      BY <1>1
    <3> QED BY <3>1, <2>2, <2>5, <2>6
  <2>8. k \in start .. top
    BY <1>1
  <2> QED BY <2>5, <2>7, <2>8
<1> HIDE DEF S
<1>4. \A k \in start .. top : k \in S
  <2> HIDE DEF top
  <2> QED BY <1>1, <1>2, <1>3, Downwards
<1> QED BY <1>4 DEF S

LEMMA DeadIs ==
  ASSUME InsnsOK, NEW n \in start .. LastInsn
  PROVE  /\ n \in dce_dead_mask => Dead(n, live[n + 1].live) /\ live[n].live = live[n + 1].live
         /\ n \notin dce_dead_mask =>
              live[n].live = (live[n + 1].live \ dce_dest_gpr(code[n])) \cup dce_read_mask(code[n])
<1>1. start \in Nat /\ LastInsn \in Nat /\ start \in start .. LastInsn + 1
  BY LastInsnOK DEF InsnsOK
<1>2. n \in dce_dead_mask <=> Dead(n, live[n + 1].live)
  BY <1>1, LiveKnown DEF dce_dead_mask
<1>3. n \in start .. LastInsn + 1 /\ n # LastInsn + 1 /\ n + 1 \in start .. LastInsn + 1
  BY <1>1
<1>4. live[n] = LiveStep(live[n + 1], n)
  BY <1>3, LiveIs
<1>5. live[n + 1] \in [live : SUBSET ScanRegs, dead : SUBSET Nat]
  BY <1>3, LiveKnown
<1> QED BY <1>2, <1>4, <1>5 DEF LiveStep

LEMMA LiveAtEnd ==
  ASSUME InsnsOK
  PROVE  live[LastInsn + 1].live = ScanRegs
<1>1. LastInsn + 1 \in start .. LastInsn + 1
  BY LastInsnOK DEF InsnsOK
<1> QED BY <1>1, LiveIs

-----------------------------------------------------------------------------
Loads == [d : ScanRegs \cup {0}, at : 0 .. Len(code)]
Machines == [regs : [ScanRegs -> 0 .. Len(code)], delay : Loads, commit : Loads]

(* The kinds whose result is there at once, and those that load.           *)
AtOnce(i) == i.d # 0 /\ i.kind \in {"alu", "lui", "mfhi", "jal", "mfc", "cfc"}
ToLoad(i) == i.d # 0 /\ i.kind \in {"load", "lwx"}

Arrived(m, a) ==
  /\ a \in Machines /\ a.delay = NoLoad /\ a.commit = m.delay
  /\ \A r \in ScanRegs :
       a.regs[r] = IF r = m.commit.d /\ r # m.delay.d THEN m.commit.at ELSE m.regs[r]

LEMMA ArriveIs ==
  ASSUME InsnsOK, NEW m \in Machines
  PROVE  Arrived(m, Arrive(m))
<1>1. NoLoad \in Loads
  BY DEF NoLoad, Loads, InsnsOK
<1>2. m.commit \in Loads /\ m.delay \in Loads /\ m.regs \in [ScanRegs -> 0 .. Len(code)] /\ 0 \notin ScanRegs
  BY ScanConstants DEF Machines
<1>3. m.commit.d \in ScanRegs \cup {0} /\ m.commit.at \in 0 .. Len(code)
  BY <1>2 DEF Loads
<1> DEFINE regs == IF m.commit.d \notin {0, m.delay.d} THEN [m.regs EXCEPT ![m.commit.d] = m.commit.at] ELSE m.regs
<1>4. /\ regs \in [ScanRegs -> 0 .. Len(code)]
      /\ \A r \in ScanRegs : regs[r] = IF r = m.commit.d /\ r # m.delay.d THEN m.commit.at ELSE m.regs[r]
  BY <1>2, <1>3
<1>5. Arrive(m) = [regs |-> regs, commit |-> m.delay, delay |-> NoLoad]
  BY DEF Arrive
<1> HIDE DEF regs
<1> QED BY <1>1, <1>2, <1>4, <1>5 DEF Arrived, Machines

Ran(a, i, n, b) ==
  /\ b \in Machines
  /\ b.delay = IF ToLoad(i) THEN [d |-> i.d, at |-> n] ELSE NoLoad
  /\ b.commit = IF AtOnce(i) /\ a.commit.d = i.d THEN NoLoad ELSE a.commit
  /\ \A r \in ScanRegs : b.regs[r] = IF AtOnce(i) /\ r = i.d THEN n ELSE a.regs[r]

LEMMA RunIs ==
  ASSUME InsnsOK, NEW m \in Machines, NEW n \in 1 .. Len(code)
  PROVE  Ran(Arrive(m), code[n], n, Run(m, n))
<1> DEFINE a == Arrive(m)
           i == code[n]
<1>1. NoLoad \in Loads /\ n \in 0 .. Len(code)
  BY DEF NoLoad, Loads, InsnsOK
<1>2. a \in Machines /\ a.delay = NoLoad
  BY ArriveIs DEF Arrived
<1>3. a.commit \in Loads /\ a.regs \in [ScanRegs -> 0 .. Len(code)] /\ 0 \notin ScanRegs
  BY <1>2, ScanConstants DEF Machines
<1>4. i.d \in ScanRegs \cup {0}
  BY InsnIs
<1>5. ASSUME AtOnce(i) PROVE Ran(a, i, n, Run(m, n))
  <2>1. Run(m, n) = [a EXCEPT !.regs[i.d] = n, !.commit = IF @.d = i.d THEN NoLoad ELSE @]
    BY <1>5 DEF Run, AtOnce
  <2>2. ~ToLoad(i) /\ i.d \in ScanRegs
    BY <1>4, <1>5 DEF AtOnce, ToLoad
  <2> DEFINE regs == [a.regs EXCEPT ![i.d] = n]
             commit == IF a.commit.d = i.d THEN NoLoad ELSE a.commit
  <2> HIDE DEF a, i
  <2>3. /\ regs \in [ScanRegs -> 0 .. Len(code)]
        /\ \A r \in ScanRegs : regs[r] = IF r = i.d THEN n ELSE a.regs[r]
    BY <1>1, <1>3, <2>2
  <2>4. commit \in Loads
    BY <1>1, <1>3
  <2>5. Run(m, n) = [regs |-> regs, delay |-> a.delay, commit |-> commit]
    BY <1>2, <2>1 DEF Machines
  <2> HIDE DEF regs
  <2>6. Run(m, n) \in Machines
    BY <1>1, <1>2, <2>3, <2>4, <2>5 DEF Machines
  <2> QED BY <1>2, <1>5, <2>2, <2>3, <2>5, <2>6 DEF Ran
<1>6. ASSUME ToLoad(i) PROVE Ran(a, i, n, Run(m, n))
  <2>1. Run(m, n) = [a EXCEPT !.delay = [d |-> i.d, at |-> n]]
    BY <1>6 DEF Run, ToLoad
  <2>2. ~AtOnce(i) /\ [d |-> i.d, at |-> n] \in Loads
    BY <1>1, <1>4, <1>6 DEF AtOnce, ToLoad, Loads
  <2> HIDE DEF a, i
  <2> QED BY <1>2, <1>6, <2>1, <2>2 DEF Ran, Machines
<1>7. ASSUME ~AtOnce(i) /\ ~ToLoad(i) PROVE Ran(a, i, n, Run(m, n))
  <2>1. Run(m, n) = a
    BY <1>7 DEF Run, AtOnce, ToLoad
  <2> HIDE DEF a, i
  <2> QED BY <1>2, <1>7, <2>1 DEF Ran
<1> QED BY <1>5, <1>6, <1>7

-----------------------------------------------------------------------------
(* The newest value of a register, landed or in flight, is from the block. *)
Newest(m, r) ==
  IF m.delay.d = r THEN m.delay.at >= start
  ELSE IF m.commit.d = r THEN m.commit.at >= start ELSE m.regs[r] >= start

(* The value a LUI left is in its register, and no load is on its way.     *)
Kept(m, n) ==
  LET d == code[n].d IN m.regs[d] = n /\ m.commit.d # d /\ m.delay.d # d
Lasts(n) ==
  /\ code[n].kind = "lui" /\ code[n].d # 0
  /\ \A k \in n + 1 .. pos - 1 : code[n].d \notin BackWrites(code[k])

(* The two runs have the same loads in flight and the same values in every *)
(* register that is live; what the block has written stays newest; what a  *)
(* LUI before the block wrote stays until something else writes it.        *)
SameAt(f, l, n) ==
  /\ l.delay = f.delay /\ l.commit = f.commit
  /\ \A r \in ScanRegs : r \in live[n].live => l.regs[r] = f.regs[r]
Written == \A n \in start .. pos - 1 : \A r \in scan_write_mask(code[n]) : Newest(full, r)
LuiKept == \A n \in 1 .. pos - 1 : Lasts(n) => Kept(full, n)
ScanIInv ==
  /\ InsnsOK /\ pos \in 1 .. LastInsn + 1
  /\ \A n \in 1 .. start - 1 : ~IsJump(code[n]) /\ code[n].kind \notin {"syscall", "cfc"}
  /\ full \in Machines /\ lean \in Machines /\ stall \in 0 .. GtePipeline
  /\ pos <= start => lean = full /\ LuiKept
  /\ pos >= start => SameAt(full, lean, pos) /\ Written

LEMMA ScanInitOK == ScanInit => ScanIInv
<1> SUFFICES ASSUME ScanInit PROVE ScanIInv
  OBVIOUS
<1>1. InsnsOK
  BY ScanConstants DEF ScanInit, InsnsOK
<1>2. LastInsn \in start .. Len(code) /\ start \in 1 .. Len(code)
  BY <1>1, LastInsnOK DEF InsnsOK
<1>3. Start \in Machines
  BY <1>1 DEF Start, Machines, Loads, NoLoad, InsnsOK
<1>4. pos \in 1 .. LastInsn + 1 /\ pos = 1
  BY <1>2 DEF ScanInit
<1>5. pos <= start => lean = full /\ LuiKept
  BY <1>4 DEF ScanInit, LuiKept
<1>6. SameAt(full, lean, pos) /\ Written
  BY <1>2, <1>4 DEF ScanInit, SameAt, Written
<1>7. stall \in 0 .. GtePipeline
  BY ScanConstants DEF ScanInit
<1> QED BY <1>1, <1>3, <1>4, <1>5, <1>6, <1>7 DEF ScanInit, ScanIInv

(* What the block has written stays newest.                                *)
LEMMA NewestStays ==
  ASSUME InsnsOK, NEW m \in Machines, NEW n \in start .. Len(code), NEW r \in ScanRegs,
         Newest(m, r) \/ r \in scan_write_mask(code[n])
  PROVE  Newest(Run(m, n), r)
<1> DEFINE a == Arrive(m)
           i == code[n]
           b == Run(m, n)
<1>1. n \in 1 .. Len(code) /\ n \in Nat /\ start \in Nat /\ n >= start /\ r # 0
  BY ScanConstants DEF InsnsOK
<1>2. Arrived(m, a) /\ Ran(a, i, n, b)
  BY <1>1, ArriveIs, RunIs
<1>3. NoLoad.d = 0
  BY DEF NoLoad
<1>4. r \in scan_write_mask(i) <=> (r = i.d /\ (AtOnce(i) \/ ToLoad(i)))
  BY <1>1 DEF scan_write_mask, AtOnce, ToLoad
<1>5. ~(AtOnce(i) /\ ToLoad(i))
  BY DEF AtOnce, ToLoad
<1>6. r \in scan_write_mask(i) \/ Newest(m, r)
  OBVIOUS
<1> HIDE DEF a, i, b
<1>7. ASSUME r \in scan_write_mask(i) PROVE Newest(b, r)
  <2>1. CASE ToLoad(i)
    BY <1>1, <1>2, <1>4, <1>7, <2>1 DEF Ran, Newest
  <2>2. CASE AtOnce(i)
    BY <1>1, <1>2, <1>3, <1>4, <1>5, <1>7, <2>2 DEF Ran, Newest
  <2> QED BY <1>4, <1>7, <2>1, <2>2
<1>8. ASSUME r \notin scan_write_mask(i) PROVE Newest(b, r)
  <2>1. IF m.delay.d = r THEN m.delay.at >= start
        ELSE IF m.commit.d = r THEN m.commit.at >= start ELSE m.regs[r] >= start
    BY <1>6, <1>8 DEF Newest
  <2>2. IF a.commit.d = r THEN a.commit.at >= start ELSE a.regs[r] >= start
    BY <1>2, <2>1 DEF Arrived
  <2>3. b.delay.d # r
    BY <1>1, <1>2, <1>3, <1>4, <1>8 DEF Ran
  <2>4. (b.commit = a.commit \/ (b.commit.d # r /\ a.commit.d # r)) /\ b.regs[r] = a.regs[r]
    BY <1>1, <1>2, <1>3, <1>4, <1>8 DEF Ran
  <2> QED BY <2>2, <2>3, <2>4 DEF Newest
<1> QED BY <1>7, <1>8 DEF b

LEMMA ScansStay ==
  UNCHANGED <<code, start>> => LastInsn' = LastInsn /\ live' = live /\ InsnsOK' = InsnsOK /\ Machines' = Machines
<1> SUFFICES ASSUME UNCHANGED <<code, start>> PROVE LastInsn' = LastInsn /\ live' = live /\ InsnsOK' = InsnsOK /\ Machines' = Machines
  OBVIOUS
<1>0. code' = code /\ start' = start
  OBVIOUS
<1>1. LastInsn' = LastInsn
  BY <1>0 DEF LastInsn, EndsBlock, IsJump
<1>2. live' = live
  BY <1>0, <1>1 DEF live, Dead
<1>3. InsnsOK' = InsnsOK
  BY <1>0 DEF InsnsOK
<1>4. Machines' = Machines
  BY <1>0 DEF Machines, Loads
<1> QED BY <1>1, <1>2, <1>3, <1>4

(* What a LUI before the block left stays.                                 *)
LEMMA LuiStays ==
  ASSUME InsnsOK, NEW m \in Machines, NEW p \in 1 .. Len(code), NEW n \in 1 .. p,
         ~IsJump(code[p]), code[p].kind # "cfc", code[n].kind = "lui", code[n].d # 0,
         n # p => Kept(m, n) /\ code[n].d \notin BackWrites(code[p])
  PROVE  Kept(Run(m, p), n)
<1> DEFINE a == Arrive(m)
           i == code[p]
           r == code[n].d
           b == Run(m, p)
<1>1. n \in 1 .. Len(code) /\ Len(code) \in Nat
  BY DEF InsnsOK
<1>2. r \in ScanRegs /\ r # 0
  BY <1>1, InsnIs
<1>3. Arrived(m, a) /\ Ran(a, i, p, b)
  BY ArriveIs, RunIs
<1>4. NoLoad.d = 0
  BY DEF NoLoad
<1>5. CASE n = p
  <2>1. AtOnce(i) /\ ~ToLoad(i) /\ i.d = r
    BY <1>2, <1>5 DEF AtOnce, ToLoad
  <2>2. b.regs[r] = n /\ b.commit.d # r /\ b.delay.d # r
    <3> HIDE DEF a, i, b, r
    <3> QED BY <1>2, <1>3, <1>4, <1>5, <2>1 DEF Ran
  <2> QED BY <2>2 DEF Kept
<1>6. CASE n # p
  <2>1. m.regs[r] = n /\ m.commit.d # r /\ m.delay.d # r
    BY <1>6 DEF Kept
  <2>2. r = i.d => ~AtOnce(i) /\ ~ToLoad(i)
    BY <1>2, <1>6 DEF BackWrites, AtOnce, ToLoad, IsJump
  <2>3. b.regs[r] = n /\ b.commit.d # r /\ b.delay.d # r
    <3> HIDE DEF a, i, b, r
    <3>1. a.regs[r] = n /\ a.commit.d # r
      BY <1>2, <1>3, <2>1 DEF Arrived
    <3> QED BY <1>2, <1>3, <1>4, <2>2, <3>1 DEF Ran
  <2> QED BY <2>3 DEF Kept
<1> QED BY <1>5, <1>6

(* A step with and without the dead instruction.                           *)
LeanStep(m, n) == IF n \in dce_dead_mask THEN Skipped(m, n) ELSE Run(m, n)

LEMMA LiveStays ==
  ASSUME InsnsOK, NEW f \in Machines, NEW l \in Machines, NEW n \in start .. LastInsn, SameAt(f, l, n)
  PROVE  LeanStep(l, n) \in Machines /\ SameAt(Run(f, n), LeanStep(l, n), n + 1)
<1> DEFINE af == Arrive(f)
           al == Arrive(l)
           i == code[n]
           f2 == Run(f, n)
           l2 == LeanStep(l, n)
<1>1. n \in 1 .. Len(code)
  BY LastInsnOK DEF InsnsOK
<1>2. Arrived(f, af) /\ Arrived(l, al) /\ Ran(af, i, n, f2)
  BY <1>1, ArriveIs, RunIs
<1>3. /\ al.commit = af.commit
      /\ \A r \in ScanRegs : r \in live[n].live => al.regs[r] = af.regs[r]
  <2> HIDE DEF af, al
  <2> QED BY <1>2 DEF Arrived, SameAt
<1>4. i.d \in ScanRegs \cup {0} /\ \A x \in dce_dest_gpr(i) : AtOnce(i) /\ x = i.d
  BY <1>1, InsnIs DEF dce_dest_gpr, AtOnce
<1>5. CASE n \in dce_dead_mask
  <2>1. Dead(n, live[n + 1].live) /\ live[n].live = live[n + 1].live
    BY <1>5, DeadIs
  <2>2. AtOnce(i) /\ i.d \notin live[n + 1].live /\ ~ToLoad(i)
    BY <1>4, <2>1 DEF Dead, AtOnce, ToLoad
  <2>3. l2 = [al EXCEPT !.commit = IF @.d = i.d THEN NoLoad ELSE @]
    BY <1>5 DEF LeanStep, Skipped
  <2> HIDE DEF al, af, f2, l2, i
  <2>4. al \in Machines /\ al.delay = NoLoad /\ NoLoad \in Loads
    BY <1>2 DEF Arrived, NoLoad, Loads, InsnsOK
  <2>5. l2 \in Machines
    BY <2>3, <2>4 DEF Machines
  <2>6. /\ l2.delay = NoLoad /\ l2.commit = IF al.commit.d = i.d THEN NoLoad ELSE al.commit
        /\ l2.regs = al.regs
    BY <2>3, <2>4 DEF Machines
  <2>7. SameAt(f2, l2, n + 1)
    BY <1>2, <1>3, <2>1, <2>2, <2>6 DEF Ran, SameAt
  <2> QED BY <2>5, <2>7 DEF l2, f2
<1>6. CASE n \notin dce_dead_mask
  <2>1. live[n].live = (live[n + 1].live \ dce_dest_gpr(i)) \cup dce_read_mask(i)
    BY <1>6, DeadIs
  <2>2. l2 = Run(l, n)
    BY <1>6 DEF LeanStep
  <2>3. Ran(al, i, n, l2)
    BY <1>1, <2>2, RunIs
  <2> HIDE DEF al, af, f2, l2, i
  <2>4. \A r \in ScanRegs : r \in live[n + 1].live => l2.regs[r] = f2.regs[r]
    BY <1>2, <1>3, <1>4, <2>1, <2>3 DEF Ran
  <2>5. l2 \in Machines /\ SameAt(f2, l2, n + 1)
    BY <1>2, <1>3, <2>3, <2>4 DEF Ran, SameAt
  <2> QED BY <2>5 DEF l2, f2
<1> QED BY <1>5, <1>6

LEMMA StallOK ==
  ASSUME stall \in 0 .. GtePipeline, NEW i
  PROVE  StallAfter(i) \in 0 .. GtePipeline
BY ScanConstants DEF StallAfter

LEMMA RunBeforeOK == ScanIInv /\ RunBefore => ScanIInv'
<1> SUFFICES ASSUME ScanIInv, RunBefore PROVE ScanIInv'
  OBVIOUS
<1>1. /\ InsnsOK /\ pos \in 1 .. LastInsn + 1 /\ pos < start /\ lean = full /\ LuiKept
      /\ full \in Machines /\ stall \in 0 .. GtePipeline
      /\ \A n \in 1 .. start - 1 : ~IsJump(code[n]) /\ code[n].kind \notin {"syscall", "cfc"}
  BY DEF ScanIInv, RunBefore, InsnsOK
<1>2. /\ full' = Run(full, pos) /\ lean' = full' /\ pos' = pos + 1
      /\ code' = code /\ start' = start /\ stall' = stall
  BY <1>1 DEF RunBefore
<1>3. /\ LastInsn' = LastInsn /\ live' = live /\ InsnsOK' /\ Machines' = Machines
  BY <1>1, <1>2, ScansStay
<1>4. start \in 1 .. Len(code) /\ LastInsn \in start .. Len(code) /\ Len(code) \in Nat
  BY <1>1, LastInsnOK DEF InsnsOK
<1>5. pos \in 1 .. Len(code) /\ pos' \in 1 .. LastInsn + 1 /\ pos' <= start
  BY <1>1, <1>2, <1>4
<1>6. full' \in Machines
  <2>1. Ran(Arrive(full), code[pos], pos, Run(full, pos))
    BY <1>1, <1>5, RunIs
  <2> QED BY <2>1, <1>2 DEF Ran
<1>7. LuiKept'
  <2> SUFFICES ASSUME NEW n \in 1 .. pos, Lasts(n)' PROVE Kept(Run(full, pos), n)
    BY <1>2, <1>5 DEF LuiKept, Kept
  <2>1. code[n].kind = "lui" /\ code[n].d # 0 /\ \A k \in n + 1 .. pos : code[n].d \notin BackWrites(code[k])
    <3>1. pos' - 1 = pos
      BY <1>2, <1>5
    <3> QED BY <1>2, <3>1 DEF Lasts, BackWrites
  <2>2. ASSUME n # pos PROVE Kept(full, n) /\ code[n].d \notin BackWrites(code[pos])
    <3>1. n \in 1 .. pos - 1 /\ pos \in n + 1 .. pos
      BY <2>2, <1>5
    <3>2. \A k \in n + 1 .. pos - 1 : k \in n + 1 .. pos
      BY <1>5
    <3>3. Lasts(n)
      BY <2>1, <3>2 DEF Lasts
    <3> QED BY <1>1, <2>1, <3>1, <3>3 DEF LuiKept
  <2>3. ~IsJump(code[pos]) /\ code[pos].kind # "cfc"
    <3>1. pos \in 1 .. start - 1
      BY <1>1, <1>4, <1>5
    <3> QED BY <1>1, <3>1
  <2> QED BY <1>1, <1>5, <2>1, <2>2, <2>3, LuiStays
<1>8. pos' >= start => SameAt(full, lean, pos)' /\ Written'
  <2>1. SameAt(full, lean, pos)'
    BY <1>2 DEF SameAt
  <2>2. Written'
    BY <1>2, <1>4, <1>5 DEF Written
  <2> QED BY <2>1, <2>2
<1>9. \A n \in 1 .. start' - 1 : (~IsJump(code[n]) /\ code[n].kind \notin {"syscall", "cfc"})'
  BY <1>1, <1>2 DEF IsJump
<1> QED BY <1>1, <1>2, <1>3, <1>5, <1>6, <1>7, <1>8, <1>9 DEF ScanIInv

LEMMA RunBlockOK == ScanIInv /\ RunBlock => ScanIInv'
<1> SUFFICES ASSUME ScanIInv, RunBlock PROVE ScanIInv'
  OBVIOUS
<1>1. /\ InsnsOK /\ pos \in start .. LastInsn
      /\ full \in Machines /\ lean \in Machines /\ stall \in 0 .. GtePipeline
      /\ \A n \in 1 .. start - 1 : ~IsJump(code[n]) /\ code[n].kind \notin {"syscall", "cfc"}
  BY DEF ScanIInv, RunBlock, Block
<1>2. /\ full' = Run(full, pos) /\ lean' = LeanStep(lean, pos) /\ pos' = pos + 1
      /\ code' = code /\ start' = start /\ stall' = StallAfter(code[pos])
  BY DEF RunBlock, LeanStep
<1>3. /\ LastInsn' = LastInsn /\ live' = live /\ InsnsOK' /\ Machines' = Machines
  BY <1>1, <1>2, ScansStay
<1>4. start \in 1 .. Len(code) /\ LastInsn \in start .. Len(code) /\ Len(code) \in Nat
  BY <1>1, LastInsnOK DEF InsnsOK
<1>5. pos \in start .. Len(code) /\ pos' \in 1 .. LastInsn + 1 /\ ~(pos' <= start) /\ pos >= start
  BY <1>1, <1>2, <1>4
<1>6. SameAt(full, lean, pos) /\ Written
  BY <1>5 DEF ScanIInv
<1>7. full' \in Machines
  <2>1. pos \in 1 .. Len(code)
    BY <1>4, <1>5
  <2>2. Ran(Arrive(full), code[pos], pos, Run(full, pos))
    BY <1>1, <2>1, RunIs
  <2> QED BY <2>2, <1>2 DEF Ran
<1>8. lean' \in Machines /\ SameAt(full, lean, pos)'
  <2>1. LeanStep(lean, pos) \in Machines /\ SameAt(Run(full, pos), LeanStep(lean, pos), pos + 1)
    BY <1>1, <1>6, LiveStays
  <2> QED BY <2>1, <1>2, <1>3 DEF SameAt
<1>9. Written'
  <2> SUFFICES ASSUME NEW n \in start .. pos, NEW r \in scan_write_mask(code[n])
               PROVE  Newest(Run(full, pos), r)
    BY <1>2, <1>5 DEF Written, Newest, scan_write_mask
  <2>1. n \in 1 .. Len(code)
    BY <1>4, <1>5
  <2>2. r \in ScanRegs
    BY <1>1, <2>1, MasksOK
  <2>3. n = pos \/ n \in start .. pos - 1
    BY <1>5
  <2>4. Newest(full, r) \/ r \in scan_write_mask(code[pos])
    BY <1>6, <2>3 DEF Written
  <2> QED BY <1>1, <1>5, <2>2, <2>4, NewestStays
<1>10. stall' \in 0 .. GtePipeline
  BY <1>1, <1>2, StallOK
<1>11. \A n \in 1 .. start' - 1 : (~IsJump(code[n]) /\ code[n].kind \notin {"syscall", "cfc"})'
  BY <1>1, <1>2 DEF IsJump
<1>12. ~(pos' <= start')
  BY <1>2, <1>5
<1> QED BY <1>3, <1>5, <1>7, <1>8, <1>9, <1>10, <1>11, <1>12 DEF ScanIInv

LEMMA ScanStays == UNCHANGED scanVars /\ ScanIInv => ScanIInv'
<1> SUFFICES ASSUME UNCHANGED scanVars, ScanIInv PROVE ScanIInv'
  OBVIOUS
<1>1. /\ code' = code /\ start' = start /\ pos' = pos /\ full' = full /\ lean' = lean /\ stall' = stall
  BY DEF scanVars
<1>2. /\ LastInsn' = LastInsn /\ live' = live /\ InsnsOK' = InsnsOK /\ Machines' = Machines
  BY <1>1, ScansStay
<1>3. LuiKept' = LuiKept
  BY <1>1 DEF LuiKept, Lasts, Kept, BackWrites
<1>4. SameAt(full, lean, pos)' = SameAt(full, lean, pos)
  BY <1>1, <1>2 DEF SameAt
<1>5. Written' = Written
  BY <1>1 DEF Written, Newest, scan_write_mask
<1>6. \A n \in 1 .. start - 1 : (~IsJump(code[n]) /\ code[n].kind \notin {"syscall", "cfc"})'
  BY <1>1 DEF ScanIInv, IsJump
<1> QED BY <1>1, <1>2, <1>3, <1>4, <1>5, <1>6 DEF ScanIInv

(* Settling two machines with the same loads in flight.                    *)
LEMMA SettleIs ==
  ASSUME InsnsOK, NEW m \in Machines
  PROVE  /\ Settle(m) \in [ScanRegs -> 0 .. Len(code)]
         /\ \A r \in ScanRegs :
              Settle(m)[r] = IF r = m.delay.d THEN m.delay.at
                             ELSE IF r = m.commit.d THEN m.commit.at ELSE m.regs[r]
<1> DEFINE a == Arrive(m)
           b == Arrive(a)
<1>1. Arrived(m, a)
  BY ArriveIs
<1>2. a \in Machines
  BY <1>1 DEF Arrived
<1>3. Arrived(a, b)
  BY <1>2, ArriveIs
<1>4. Settle(m) = b.regs /\ 0 \notin ScanRegs /\ NoLoad.d = 0
  BY ScanConstants DEF Settle, NoLoad
<1> HIDE DEF a, b
<1> QED BY <1>1, <1>3, <1>4 DEF Arrived, Machines

LEMMA DeadCodeOK == ScanIInv => DeadCodeIsDead
<1> SUFFICES ASSUME ScanIInv PROVE DeadCodeIsDead
  OBVIOUS
<1>1. InsnsOK /\ full \in Machines /\ lean \in Machines /\ pos \in 1 .. LastInsn + 1
  BY DEF ScanIInv
<1>2. start \in 1 .. Len(code) /\ LastInsn \in start .. Len(code) /\ Len(code) \in Nat
  BY <1>1, LastInsnOK DEF InsnsOK
<1>3. ASSUME pos \in Block \ dce_dead_mask, NEW r \in Needs(code[pos])
      PROVE  Arrive(lean).regs[r] = Arrive(full).regs[r]
  <2>1. pos \in start .. LastInsn /\ pos \in 1 .. Len(code) /\ pos >= start /\ pos \notin dce_dead_mask
    BY <1>2, <1>3 DEF Block
  <2>2. SameAt(full, lean, pos)
    BY <2>1 DEF ScanIInv
  <2>3. r \in ScanRegs /\ r \in live[pos].live
    BY <1>1, <1>3, <2>1, DeadIs, MasksOK
  <2>4. Arrived(full, Arrive(full)) /\ Arrived(lean, Arrive(lean))
    BY <1>1, ArriveIs
  <2> QED BY <2>2, <2>3, <2>4 DEF Arrived, SameAt
<1>4. ASSUME pos > LastInsn PROVE Settle(lean) = Settle(full)
  <2>1. pos = LastInsn + 1 /\ pos >= start
    BY <1>1, <1>2, <1>4
  <2>2. SameAt(full, lean, pos) /\ live[pos].live = ScanRegs
    BY <1>1, <2>1, LiveAtEnd DEF ScanIInv
  <2>3. \A r \in ScanRegs : Settle(lean)[r] = Settle(full)[r]
    BY <1>1, <2>2, SettleIs DEF SameAt
  <2> QED BY <1>1, <2>3, SettleIs
<1> QED BY <1>3, <1>4 DEF DeadCodeIsDead

LEMMA WriteFirstOK == ScanIInv => WriteFirstIsFirst
<1> SUFFICES ASSUME ScanIInv, pos \in Block, NEW r \in Needs(code[pos]) \cap write_first
             PROVE  \/ Arrive(full).regs[r] >= start
                    \/ Arrive(full).commit.d = r /\ Arrive(full).commit.at >= start
  BY DEF WriteFirstIsFirst
<1>1. InsnsOK /\ full \in Machines /\ pos \in start .. LastInsn
  BY DEF ScanIInv, Block
<1>2. start \in 1 .. Len(code) /\ LastInsn \in start .. Len(code) /\ Len(code) \in Nat
  BY <1>1, LastInsnOK DEF InsnsOK
<1>3. pos \in 1 .. Len(code) /\ pos >= start
  BY <1>1, <1>2
<1>4. r \in ScanRegs /\ r \in dce_read_mask(code[pos]) /\ r # 0
  BY <1>1, <1>3, MasksOK, ScanConstants
<1>5. PICK n \in start .. LastInsn :
        /\ r \in scan_write_mask(code[n]) \ dce_read_mask(code[n])
        /\ \A m \in start .. n - 1 : r \notin scan_write_mask(code[m]) \cup dce_read_mask(code[m])
  BY DEF write_first, Block
<1>6. n \in start .. pos - 1
  <2>1. n # pos
    BY <1>4, <1>5
  <2>2. pos \notin start .. n - 1
    BY <1>4, <1>5
  <2> QED BY <1>1, <1>2, <2>1, <2>2
<1>7. Newest(full, r)
  BY <1>3, <1>5, <1>6 DEF ScanIInv, Written
<1>8. Arrived(full, Arrive(full))
  BY <1>1, ArriveIs
<1> QED BY <1>4, <1>7, <1>8 DEF Arrived, Newest

LEMMA SeedsOK == ScanIInv => SeedsHold
<1> SUFFICES ASSUME ScanIInv, pos = start, NEW n \in Seeds
             PROVE  Settle(full)[code[n].d] = n
  BY DEF SeedsHold
<1>1. InsnsOK /\ full \in Machines /\ start \in 1 .. Len(code) /\ Len(code) \in Nat /\ LuiKept
  BY DEF ScanIInv, InsnsOK
<1>2. /\ n \in 1 .. pos - 1 /\ code[n].kind = "lui" /\ code[n].d # 0
      /\ \A k \in n + 1 .. pos - 1 : code[n].d \notin BackWrites(code[k])
  BY DEF Seeds
<1>3. Kept(full, n)
  BY <1>1, <1>2 DEF LuiKept, Lasts
<1>4. code[n].d \in ScanRegs
  <2>1. n \in 1 .. Len(code)
    BY <1>1, <1>2
  <2> QED BY <1>1, <1>2, <2>1, InsnIs
<1> QED BY <1>1, <1>3, <1>4, SettleIs DEF Kept

LEMMA ScanTypes == ScanIInv => ScanTypeOK
<1> SUFFICES ASSUME ScanIInv PROVE ScanTypeOK
  OBVIOUS
<1>1. InsnsOK /\ full \in Machines /\ lean \in Machines /\ pos \in 1 .. LastInsn + 1 /\ stall \in 0 .. GtePipeline
  BY DEF ScanIInv
<1>2. pos \in 1 .. Len(code) + 1 /\ start \in 1 .. Len(code)
  BY <1>1, LastInsnOK DEF InsnsOK
<1> QED BY <1>1, <1>2 DEF ScanTypeOK, Machines, Loads

(* What block_scan and scan_backwards_for_lui conclude holds for every     *)
(* program, of any length and over any registers: leaving out the dead     *)
(* instructions changes no operand of the others and nothing at the end,   *)
(* registers written first are not read before, and seeded constants are   *)
(* what the registers hold on entry.                                       *)
THEOREM AnalysesAlwaysSound == ScanSpec => []AnalysesSound
<1>1. ScanIInv /\ [ScanNext]_scanVars => ScanIInv'
  BY RunBeforeOK, RunBlockOK, ScanStays DEF ScanNext
<1>2. ScanIInv => AnalysesSound
  BY ScanTypes, DeadCodeOK, WriteFirstOK, SeedsOK DEF AnalysesSound
<1> QED BY ScanInitOK, <1>1, <1>2, PTL DEF ScanSpec
=============================================================================
