--------------------------- MODULE RunLoopProofs ---------------------------
(***************************************************************************)
(* Proofs about RunLoop for every number of events, every set of guest     *)
(* blocks and every bound.  The inductive invariant is Inv: the cached     *)
(* earliest deadline is exact outside Sched_Tick, and inside it either     *)
(* exact or marked for a re-scan; what is owed by the current tick is      *)
(* active, due and not yet passed by the loop index.                       *)
(***************************************************************************)
EXTENDS RunLoop, WellFoundedInduction, TLAPS

(* Every non-empty set of naturals has a least element.                    *)
LEMMA LeastNatural ==
  ASSUME NEW S \in SUBSET Nat, S # {}
  PROVE  \E m \in S : \A n \in S : m <= n
<1>1. \E m \in S : \A n \in S : ~(<<n, m>> \in OpToRel(<, Nat))
  BY WFMin, NatLessThanWellFounded
<1>2. PICK m \in S : \A n \in S : ~(<<n, m>> \in OpToRel(<, Nat))
  BY <1>1
<1>3. ASSUME NEW n \in S PROVE m <= n
  <2>1. m \in Nat /\ n \in Nat
    OBVIOUS
  <2>2. ~(n < m)
    BY <1>2, <2>1 DEF OpToRel
  <2> QED BY <2>1, <2>2
<1> QED BY <1>3

(* The re-scan of sched_recompute_cached finds an active event that no     *)
(* active event precedes.                                                  *)
LEMMA EarliestExists ==
  ASSUME NEW act \in SUBSET EventIds, act # {},
         NEW dl \in [EventIds -> Deadlines]
  PROVE  /\ EarliestOf(act, dl) \in act
         /\ \A j \in act : Precedes(EarliestOf(act, dl), j, dl)
<1> DEFINE D == {dl[j] : j \in act}
           F == {i \in act : \A j \in act : dl[i] <= dl[j]}
<1>1. D \in SUBSET Nat /\ D # {}
  BY SchedulerAssumption DEF Deadlines
<1>2. PICK d \in D : \A e \in D : d <= e
  BY <1>1, LeastNatural
<1>3. PICK k \in act : d = dl[k]
  BY <1>2
<1>4. k \in F
  BY <1>2, <1>3
<1>5. F \in SUBSET Nat /\ F # {}
  BY <1>4, SchedulerAssumption DEF EventIds
<1>6. PICK i \in F : \A j \in F : i <= j
  BY <1>5, LeastNatural
<1>7. \A j \in act : Precedes(i, j, dl)
  <2> SUFFICES ASSUME NEW j \in act PROVE Precedes(i, j, dl)
    OBVIOUS
  <2>1. dl[i] <= dl[j] /\ dl[i] \in Int /\ dl[j] \in Int
    BY SchedulerAssumption DEF Deadlines
  <2>2. CASE dl[i] = dl[j]
    <3>1. j \in F
      BY <2>2
    <3> QED BY <3>1, <2>2, <1>6 DEF Precedes
  <2>3. CASE dl[i] # dl[j]
    BY <2>1, <2>3 DEF Precedes
  <2> QED BY <2>2, <2>3
<1> QED BY <1>7 DEF EarliestOf
-----------------------------------------------------------------------------
(* A re-scan leaves an exact cache.                                        *)
LEMMA RecomputeExact ==
  ASSUME sched_active' \subseteq EventIds,
         sched_deadline' \in [EventIds -> Deadlines],
         sched_recompute_cached(sched_active', sched_deadline')
  PROVE  SchedTypeOK' /\ CacheIsEarliest'
<1>1. CASE sched_active' = {}
  BY <1>1 DEF sched_recompute_cached, SchedTypeOK, CacheIsEarliest
<1>2. CASE sched_active' # {}
  <2> DEFINE e == EarliestOf(sched_active', sched_deadline')
  <2>1. e \in sched_active' /\ \A j \in sched_active' : Precedes(e, j, sched_deadline')
    BY <1>2, EarliestExists
  <2>2. sched_earliest_id' = e /\ sched_cached_earliest' = sched_deadline'[e]
    BY <1>2 DEF sched_recompute_cached
  <2>3. \A j \in sched_active' : sched_cached_earliest' <= sched_deadline'[j]
    <3> SUFFICES ASSUME NEW j \in sched_active'
                 PROVE  sched_cached_earliest' <= sched_deadline'[j]
      OBVIOUS
    <3>1. sched_deadline'[e] \in Int /\ sched_deadline'[j] \in Int
      BY <2>1, SchedulerAssumption DEF Deadlines
    <3>2. Precedes(e, j, sched_deadline')
      BY <2>1
    <3> QED BY <2>2, <3>1, <3>2 DEF Precedes
  <2>4. SchedTypeOK'
    BY <2>1, <2>2 DEF SchedTypeOK
  <2> QED BY <1>2, <2>1, <2>2, <2>3, <2>4 DEF CacheIsEarliest
<1> QED BY <1>1, <1>2

(* Scheduling an event keeps the types and an exact cache exact.           *)
LEMMA AddExact ==
  ASSUME SchedTypeOK, NEW id \in EventIds, NEW t \in Deadlines, Sched_Add(id, t)
  PROVE  SchedTypeOK' /\ (CacheIsEarliest => CacheIsEarliest')
<1>1. /\ sched_active' \subseteq EventIds
      /\ sched_deadline' \in [EventIds -> Deadlines]
  BY DEF SchedTypeOK, Sched_Add
<1>2. \A i \in EventIds : /\ sched_deadline[i] \in Int
                          /\ sched_deadline'[i] = IF i = id THEN t ELSE sched_deadline[i]
  BY SchedulerAssumption DEF SchedTypeOK, Sched_Add, Deadlines
<1>3. sched_cached_earliest \in Int /\ t \in Int /\ t < Never
  BY SchedulerAssumption DEF SchedTypeOK, Deadlines, Never
<1>4. CASE t <= sched_cached_earliest
  <2>1. sched_cached_earliest' = t /\ sched_earliest_id' = id
    BY <1>3, <1>4 DEF Sched_Add
  <2>2. SchedTypeOK'
    BY <1>1, <2>1 DEF SchedTypeOK
  <2>3. ASSUME CacheIsEarliest PROVE CacheIsEarliest'
    <3>1. \A i \in sched_active' : t <= sched_deadline'[i]
      BY <1>1, <1>2, <1>3, <1>4, <2>3 DEF CacheIsEarliest, Sched_Add, SchedTypeOK
    <3> QED BY <1>2, <2>1, <3>1 DEF CacheIsEarliest, Sched_Add
  <2> QED BY <2>2, <2>3
<1>5. CASE t > sched_cached_earliest /\ id = sched_earliest_id
  BY <1>1, <1>3, <1>5, RecomputeExact DEF Sched_Add
<1>6. CASE t > sched_cached_earliest /\ id # sched_earliest_id
  <2>1. UNCHANGED <<sched_cached_earliest, sched_earliest_id>>
    BY <1>3, <1>6 DEF Sched_Add
  <2>2. SchedTypeOK'
    BY <1>1, <2>1 DEF SchedTypeOK
  <2>3. ASSUME CacheIsEarliest PROVE CacheIsEarliest'
    <3>1. sched_active # {}
      BY <1>3, <1>6, <2>3 DEF CacheIsEarliest
    <3>2. sched_earliest_id \in sched_active /\ sched_cached_earliest = sched_deadline[sched_earliest_id]
      BY <2>3, <3>1 DEF CacheIsEarliest
    <3>3. sched_earliest_id' \in sched_active' /\ sched_cached_earliest' = sched_deadline'[sched_earliest_id']
      BY <1>2, <1>6, <2>1, <3>2 DEF Sched_Add, SchedTypeOK
    <3>4. \A i \in sched_active' : sched_cached_earliest' <= sched_deadline'[i]
      BY <1>1, <1>2, <1>3, <1>6, <2>1, <2>3 DEF CacheIsEarliest, Sched_Add, SchedTypeOK
    <3> QED BY <3>3, <3>4 DEF CacheIsEarliest
  <2> QED BY <2>2, <2>3
<1> QED BY <1>3, <1>4, <1>5, <1>6

(* Cancelling an event keeps the types and an exact cache exact.           *)
LEMMA RemoveExact ==
  ASSUME SchedTypeOK, NEW id \in EventIds, Sched_Remove(id)
  PROVE  SchedTypeOK' /\ (CacheIsEarliest => CacheIsEarliest')
<1>1. /\ sched_active' \subseteq EventIds
      /\ sched_deadline' \in [EventIds -> Deadlines]
  BY DEF SchedTypeOK, Sched_Remove
<1>2. CASE id = sched_earliest_id
  <2>1. sched_recompute_cached(sched_active', sched_deadline')
    BY <1>2 DEF Sched_Remove, sched_recompute_cached
  <2> QED BY <1>1, <2>1, RecomputeExact
<1>3. CASE id # sched_earliest_id
  <2>1. SchedTypeOK'
    BY <1>1, <1>3 DEF SchedTypeOK, Sched_Remove
  <2>2. ASSUME CacheIsEarliest PROVE CacheIsEarliest'
    BY <1>3, <2>2 DEF CacheIsEarliest, Sched_Remove
  <2> QED BY <2>1, <2>2
<1> QED BY <1>2, <1>3

(* Taking a due event off the table keeps the cache exact unless it was    *)
(* the cached one: the case in which Sched_Tick asks for a re-scan.        *)
LEMMA TakeExact ==
  ASSUME SchedTypeOK, NEW i \in sched_active, TakeDue(i)
  PROVE  SchedTypeOK' /\ (CacheIsEarliest /\ i # sched_earliest_id => CacheIsEarliest')
BY DEF SchedTypeOK, CacheIsEarliest, TakeDue

-----------------------------------------------------------------------------
LEMMA InitInv == Init => IInv
<1> SUFFICES ASSUME Init PROVE IInv
  OBVIOUS
<1> USE SchedulerAssumption, RunLoopAssumption
<1>1. PICK t \in 1 .. MaxAhead :
        /\ sched_active = {HBlankEvent}
        /\ sched_deadline = [i \in EventIds |-> IF i = HBlankEvent THEN t ELSE 0]
        /\ sched_cached_earliest = t
        /\ sched_earliest_id = HBlankEvent
  BY DEF Init
<1>2. SchedTypeOK
  BY <1>1 DEF SchedTypeOK, Deadlines
<1>3. CacheIsEarliest
  BY <1>1 DEF CacheIsEarliest
<1>4. TypeOK
  <2>1. /\ loc \in Locs
        /\ needed_recompute \in BOOLEAN
        /\ owed \subseteq EventIds
    BY DEF Init, Locs
  <2>2. /\ global_cycles \in 0 .. MaxCycle
        /\ chain_deadline \in Nat
        /\ tick_i \in 0 .. EventCount
        /\ counter \in 0 .. Two32 - 1
        /\ idle_skip_count \in Nat
    BY DEF Init
  <2>3. /\ entry_pc \in Blocks /\ cpu_pc \in Blocks
        /\ poll_detect_pc \in Blocks \cup {NoBlock}
        /\ idle_skip_pc \in Blocks \cup {NoBlock}
    BY DEF Init
  <2> QED BY <1>2, <2>1, <2>2, <2>3 DEF TypeOK
<1> QED
  BY <1>1, <1>3, <1>4 DEF Init, IInv, CacheExact, CacheRepairable, ServedInOneTick,
     OwedAhead, FiringIsInRange, HBlankArmed, HBlankArmedInTick, InTick

(* Steps that leave the scheduler alone and stay outside Sched_Tick.       *)
LEMMA QuietStep ==
  ASSUME IInv, UNCHANGED schedVars, ~InTick, loc' \notin {"tick", "callback"},
         TypeOK', loc' # "loop" \/ owed' = {}
  PROVE  IInv'
BY DEF IInv, CacheExact, CacheRepairable, ServedInOneTick, OwedAhead, FiringIsInRange,
       HBlankArmed, HBlankArmedInTick, InTick, CacheIsEarliest, schedVars

LEMMA SchedTypeUnchanged ==
  ASSUME SchedTypeOK, UNCHANGED schedVars
  PROVE  SchedTypeOK'
BY DEF SchedTypeOK, schedVars

(* One step of the loop keeps the invariant.                               *)
LEMMA NextInv == IInv /\ [Next]_vars => IInv'
<1> SUFFICES ASSUME IInv, [Next]_vars PROVE IInv'
  OBVIOUS
<1> USE SchedulerAssumption, RunLoopAssumption
<1>0. TypeOK /\ SchedTypeOK
  BY DEF IInv, TypeOK
<1>1. CASE PollSkip
  <2>1. TypeOK'
    <3>1. SchedTypeOK'
      BY <1>0, <1>1, SchedTypeUnchanged DEF PollSkip
    <3>2. global_cycles' \in 0 .. MaxCycle
      BY <1>0, <1>1 DEF PollSkip, LeapTo, SkipTarget, MinOf, Budget, TypeOK, SchedTypeOK, Deadlines, Never
    <3> QED BY <1>0, <1>1, <3>1, <3>2 DEF PollSkip, TypeOK, Locs, tickVars, pcVars
  <2> QED BY <1>1, <2>1, QuietStep DEF PollSkip, InTick
<1>2. CASE EnterChain
  <2>1. TypeOK'
    <3>1. SchedTypeOK'
      BY <1>0, <1>2, SchedTypeUnchanged DEF EnterChain
    <3>2. Budget \in Nat
      BY <1>0 DEF Budget, TypeOK, SchedTypeOK, Deadlines, Never
    <3> QED BY <1>0, <1>2, <3>1, <3>2 DEF EnterChain, TypeOK, Locs, tickVars, skipVars
  <2> QED BY <1>2, <2>1, QuietStep DEF EnterChain, InTick
<1>3. CASE FetchException
  <2>1. TypeOK'
    <3>1. SchedTypeOK'
      BY <1>0, <1>3, SchedTypeUnchanged DEF FetchException
    <3> QED BY <1>0, <1>3, <3>1 DEF FetchException, TypeOK, Locs, tickVars, skipVars
  <2> QED BY <1>3, <2>1, QuietStep DEF FetchException, InTick
<1>4. ASSUME NEW id \in EventIds, NEW t \in Deadlines, ChainAdd(id, t) PROVE IInv'
  <2>1. SchedTypeOK' /\ (CacheIsEarliest => CacheIsEarliest')
    BY <1>0, <1>4, AddExact DEF ChainAdd
  <2>2. TypeOK'
    BY <1>0, <1>4, <2>1 DEF ChainAdd, TypeOK, tickVars, pcVars, skipVars
  <2> QED
    BY <1>4, <2>1, <2>2 DEF ChainAdd, Sched_Add, IInv, CacheExact, CacheRepairable, ServedInOneTick,
       OwedAhead, FiringIsInRange, HBlankArmed, HBlankArmedInTick, InTick
<1>5. ASSUME NEW id \in EventIds, ChainRemove(id) PROVE IInv'
  <2>1. SchedTypeOK' /\ (CacheIsEarliest => CacheIsEarliest')
    BY <1>0, <1>5, RemoveExact DEF ChainRemove
  <2>2. TypeOK'
    BY <1>0, <1>5, <2>1 DEF ChainRemove, TypeOK, tickVars, pcVars, skipVars
  <2> QED
    BY <1>5, <2>1, <2>2 DEF ChainRemove, Sched_Remove, IInv, CacheExact, CacheRepairable, ServedInOneTick,
       OwedAhead, FiringIsInRange, HBlankArmed, HBlankArmedInTick, InTick
<1>6. ASSUME NEW n \in 1 .. MaxCycle, NEW p \in Blocks, NEW c \in 0 .. MaxCounter,
             ChainExit(n, p, c)
      PROVE IInv'
  <2>1. TypeOK'
    <3>1. SchedTypeOK'
      BY <1>0, <1>6, SchedTypeUnchanged DEF ChainExit
    <3> QED BY <1>0, <1>6, <3>1 DEF ChainExit, TypeOK, Locs, tickVars, skipVars
  <2> QED BY <1>6, <2>1, QuietStep DEF ChainExit, InTick
<1>7. CASE CountdownSkip
  <2>1. TypeOK'
    <3>1. SchedTypeOK'
      BY <1>0, <1>7, SchedTypeUnchanged DEF CountdownSkip
    <3> DEFINE target == SkipTarget(chain_deadline)
               avail == (target - global_cycles) % Two64
               iters == (avail \div CycleCount) % Two32
    <3>2. target \in Int
      BY <1>0 DEF SkipTarget, MinOf, TypeOK, SchedTypeOK, Deadlines, Never
    <3>3. avail \in Nat
      BY <1>0, <3>2 DEF TypeOK
    <3>4. iters \in Nat
      <4> HIDE DEF avail
      <4>1. avail \div CycleCount \in Int
        BY <3>3
      <4> QED BY <4>1
    <3>5. iters * CycleCount \in Nat /\ counter * CycleCount \in Nat
      BY <1>0, <3>4 DEF TypeOK
    <3>6. (counter - iters) % Two32 \in 0 .. Two32 - 1
      <4> HIDE DEF iters
      <4> QED BY <1>0, <3>4 DEF TypeOK
    <3>7. /\ counter' \in 0 .. Two32 - 1
          /\ global_cycles' \in 0 .. MaxCycle
          /\ cpu_pc' \in Blocks
      <4>1. \/ global_cycles' = global_cycles
            \/ global_cycles' = global_cycles + counter * CycleCount
            \/ global_cycles' = global_cycles + iters * CycleCount
        BY <1>7 DEF CountdownSkip
      <4>2. counter' = 0 \/ counter' = (counter - iters) % Two32
        BY <1>7 DEF CountdownSkip
      <4>3. cpu_pc' \in Blocks
        BY <1>0, <1>7 DEF CountdownSkip, TypeOK
      <4>4. global_cycles' <= MaxCycle
        BY <1>7 DEF CountdownSkip
      <4> HIDE DEF iters
      <4> QED BY <1>0, <3>5, <3>6, <4>1, <4>2, <4>3, <4>4 DEF TypeOK
    <3> QED BY <1>0, <1>7, <3>1, <3>7 DEF CountdownSkip, TypeOK, Locs, tickVars
  <2> QED BY <1>7, <2>1, QuietStep DEF CountdownSkip, InTick
<1>8. CASE IdleSkip
  <2>1. TypeOK'
    <3>1. SchedTypeOK'
      BY <1>0, <1>8, SchedTypeUnchanged DEF IdleSkip
    <3>2. global_cycles' \in 0 .. MaxCycle
      BY <1>0, <1>8 DEF IdleSkip, LeapTo, SkipTarget, MinOf, TypeOK, SchedTypeOK, Deadlines, Never
    <3> QED BY <1>0, <1>8, <3>1, <3>2 DEF IdleSkip, TypeOK, Locs, tickVars, pcVars
  <2> QED BY <1>8, <2>1, QuietStep DEF IdleSkip, InTick
<1>9. ASSUME NEW words \in 1 .. MaxCycle, ZeroFillSkip(words) PROVE IInv'
  <2>1. TypeOK'
    <3>1. SchedTypeOK'
      BY <1>0, <1>9, SchedTypeUnchanged DEF ZeroFillSkip
    <3>2. words * CycleCount \in Nat
      OBVIOUS
    <3> QED BY <1>0, <1>9, <3>1, <3>2 DEF ZeroFillSkip, TypeOK, Locs, tickVars
  <2> QED BY <1>9, <2>1, QuietStep DEF ZeroFillSkip, InTick
<1>10. CASE PollDetect
  <2>1. TypeOK'
    <3>1. SchedTypeOK'
      BY <1>0, <1>10, SchedTypeUnchanged DEF PollDetect
    <3>2. IdleStreak \in Nat
      BY <1>0 DEF IdleStreak, TypeOK
    <3> QED BY <1>0, <1>10, <3>1, <3>2 DEF PollDetect, TypeOK, Locs, tickVars, pcVars
  <2> QED BY <1>10, <2>1, QuietStep DEF PollDetect, InTick
<1>11. CASE NoDispatch
  <2>1. DueNow = {}
    <3>1. CacheIsEarliest
      BY <1>11 DEF NoDispatch, IInv, CacheExact
    <3> QED BY <1>0, <1>11, <3>1 DEF NoDispatch, DueNow, Due, CacheIsEarliest, TypeOK, SchedTypeOK, Deadlines, Never
  <2>2. TypeOK'
    <3>1. SchedTypeOK'
      BY <1>0, <1>11, SchedTypeUnchanged DEF NoDispatch
    <3> QED BY <1>0, <1>11, <2>1, <3>1 DEF NoDispatch, SyncInterrupts, TypeOK, Locs, skipVars
  <2> QED BY <1>11, <2>1, <2>2, QuietStep DEF NoDispatch, InTick
<1>12. CASE TickStart
  <2>1. TypeOK'
    <3>1. SchedTypeOK'
      BY <1>0, <1>12, SchedTypeUnchanged DEF TickStart
    <3>2. needed_recompute' \in BOOLEAN /\ owed' \subseteq EventIds
      BY <1>12 DEF TickStart, DueNow
    <3>3. loc' \in Locs /\ tick_i' \in 0 .. EventCount
      BY <1>12 DEF TickStart, Locs
    <3> QED BY <1>0, <1>12, <3>1, <3>2, <3>3 DEF TickStart, TypeOK, pcVars, skipVars
  <2>2. OwedAhead'
    BY <1>12 DEF TickStart, OwedAhead, DueNow, Due, EventIds, schedVars
  <2> QED
    BY <1>12, <2>1, <2>2 DEF TickStart, IInv, CacheExact, CacheRepairable, ServedInOneTick,
       FiringIsInRange, HBlankArmed, HBlankArmedInTick, InTick, CacheIsEarliest, schedVars
<1>13. CASE TickPass
  <2>1. TypeOK'
    <3>1. SchedTypeOK'
      BY <1>0, <1>13, SchedTypeUnchanged DEF TickPass
    <3> QED BY <1>0, <1>13, <3>1 DEF TickPass, TypeOK, EventIds, pcVars, skipVars
  <2>2. OwedAhead'
    <3> SUFFICES ASSUME NEW j \in owed PROVE Due(j, global_cycles) /\ tick_i + 1 <= j
      BY <1>13 DEF TickPass, OwedAhead, Due, schedVars, InTick
    <3>1. Due(j, global_cycles) /\ tick_i <= j
      BY <1>13 DEF TickPass, IInv, OwedAhead, InTick
    <3>2. tick_i # j
      BY <1>13, <3>1 DEF TickPass
    <3> QED BY <1>0, <3>1, <3>2 DEF TypeOK, EventIds
  <2> QED
    BY <1>13, <2>1, <2>2 DEF TickPass, IInv, CacheExact, CacheRepairable, ServedInOneTick,
       FiringIsInRange, HBlankArmed, HBlankArmedInTick, InTick, CacheIsEarliest, schedVars
<1>14. CASE TickFire
  <2>1. /\ SchedTypeOK'
        /\ CacheIsEarliest /\ tick_i # sched_earliest_id => CacheIsEarliest'
    BY <1>0, <1>14, TakeExact DEF TickFire, Due
  <2>2. TypeOK'
    BY <1>0, <1>14, <2>1 DEF TickFire, TypeOK, Locs, pcVars, skipVars
  <2>3. CacheRepairable'
    BY <1>14, <2>1 DEF TickFire, IInv, CacheRepairable, InTick
  <2>4. OwedAhead'
    BY <1>14 DEF TickFire, TakeDue, IInv, OwedAhead, Due, InTick
  <2>5. HBlankArmedInTick'
    BY <1>14 DEF TickFire, TakeDue, IInv, HBlankArmedInTick, InTick
  <2> QED
    BY <1>14, <2>2, <2>3, <2>4, <2>5 DEF TickFire, IInv, CacheExact, ServedInOneTick,
       FiringIsInRange, HBlankArmed
<1>15. ASSUME NEW id \in EventIds, NEW t \in Deadlines, CallbackAdd(id, t) PROVE IInv'
  <2>1. SchedTypeOK' /\ (CacheIsEarliest => CacheIsEarliest')
    BY <1>0, <1>15, AddExact DEF CallbackAdd
  <2>2. TypeOK'
    BY <1>0, <1>15, <2>1 DEF CallbackAdd, TypeOK, pcVars, skipVars
  <2>3. OwedAhead'
    BY <1>0, <1>15 DEF CallbackAdd, Sched_Add, IInv, OwedAhead, Due, InTick, TypeOK, SchedTypeOK
  <2> QED
    BY <1>15, <2>1, <2>2, <2>3 DEF CallbackAdd, Sched_Add, IInv, CacheExact, CacheRepairable, ServedInOneTick,
       FiringIsInRange, HBlankArmed, HBlankArmedInTick, InTick
<1>16. ASSUME NEW id \in EventIds, CallbackRemove(id) PROVE IInv'
  <2>1. SchedTypeOK' /\ (CacheIsEarliest => CacheIsEarliest')
    BY <1>0, <1>16, RemoveExact DEF CallbackRemove
  <2>2. TypeOK'
    BY <1>0, <1>16, <2>1 DEF CallbackRemove, TypeOK, pcVars, skipVars
  <2>3. OwedAhead'
    BY <1>16 DEF CallbackRemove, Sched_Remove, IInv, OwedAhead, Due, InTick
  <2> QED
    BY <1>16, <2>1, <2>2, <2>3 DEF CallbackRemove, Sched_Remove, IInv, CacheExact, CacheRepairable, ServedInOneTick,
       FiringIsInRange, HBlankArmed, HBlankArmedInTick, InTick
<1>17. CASE CallbackReturn
  <2>1. tick_i \in EventIds
    BY <1>17 DEF CallbackReturn, IInv, FiringIsInRange
  <2>2. TypeOK'
    <3>1. SchedTypeOK'
      BY <1>0, <1>17, SchedTypeUnchanged DEF CallbackReturn
    <3> QED BY <1>0, <1>17, <2>1, <3>1 DEF CallbackReturn, TypeOK, EventIds, Locs, pcVars, skipVars
  <2>3. OwedAhead'
    BY <1>0, <1>17, <2>1 DEF CallbackReturn, IInv, OwedAhead, Due, InTick, schedVars, EventIds, TypeOK
  <2> QED
    BY <1>17, <2>2, <2>3 DEF CallbackReturn, IInv, CacheExact, CacheRepairable, ServedInOneTick,
       FiringIsInRange, HBlankArmed, HBlankArmedInTick, InTick, CacheIsEarliest, schedVars
<1>18. ASSUME NEW t \in Deadlines, HBlankCallback(t) PROVE IInv'
  <2>1. SchedTypeOK' /\ (CacheIsEarliest => CacheIsEarliest')
    BY <1>0, <1>18, AddExact DEF HBlankCallback
  <2>2. TypeOK'
    BY <1>0, <1>18, <2>1 DEF HBlankCallback, TypeOK, EventIds, Locs, pcVars, skipVars
  <2>3. OwedAhead'
    BY <1>0, <1>18 DEF HBlankCallback, Sched_Add, IInv, OwedAhead, Due, InTick, EventIds, TypeOK, SchedTypeOK
  <2> QED
    BY <1>18, <2>1, <2>2, <2>3 DEF HBlankCallback, Sched_Add, IInv, CacheExact, CacheRepairable, ServedInOneTick,
       FiringIsInRange, HBlankArmed, HBlankArmedInTick, InTick
<1>19. CASE TickEnd
  <2>1. SchedTypeOK' /\ CacheIsEarliest'
    <3>1. CASE needed_recompute
      <4>1. sched_recompute_cached(sched_active', sched_deadline')
        BY <1>19, <3>1 DEF TickEnd, sched_recompute_cached
      <4> QED BY <1>0, <1>19, <4>1, RecomputeExact DEF TickEnd, SchedTypeOK
    <3>2. CASE ~needed_recompute
      BY <1>0, <1>19, <3>2 DEF TickEnd, IInv, CacheRepairable, InTick, CacheIsEarliest, SchedTypeOK
    <3> QED BY <3>1, <3>2
  <2>2. TypeOK'
    BY <1>0, <1>19, <2>1 DEF TickEnd, SyncInterrupts, TypeOK, Locs, tickVars, skipVars
  <2>3. owed' = {}
    BY <1>0, <1>19 DEF TickEnd, tickVars, IInv, OwedAhead, InTick, TypeOK, EventIds
  <2> QED
    BY <1>19, <2>1, <2>2, <2>3 DEF TickEnd, IInv, CacheExact, CacheRepairable, ServedInOneTick,
       OwedAhead, FiringIsInRange, HBlankArmed, HBlankArmedInTick, InTick
<1>20. CASE UNCHANGED vars
  BY <1>20 DEF vars, schedVars, tickVars, pcVars, skipVars, IInv, TypeOK, SchedTypeOK, CacheExact,
     CacheRepairable, ServedInOneTick, OwedAhead, FiringIsInRange, HBlankArmed, HBlankArmedInTick,
     InTick, CacheIsEarliest, Due
<1> QED
  BY <1>1, <1>2, <1>3, <1>4, <1>5, <1>6, <1>7, <1>8, <1>9, <1>10, <1>11, <1>12, <1>13,
     <1>14, <1>15, <1>16, <1>17, <1>18, <1>19, <1>20 DEF Next, Horizon

(* IInv is an invariant of the loop.                                       *)
THEOREM Invariance == Spec => []IInv
<1>1. Init => IInv
  BY InitInv
<1>2. IInv /\ [Next]_vars => IInv'
  BY NextInv
<1> QED BY <1>1, <1>2, PTL DEF Spec

(* The state of the scheduler and of the loop stays in its types.          *)
THEOREM TypeCorrect == Spec => []TypeOK
<1>1. IInv => TypeOK
  BY DEF IInv
<1> QED BY Invariance, <1>1, PTL

(* The cached earliest deadline of scheduler.h is exact whenever Run_CPU   *)
(* or guest code reads it, whatever events come and go.                    *)
THEOREM CacheIsExact == Spec => []CacheExact
<1>1. IInv => CacheExact
  BY DEF IInv
<1> QED BY Invariance, <1>1, PTL

(* No due event survives a dispatch unserved.                              *)
THEOREM DueEventsAreServed == Spec => []ServedInOneTick
<1>1. IInv => ServedInOneTick
  BY DEF IInv
<1> QED BY Invariance, <1>1, PTL

(* The HBlank event is armed whenever guest code runs.                     *)
THEOREM HBlankStaysArmed == Spec => []HBlankArmed
<1>1. IInv => HBlankArmed
  BY DEF IInv
<1> QED BY Invariance, <1>1, PTL

(* The clamp of the poll and idle leaps against the cached deadline is     *)
(* enough: neither ever passes an event that lies ahead.                   *)
THEOREM LeapsAreSafe == Spec => LeapsStopAtEvents
<1> DEFINE Stop == PollSkip \/ IdleSkip =>
             \A i \in sched_active :
               sched_deadline[i] > global_cycles => sched_deadline[i] >= global_cycles'
<1>1. ASSUME IInv PROVE Stop
  <2> SUFFICES ASSUME PollSkip \/ IdleSkip, NEW i \in sched_active,
                      sched_deadline[i] > global_cycles
               PROVE  sched_deadline[i] >= global_cycles'
    OBVIOUS
  <2> USE SchedulerAssumption, RunLoopAssumption
  <2>1. TypeOK /\ SchedTypeOK
    BY <1>1 DEF IInv, TypeOK
  <2>2. sched_cached_earliest <= sched_deadline[i]
    BY <1>1 DEF IInv, CacheExact, CacheIsEarliest, PollSkip, IdleSkip
  <2>3. /\ sched_deadline[i] \in Int /\ sched_cached_earliest \in Int
        /\ global_cycles \in Int /\ chain_deadline \in Int
    BY <2>1 DEF TypeOK, SchedTypeOK, Deadlines, Never
  <2>4. PICK dl \in Int : LeapTo(SkipTarget(dl))
    <3>1. CASE PollSkip
      <4>1. Budget \in Int
        BY <2>3 DEF Budget
      <4> QED BY <3>1, <4>1 DEF PollSkip
    <3>2. CASE IdleSkip
      BY <2>3, <3>2 DEF IdleSkip
    <3> QED BY <3>1, <3>2
  <2>5. SkipTarget(dl) \in Int /\ SkipTarget(dl) <= sched_cached_earliest
    BY <2>3 DEF SkipTarget, MinOf
  <2> QED BY <2>2, <2>3, <2>4, <2>5 DEF LeapTo
<1>2. IInv /\ [Next]_vars => [Stop]_vars
  BY <1>1
<1> QED BY Invariance, <1>2, PTL DEF Spec, LeapsStopAtEvents
=============================================================================
