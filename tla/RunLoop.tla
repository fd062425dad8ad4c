------------------------------ MODULE RunLoop ------------------------------
(***************************************************************************)
(* The CPU loop of src/dynarec_run.c: Run_CPU takes the earliest deadline  *)
(* as the budget of one chain of compiled blocks (run_jit_chain), then     *)
(* dispatches due events (Sched_Tick) and delivers interrupts.  Handlers   *)
(* called from the chain and callbacks called from Sched_Tick schedule and *)
(* cancel events.  run_jit_chain also leaps over loops that wait: a        *)
(* detected polling loop, an idle loop, a countdown, a zero-fill loop.     *)
(*                                                                         *)
(* A guest block is known by its kind.  How many cycles a chain takes,     *)
(* where it exits and what the guest leaves in the countdown register are  *)
(* free, within MaxCycle.  The words of the host are Two64 and Two32 wide. *)
(***************************************************************************)
EXTENDS Scheduler

CONSTANTS Blocks,        \* guest block addresses
          Kind,          \* what compile_block found each block to be
          ExcVector,     \* the exception handler's block
          HBlankEvent,   \* SCHED_EVENT_HBLANK
          DmaEvent,      \* SCHED_EVENT_DMA
          IdleBudget,    \* 1024: the budget when no deadline lies ahead
          Overshoot,     \* bound: how far a block runs past the budget
          CycleCount,    \* cycles of one iteration of a countdown or fill loop
          MaxCounter,    \* bound: largest value of the countdown register
          CounterCap,    \* 0x10000000: a larger count is taken for a wrap
          Two32, Two64   \* the widths of uint32_t and uint64_t

Kinds == {"plain", "idle", "poll", "countdown", "zerofill"}
NoBlock == "no block"

ASSUME RunLoopAssumption ==
  /\ Kind \in [Blocks -> Kinds]
  /\ NoBlock \notin Blocks
  /\ ExcVector \in Blocks
  /\ HBlankEvent \in EventIds
  /\ DmaEvent \in EventIds \ {HBlankEvent}
  /\ IdleBudget \in Nat \ {0}
  /\ Overshoot \in Nat
  /\ CycleCount \in Nat \ {0}
  /\ MaxCounter \in Nat
  /\ CounterCap \in Nat
  /\ Two32 \in Nat \ {0} /\ Two64 \in Nat \ {0}
  /\ MaxCounter < Two32

VARIABLES global_cycles,
          loc,               \* where Run_CPU is
          chain_deadline,    \* argument of run_jit_chain
          tick_i,            \* loop index of Sched_Tick
          needed_recompute,
          owed,              \* history: due when dispatch began, not yet served
          entry_pc, cpu_pc,
          counter,           \* cpu.regs[be->timeout_reg]
          poll_detect_pc, idle_skip_pc, idle_skip_count

tickVars == <<tick_i, needed_recompute, owed>>
skipVars == <<poll_detect_pc, idle_skip_pc, idle_skip_count>>
pcVars == <<entry_pc, cpu_pc, counter>>
vars == <<schedVars, global_cycles, loc, chain_deadline, tickVars, pcVars, skipVars>>

Locs == {"loop", "chain", "post", "dispatch", "tick", "callback"}

Init ==
  /\ \E t \in 1 .. MaxAhead :
       /\ sched_active = {HBlankEvent}
       /\ sched_deadline = [i \in EventIds |-> IF i = HBlankEvent THEN t ELSE 0]
       /\ sched_cached_earliest = t
       /\ sched_earliest_id = HBlankEvent
  /\ global_cycles = 0
  /\ loc = "loop"
  /\ chain_deadline = 0
  /\ tick_i = 0 /\ needed_recompute = FALSE /\ owed = {}
  /\ entry_pc \in Blocks /\ cpu_pc = entry_pc
  /\ counter = 0
  /\ poll_detect_pc = NoBlock /\ idle_skip_pc = NoBlock /\ idle_skip_count = 0

-----------------------------------------------------------------------------
DMA_IsPending == DmaEvent \in sched_active

MinOf(a, b) == IF a <= b THEN a ELSE b

(* Run_CPU: the budget handed to the chain.                                *)
Budget ==
  IF sched_cached_earliest = Never \/ sched_cached_earliest <= global_cycles
    THEN global_cycles + IdleBudget
    ELSE sched_cached_earliest

\* Mutant of SkipTarget: the leap is not clamped to the scheduler.
SkipTargetUnclamped(dl) == dl

SkipTarget(dl) == MinOf(dl, sched_cached_earliest)

LeapTo(target) ==
  /\ target <= MaxCycle
  /\ global_cycles' = IF target > global_cycles THEN target ELSE global_cycles

(* The chain starts at a block that self-looped last time: leap at once.   *)
PollSkip ==
  /\ loc = "loop"
  /\ cpu_pc = poll_detect_pc
  /\ poll_detect_pc' = NoBlock
  /\ LeapTo(SkipTarget(Budget))
  /\ loc' = "dispatch"
  /\ UNCHANGED <<schedVars, chain_deadline, tickVars, pcVars, idle_skip_pc, idle_skip_count>>

EnterChain ==
  /\ loc = "loop"
  /\ cpu_pc # poll_detect_pc
  /\ loc' = "chain"
  /\ chain_deadline' = Budget
  /\ entry_pc' = cpu_pc
  /\ UNCHANGED <<schedVars, global_cycles, tickVars, cpu_pc, counter, skipVars>>

(* A misaligned or unmapped PC raises an exception instead of running.     *)
FetchException ==
  /\ loc = "loop"
  /\ cpu_pc # poll_detect_pc
  /\ cpu_pc # ExcVector
  /\ cpu_pc' = ExcVector
  /\ loc' = "dispatch"
  /\ UNCHANGED <<schedVars, global_cycles, chain_deadline, tickVars, entry_pc, counter, skipVars>>

(* Device handlers called from compiled code.                              *)
ChainAdd(id, t) ==
  /\ loc = "chain"
  /\ id # HBlankEvent
  /\ t >= global_cycles /\ t <= global_cycles + MaxAhead
  /\ Sched_Add(id, t)
  /\ UNCHANGED <<global_cycles, loc, chain_deadline, tickVars, pcVars, skipVars>>

ChainRemove(id) ==
  /\ loc = "chain"
  /\ id # HBlankEvent
  /\ Sched_Remove(id)
  /\ UNCHANGED <<global_cycles, loc, chain_deadline, tickVars, pcVars, skipVars>>

(* The chain returns after n cycles, at block p; c is what the guest left  *)
(* in the countdown register, which only a countdown loop reads.           *)
ChainExit(n, p, c) ==
  /\ loc = "chain"
  /\ c > 0 => p = entry_pc /\ Kind[p] = "countdown"
  /\ n <= (chain_deadline - global_cycles) + Overshoot
  /\ global_cycles + n <= MaxCycle
  /\ global_cycles' = global_cycles + n
  /\ cpu_pc' = p
  /\ counter' = c
  /\ loc' = "post"
  /\ UNCHANGED <<schedVars, chain_deadline, tickVars, entry_pc, skipVars>>

-----------------------------------------------------------------------------
(* run_jit_chain after the chain: loop detection.                          *)
SelfLoop == cpu_pc = entry_pc
IsIdle == Kind[entry_pc] \in {"idle", "poll", "countdown"}

CountdownSkip ==
  LET target == SkipTarget(chain_deadline)
      complete == global_cycles + counter * CycleCount
      avail == (target - global_cycles) % Two64
      iters == (avail \div CycleCount) % Two32
  IN /\ loc = "post"
     /\ SelfLoop /\ Kind[entry_pc] = "countdown" /\ ~DMA_IsPending
     /\ IF counter > 0 /\ counter < CounterCap
          THEN IF complete <= target
                 THEN /\ counter' = 0
                      /\ global_cycles' = complete
                      /\ cpu_pc' \in Blocks
                 ELSE /\ counter' = (counter - iters) % Two32
                      /\ global_cycles' = global_cycles + iters * CycleCount
                      /\ cpu_pc' = cpu_pc
          ELSE /\ counter' = 0
               /\ cpu_pc' \in Blocks
               /\ UNCHANGED global_cycles
     /\ global_cycles' <= MaxCycle
     /\ idle_skip_count' = 0
     /\ loc' = "dispatch"
     /\ UNCHANGED <<schedVars, chain_deadline, tickVars, entry_pc, poll_detect_pc, idle_skip_pc>>

(* An idle loop is leapt over at its first (unconditional) or second       *)
(* (conditional) self-looping chain in a row.                              *)
IdleStreak == IF entry_pc = idle_skip_pc THEN idle_skip_count + 1 ELSE 1
Threshold == IF Kind[entry_pc] = "idle" THEN 1 ELSE 2

IdleSkip ==
  /\ loc = "post"
  /\ SelfLoop /\ Kind[entry_pc] \in {"idle", "poll"} /\ ~DMA_IsPending
  /\ IdleStreak >= Threshold
  /\ LeapTo(SkipTarget(chain_deadline))
  /\ idle_skip_pc' = entry_pc
  /\ idle_skip_count' = 0
  /\ loc' = "dispatch"
  /\ UNCHANGED <<schedVars, chain_deadline, tickVars, pcVars, poll_detect_pc>>

(* The zero-fill loop is finished by memset: its time is not clamped.      *)
ZeroFillSkip(words) ==
  /\ loc = "post"
  /\ SelfLoop /\ Kind[entry_pc] = "zerofill" /\ ~DMA_IsPending
  /\ global_cycles + words * CycleCount <= MaxCycle
  /\ global_cycles' = global_cycles + words * CycleCount
  /\ cpu_pc' \in Blocks
  /\ idle_skip_count' = 0
  /\ loc' = "dispatch"
  /\ UNCHANGED <<schedVars, chain_deadline, tickVars, entry_pc, counter, poll_detect_pc, idle_skip_pc>>

(* No leap now: remember a self-loop so that its next entry leaps.  A      *)
(* zero-fill loop with unusable bounds ends here too.                      *)
PollDetect ==
  /\ loc = "post"
  /\ ~(SelfLoop /\ Kind[entry_pc] = "countdown" /\ ~DMA_IsPending)
  /\ ~(SelfLoop /\ Kind[entry_pc] \in {"idle", "poll"} /\ ~DMA_IsPending /\ IdleStreak >= Threshold)
  /\ IF SelfLoop /\ IsIdle /\ ~DMA_IsPending
       THEN idle_skip_pc' = entry_pc /\ idle_skip_count' = IdleStreak
       ELSE idle_skip_count' = 0 /\ UNCHANGED idle_skip_pc
  /\ poll_detect_pc' = IF SelfLoop /\ ~DMA_IsPending THEN entry_pc ELSE NoBlock
  /\ loc' = "dispatch"
  /\ UNCHANGED <<schedVars, global_cycles, chain_deadline, tickVars, pcVars>>

-----------------------------------------------------------------------------
(* Run_CPU after the chain: dispatch if the cached deadline is reached.    *)
SyncInterrupts == cpu_pc' \in {cpu_pc, ExcVector}

DueNow == {i \in EventIds : Due(i, global_cycles)}

NoDispatch ==
  /\ loc = "dispatch"
  /\ global_cycles < sched_cached_earliest
  /\ owed' = DueNow
  /\ loc' = "loop"
  /\ SyncInterrupts
  /\ UNCHANGED <<schedVars, global_cycles, chain_deadline, tick_i, needed_recompute, entry_pc, counter, skipVars>>

\* Mutant of TickStart: the scan begins at the second slot.
TickStartAtOne ==
  /\ loc = "dispatch"
  /\ global_cycles >= sched_cached_earliest
  /\ owed' = DueNow
  /\ tick_i' = 1
  /\ needed_recompute' = FALSE
  /\ loc' = "tick"
  /\ UNCHANGED <<schedVars, global_cycles, chain_deadline, pcVars, skipVars>>

TickStart ==
  /\ loc = "dispatch"
  /\ global_cycles >= sched_cached_earliest
  /\ owed' = DueNow
  /\ tick_i' = 0
  /\ needed_recompute' = FALSE
  /\ loc' = "tick"
  /\ UNCHANGED <<schedVars, global_cycles, chain_deadline, pcVars, skipVars>>

TickPass ==
  /\ loc = "tick"
  /\ tick_i \in EventIds
  /\ ~Due(tick_i, global_cycles)
  /\ tick_i' = tick_i + 1
  /\ UNCHANGED <<schedVars, global_cycles, loc, chain_deadline, needed_recompute, owed, pcVars, skipVars>>

TickFire ==
  /\ loc = "tick"
  /\ tick_i \in EventIds
  /\ Due(tick_i, global_cycles)
  /\ needed_recompute' = (needed_recompute \/ tick_i = sched_earliest_id)
  /\ TakeDue(tick_i)
  /\ owed' = owed \ {tick_i}
  /\ loc' = "callback"
  /\ UNCHANGED <<global_cycles, chain_deadline, tick_i, pcVars, skipVars>>

(* What a callback may do: schedule or cancel any device event.  HBlank's  *)
(* does too: at VBlank it calls Timer_ScheduleAll.                         *)
CallbackAdd(id, t) ==
  /\ loc = "callback"
  /\ id # HBlankEvent
  /\ t >= global_cycles /\ t <= global_cycles + MaxAhead
  /\ Sched_Add(id, t)
  /\ owed' = owed \ {id}
  /\ UNCHANGED <<global_cycles, loc, chain_deadline, tick_i, needed_recompute, pcVars, skipVars>>

CallbackRemove(id) ==
  /\ loc = "callback"
  /\ id # HBlankEvent
  /\ Sched_Remove(id)
  /\ owed' = owed \ {id}
  /\ UNCHANGED <<global_cycles, loc, chain_deadline, tick_i, needed_recompute, pcVars, skipVars>>

CallbackReturn ==
  /\ loc = "callback"
  /\ tick_i # HBlankEvent
  /\ tick_i' = tick_i + 1
  /\ loc' = "tick"
  /\ UNCHANGED <<schedVars, global_cycles, chain_deadline, needed_recompute, owed, pcVars, skipVars>>

\* Mutant of HBlankCallback: the event is not scheduled again.
HBlankCallbackOnce(t) ==
  /\ loc = "callback"
  /\ tick_i = HBlankEvent
  /\ t > global_cycles /\ t <= global_cycles + MaxAhead
  /\ tick_i' = tick_i + 1
  /\ loc' = "tick"
  /\ UNCHANGED <<schedVars, global_cycles, chain_deadline, needed_recompute, owed, pcVars, skipVars>>

(* Sched_HBlank_Callback ends by rescheduling itself in the future.        *)
HBlankCallback(t) ==
  /\ loc = "callback"
  /\ tick_i = HBlankEvent
  /\ t > global_cycles /\ t <= global_cycles + MaxAhead
  /\ Sched_Add(HBlankEvent, t)
  /\ tick_i' = tick_i + 1
  /\ loc' = "tick"
  /\ UNCHANGED <<global_cycles, chain_deadline, needed_recompute, owed, pcVars, skipVars>>

TickEnd ==
  /\ loc = "tick"
  /\ tick_i = EventCount
  /\ IF needed_recompute
       THEN sched_recompute_cached(sched_active, sched_deadline)
       ELSE UNCHANGED <<sched_cached_earliest, sched_earliest_id>>
  /\ loc' = "loop"
  /\ SyncInterrupts
  /\ UNCHANGED <<sched_active, sched_deadline, global_cycles, chain_deadline, tickVars, entry_pc, counter, skipVars>>

-----------------------------------------------------------------------------
(* The bound on time is reached: nothing later is explored.                *)
Horizon ==
  /\ \/ loc = "chain" /\ global_cycles = MaxCycle
     \/ loc = "post" /\ SelfLoop /\ Kind[entry_pc] = "countdown"
     \/ loc = "loop" /\ SkipTarget(Budget) > MaxCycle
     \/ loc = "post" /\ SkipTarget(chain_deadline) > MaxCycle
  /\ UNCHANGED vars

Next ==
  \/ PollSkip
  \/ EnterChain
  \/ FetchException
  \/ \E id \in EventIds, t \in Deadlines : ChainAdd(id, t)
  \/ \E id \in EventIds : ChainRemove(id)
  \/ \E n \in 1 .. MaxCycle, p \in Blocks, c \in 0 .. MaxCounter : ChainExit(n, p, c)
  \/ CountdownSkip
  \/ IdleSkip
  \/ \E words \in 1 .. MaxCycle : ZeroFillSkip(words)
  \/ PollDetect
  \/ NoDispatch
  \/ TickStart
  \/ TickPass
  \/ TickFire
  \/ \E id \in EventIds, t \in Deadlines : CallbackAdd(id, t)
  \/ \E id \in EventIds : CallbackRemove(id)
  \/ CallbackReturn
  \/ \E t \in Deadlines : HBlankCallback(t)
  \/ TickEnd
  \/ Horizon

Spec == Init /\ [][Next]_vars

(* The loop's own steps: all but the calls guest code and callbacks may or *)
(* may not make.  Run_CPU is the only thread and never waits, so it always *)
(* takes its next step.                                                    *)
LoopStep ==
  \/ PollSkip \/ EnterChain \/ FetchException
  \/ \E n \in 1 .. MaxCycle, p \in Blocks, c \in 0 .. MaxCounter : ChainExit(n, p, c)
  \/ CountdownSkip \/ IdleSkip \/ PollDetect
  \/ NoDispatch \/ TickStart \/ TickPass \/ TickFire \/ CallbackReturn
  \/ \E t \in Deadlines : HBlankCallback(t)
  \/ TickEnd

FairSpec == Spec /\ WF_vars(LoopStep)

-----------------------------------------------------------------------------
TypeOK ==
  /\ SchedTypeOK
  /\ global_cycles \in 0 .. MaxCycle
  /\ loc \in Locs
  /\ chain_deadline \in Nat
  /\ tick_i \in 0 .. EventCount
  /\ needed_recompute \in BOOLEAN
  /\ owed \subseteq EventIds
  /\ entry_pc \in Blocks /\ cpu_pc \in Blocks
  /\ counter \in 0 .. Two32 - 1
  /\ poll_detect_pc \in Blocks \cup {NoBlock}
  /\ idle_skip_pc \in Blocks \cup {NoBlock}
  /\ idle_skip_count \in Nat

(* Whenever guest code can run or the loop reads it, the cached earliest   *)
(* deadline is the one a scan would find (scheduler.h keeps it up to date  *)
(* in Sched_Add, Sched_Remove and at the end of Sched_Tick).               *)
CacheExact == loc \notin {"tick", "callback"} => CacheIsEarliest

(* Every event due when the loop came to dispatch is served, cancelled or  *)
(* rescheduled before guest code runs again ("dispatch all due events",    *)
(* dynarec_run.c).                                                         *)
ServedInOneTick == loc = "loop" => owed = {}

(* The HBlank event, which drives VBlank and with it the whole machine, is *)
(* never off the table while guest code runs.                              *)
HBlankArmed == loc \notin {"tick", "callback"} => HBlankEvent \in sched_active

(* The strengthening that is inductive: inside Sched_Tick the cache is     *)
(* exact or marked for a re-scan; what the tick still owes is active, due  *)
(* and ahead of the loop index; only HBlank's own callback finds HBlank    *)
(* off the table.                                                          *)
InTick == loc \in {"tick", "callback"}

CacheRepairable == InTick => needed_recompute \/ CacheIsEarliest

OwedAhead ==
  InTick => \A j \in owed : /\ Due(j, global_cycles)
                            /\ tick_i <= j
                            /\ loc = "callback" => tick_i # j

FiringIsInRange == loc = "callback" => tick_i \in EventIds

HBlankArmedInTick ==
  InTick => HBlankEvent \in sched_active \/ (loc = "callback" /\ tick_i = HBlankEvent)

IInv ==
  /\ TypeOK
  /\ CacheExact
  /\ CacheRepairable
  /\ ServedInOneTick
  /\ OwedAhead
  /\ FiringIsInRange
  /\ HBlankArmed
  /\ HBlankArmedInTick

(* A poll or idle leap never passes an event that still lies ahead.        *)
LeapsStopAtEvents ==
  [][PollSkip \/ IdleSkip =>
       \A i \in sched_active :
         sched_deadline[i] > global_cycles => sched_deadline[i] >= global_cycles']_vars

(* A countdown leap counts down, and ends no later than the earliest event *)
(* or the budget unless the chain already ran past it.                     *)
CountdownStopsAtEvents ==
  [][CountdownSkip =>
       /\ counter' <= counter
       /\ \/ global_cycles' = global_cycles
          \/ global_cycles' <= SkipTarget(chain_deadline)]_vars

(* Every event scheduled before the horizon is eventually served,          *)
(* cancelled or moved: no sequence of leaps, budgets and dispatches        *)
(* forgets it.                                                             *)
EventsAreServed ==
  \A id \in EventIds, d \in 0 .. MaxCycle - 1 :
    (id \in sched_active /\ sched_deadline[id] = d)
      ~> ~(id \in sched_active /\ sched_deadline[id] = d)
=============================================================================
