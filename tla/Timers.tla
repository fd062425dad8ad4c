------------------------------- MODULE Timers -------------------------------
(***************************************************************************)
(* One root counter of src/timers.c.  The counter is not advanced cycle by *)
(* cycle: Timer_SyncValue brings it up to date when something looks at it, *)
(* and Timer_ScheduleOne keeps a scheduler event at the next cycle at which *)
(* an interrupt may be due.  The three counters share no state, so one of  *)
(* them, chosen at the start, is modelled.                                 *)
(*                                                                         *)
(* Cycle counts are kept relative to EFFECTIVE_CYCLES: el is now -         *)
(* last_sync_cycle (of W values, as the 64 bits of the code), event_left   *)
(* the time to the event's deadline, phase is now - the start of the frame.*)
(***************************************************************************)
EXTENDS Integers, FiniteSets

CONSTANTS Counters,      \* the counters to choose from, of 0 .. 2
          Modes,         \* mode registers the guest writes to each counter
          Values, Targets,
          Top,           \* 2^16
          W,             \* 2^64
          Divider,       \* of Timer 1 and 2 on their slow source
          Dotclocks,     \* timer0_dotclock_num of the video modes
          Den,           \* 11: the dotclock's denominator
          Cps, Vis,      \* cycles of a scanline, and of its visible part
          Lines, VblLine,\* scanlines of a frame, and the first of VBlank
          MaxElapsed,    \* bound: cycles without a synchronisation
          MaxLate        \* bound: cycles by which a chain passes a deadline

ModeRegs == [sync : BOOLEAN, sm : 0 .. 3, reset : BOOLEAN, irqT : BOOLEAN, irqO : BOOLEAN,
             repeat : BOOLEAN, slow : BOOLEAN]

ASSUME TimerAssumption ==
  /\ Counters \subseteq 0 .. 2 /\ \A t \in 0 .. 2 : Modes[t] \subseteq ModeRegs
  /\ {Top, W, Divider, Den, Cps, Vis, Lines, VblLine} \subseteq Nat \ {0}
  /\ Top > 1 /\ Values \subseteq 0 .. Top - 1 /\ Targets \subseteq 0 .. Top - 1
  /\ \A d \in Dotclocks : d \in Den .. W
  /\ Vis <= Cps /\ MaxElapsed \in 0 .. W \div 2 /\ MaxElapsed < W - 1 /\ MaxLate \in 0 .. 999

VARIABLES timer,         \* which counter this is
          tm,            \* its registers, and the clocks it is measured by:
                         \* el, phase, and age = now - timer_mode_set_cycle
          dot,           \* the video mode's dotclock numerator
          event_left,    \* of SCHED_EVENT_TIMERn, or NoEvent
          shots,         \* interrupts since the mode write, up to 2
          epoch,         \* parity of the writes
          misset         \* the event was set for another video mode, or from
                         \* a value past the period

timerVars == <<timer, tm, dot, event_left, shots, epoch, misset>>

NoEvent == -1000
Cpf == Lines * Cps
Vbl == VblLine * Cps

(* Counters 0 and 1 follow the blanking in their synchronisation modes.    *)
(* For the others the place in the frame does not matter: phase is 0, and  *)
(* the frame may end at any time.                                          *)
Follows(m) == m.sync /\ timer # 2

-----------------------------------------------------------------------------
(* timer_update_divider_cache and timer_update_stopped_cache: functions of *)
(* the mode register, recomputed whenever it is written.                   *)
Dotclock(r) == timer = 0 /\ r.mode.slow
divider(r) == IF timer # 0 /\ r.mode.slow THEN Divider ELSE 1
stopped(r) == r.mode.sync /\ timer = 2 /\ r.mode.sm \in {0, 3}
Num(r) == IF Dotclock(r) THEN dot ELSE divider(r)
Denom(r) == IF Dotclock(r) THEN Den ELSE 1

-----------------------------------------------------------------------------
(* The blanking periods decide which part of the elapsed time counts: e,   *)
(* with the counter and its residue set to zero where they say so.  stop:  *)
(* the counter stands, and last_sync_cycle is now.                         *)
Counts(r, e) == [stop |-> FALSE, e |-> e, r |-> r]
Cleared(r) == [r EXCEPT !.value = 0, !.residue = 0]
RestartsAt(r, e) == Counts(Cleared(r), e)
StandsStill(r) == [stop |-> TRUE, e |-> 0, r |-> r]
Freed(r) == [r EXCEPT !.freed = TRUE]

offs_from(r) == (r.phase - r.el) % W
scan_from(r) == offs_from(r) \div Cps
phase_from(r) == offs_from(r) % Cps
scan_to(r) == r.phase \div Cps
phase_to(r) == r.phase % Cps
hblank_crossed(r) ==
  \/ scan_to(r) > scan_from(r)
  \/ scan_to(r) = scan_from(r) /\ phase_from(r) < Vis /\ phase_to(r) >= Vis

(* Visible cycles among the elapsed ones.                                  *)
count_active_cycles_hblank(r) ==
  Cardinality({i \in 0 .. r.el - 1 : (phase_from(r) + i) % Cps < Vis})

SinceHBlank(r) ==
  CASE phase_to(r) >= Vis -> phase_to(r) - Vis
    [] phase_to(r) < Vis /\ scan_to(r) > 0 -> phase_to(r) + Cps - Vis
    [] OTHER -> r.el
SinceFirstHBlank(r) ==
  (r.phase - (IF phase_from(r) < Vis THEN scan_from(r) ELSE scan_from(r) + 1) * Cps - Vis) % W

Timer0Sync(r) ==
  CASE r.mode.sm = 0 -> Counts(r, count_active_cycles_hblank(r))
    [] r.mode.sm = 1 -> IF hblank_crossed(r) THEN RestartsAt(r, SinceHBlank(r)) ELSE Counts(r, r.el)
    [] r.mode.sm = 2 -> IF phase_to(r) >= Vis THEN RestartsAt(r, phase_to(r) - Vis)
                                              ELSE StandsStill(Cleared(r))
    [] r.mode.sm = 3 /\ r.freed -> Counts(r, r.el)
    [] r.mode.sm = 3 /\ ~r.freed -> IF hblank_crossed(r) THEN RestartsAt(Freed(r), SinceFirstHBlank(r))
                                                         ELSE StandsStill(r)

in_vblank(r) == r.phase % Cpf >= Vbl
vblank_crossed(r) ==
  \/ r.el >= Cpf
  \/ offs_from(r) % Cpf < Vbl /\ in_vblank(r)
  \/ r.phase % Cpf < offs_from(r) % Cpf

(* When VBlank frees the counter, last_sync_cycle becomes now while the    *)
(* whole span since the last look is still counted.                        *)
Timer1Sync(r) ==
  CASE r.mode.sm = 0 -> IF in_vblank(r) THEN StandsStill(r) ELSE Counts(r, r.el)
    [] r.mode.sm = 1 -> IF vblank_crossed(r) THEN RestartsAt(r, (r.phase - Vbl) % Cpf) ELSE Counts(r, r.el)
    [] r.mode.sm = 2 -> IF in_vblank(r) THEN Counts(r, r.el) ELSE StandsStill([r EXCEPT !.value = 0])
    [] r.mode.sm = 3 /\ r.freed -> Counts(r, r.el)
    [] r.mode.sm = 3 /\ ~r.freed -> IF in_vblank(r) \/ r.age >= Cpf
                                      THEN RestartsAt([Freed(r) EXCEPT !.el = 0], r.el)
                                      ELSE StandsStill(r)

Elapsed(r) ==
  CASE stopped(r) -> StandsStill(r)
    [] r.mode.sync /\ timer = 0 -> Timer0Sync(r)
    [] r.mode.sync /\ timer = 1 -> Timer1Sync(r)
    [] OTHER -> Counts(r, r.el)

-----------------------------------------------------------------------------
(* n > 0 ticks of the counter.  In reset mode value target + 1 is a second *)
(* tick at zero.                                                           *)
ResetMode(r) == r.mode.reset /\ r.target > 0
Period(r) == IF ResetMode(r) THEN r.target + 2 ELSE Top

NewValue(r, n) ==
  LET v == (r.value % Top) + n IN IF v >= Period(r) THEN v % Period(r) ELSE v

wrapped_target(r, n) ==
  LET v == r.value % Top
  IN  \/ r.target > 0 /\ v < r.target /\ v + n >= r.target
      \/ ResetMode(r) /\ v = r.target + 1 /\ n > r.target
wrapped_overflow(r, n) ==
  (r.value % Top) + n >= Top /\ (ResetMode(r) => r.target >= Top - 1)

can_fire(r) == r.mode.repeat \/ ~r.fired
Fires(r, n) ==
  /\ can_fire(r)
  /\ \/ r.mode.irqT /\ wrapped_target(r, n)
     \/ r.mode.irqO /\ wrapped_overflow(r, n)

Advance(r, n) ==
  [r EXCEPT !.value = NewValue(r, n),
            !.fired = @ \/ Fires(r, n)]

(* The ticks of the elapsed time, and what is left of it.                  *)
Units(c) == IF Dotclock(c.r) THEN c.e * Den + c.r.residue ELSE c.e
Ticks(c) == Units(c) \div Num(c.r)

\* Mutant of Unticked: the cycles of an unfinished tick are dropped.
UntickedDropped(c) == [c.r EXCEPT !.el = 0, !.residue = 0]

Unticked(c) ==
  IF Dotclock(c.r)
    THEN [c.r EXCEPT !.el = (Units(c) % Num(c.r)) \div Den, !.residue = (Units(c) % Num(c.r)) % Den]
    ELSE [c.r EXCEPT !.el = (@ - Ticks(c) * divider(c.r)) % W]

Timer_SyncValue(r) ==
  LET c == Elapsed(r)
  IN  CASE c.stop -> [r |-> [c.r EXCEPT !.el = 0], signal |-> FALSE]
        [] ~c.stop /\ Ticks(c) = 0 -> [r |-> Unticked(c), signal |-> FALSE]
        [] OTHER -> [r |-> Advance(Unticked(c), Ticks(c)), signal |-> Fires(c.r, Ticks(c))]

-----------------------------------------------------------------------------
irq_can_fire(r) == (r.mode.irqT \/ r.mode.irqO) /\ can_fire(r)

\* Mutant of TicksToEvent: the event waits for the overflow.
TicksToOverflow(r) == IF ResetMode(r) THEN r.target + 2 ELSE Top - r.value

TicksToEvent(r) ==
  LET v == r.value % Top
  IN  CASE ResetMode(r) -> IF v <= r.target THEN r.target + 1 - v ELSE r.target + 2
        [] ~ResetMode(r) /\ r.mode.irqT /\ r.target > 0 /\ v <= r.target -> r.target + 1 - v
        [] OTHER -> Top - v

(* Rounded up to a whole cycle.  A stopped counter keeps the event it has. *)
EventAfter(r) ==
  CASE stopped(r) -> event_left
    [] ~stopped(r) /\ ~irq_can_fire(r) -> NoEvent
    [] OTHER -> (TicksToEvent(r) * Num(r) + Denom(r) - 1) \div Denom(r)

(* A value or target written so that the counter is beyond both the target *)
(* and the tick after it is taken to be at that tick.                      *)
PastPeriod(r) == r.value >= Period(r)

CountShot(signal) == IF signal /\ shots < 2 THEN shots + 1 ELSE shots

SyncStep(s) == tm' = s.r /\ shots' = CountShot(s.signal)

Timer_ScheduleOne(r) ==
  /\ SyncStep(Timer_SyncValue(r))
  /\ event_left' = EventAfter(tm')
  /\ misset' = PastPeriod(tm')
  /\ UNCHANGED <<timer, dot>>

-----------------------------------------------------------------------------
TimerInit ==
  /\ timer \in Counters
  /\ tm = [value |-> 0, mode |-> [sync |-> FALSE, sm |-> 0, reset |-> FALSE, irqT |-> FALSE, irqO |-> FALSE,
                                 repeat |-> FALSE, slow |-> FALSE],
           target |-> 0, el |-> 0, residue |-> 0,
           fired |-> FALSE, freed |-> FALSE, phase |-> 0, age |-> 0]
  /\ dot \in Dotclocks
  /\ event_left = NoEvent /\ shots = 0 /\ epoch = FALSE /\ misset = FALSE

(* Timer_CallbackN; Sched_Tick has taken the event off the table.  A       *)
(* stopped counter does not come back.                                     *)
Timer_Callback ==
  /\ event_left # NoEvent /\ event_left <= 0
  /\ SyncStep(Timer_SyncValue(tm))
  /\ event_left' = IF stopped(tm') THEN NoEvent ELSE EventAfter(tm')
  /\ misset' = PastPeriod(tm')
  /\ UNCHANGED <<timer, dot, epoch>>

(* A read of the value or of the mode.                                     *)
Timers_Read ==
  /\ SyncStep(Timer_SyncValue(tm))
  /\ UNCHANGED <<timer, dot, event_left, epoch, misset>>

WriteValue(v) ==
  /\ Timer_ScheduleOne([tm EXCEPT !.value = v, !.el = 0])
  /\ epoch' = ~epoch

(* timer_update_divider_cache also clears the dotclock's residue.  A       *)
(* counter that starts to follow the blanking does so anywhere in a frame. *)
Phases(m) ==
  CASE ~Follows(m) -> {0}
    [] Follows(m) /\ Follows(tm.mode) -> {tm.phase}
    [] OTHER -> 0 .. Cpf - 1
\* Mutant of ModeWritten: the interrupt of the last mode still counts.
ModeWrittenFired(m, ph) == [tm EXCEPT !.mode = m, !.value = 0, !.el = 0, !.age = 0, !.freed = FALSE, !.phase = ph]

ModeWritten(m, ph) ==
  [tm EXCEPT !.mode = m, !.value = 0, !.el = 0, !.age = 0, !.fired = FALSE, !.freed = FALSE, !.phase = ph]

WriteMode(m, ph) ==
  LET r == ModeWritten(m, ph)
      s == Timer_SyncValue([r EXCEPT !.residue = IF Dotclock(r) THEN 0 ELSE @])
  IN  /\ tm' = s.r
      /\ event_left' = EventAfter(s.r)
      /\ shots' = 0 /\ epoch' = ~epoch /\ misset' = PastPeriod(s.r)
      /\ UNCHANGED <<timer, dot>>

(* The target is stored before the counter is brought up to date.          *)
WriteTarget(x) ==
  /\ Timer_ScheduleOne([tm EXCEPT !.target = x])
  /\ epoch' = ~epoch

(* GP1(08h): the counter is not brought up to date, nor its event moved.   *)
Timer_RefreshDividerCache(d) ==
  /\ timer = 0
  /\ dot' = d
  /\ tm' = IF Dotclock(tm) THEN [tm EXCEPT !.residue = 0] ELSE tm
  /\ epoch' = ~epoch /\ misset' = TRUE
  /\ UNCHANGED <<timer, event_left, shots>>

(* The HBlank callback at the end of a frame: the new frame starts now,    *)
(* and Timer_ScheduleAll follows.                                          *)
FrameEnds ==
  /\ Follows(tm.mode) => tm.phase >= Cpf
  /\ Timer_ScheduleOne([tm EXCEPT !.phase = 0])
  /\ UNCHANGED epoch

(* A cycle of guest code.  The age is kept where something asks for it.     *)
AgeMatters == timer = 1 /\ tm.mode.sync /\ tm.mode.sm = 3 /\ ~tm.freed
TimerCycle ==
  /\ tm.el < MaxElapsed \/ tm.el > W \div 2
  /\ tm.phase < Cpf + MaxLate
  /\ event_left > -MaxLate \/ event_left = NoEvent
  /\ tm' = [tm EXCEPT !.el = (@ + 1) % W, !.phase = IF Follows(tm.mode) THEN @ + 1 ELSE 0,
                      !.age = IF @ < Cpf /\ AgeMatters THEN @ + 1 ELSE @]
  /\ event_left' = IF event_left = NoEvent THEN NoEvent ELSE event_left - 1
  /\ UNCHANGED <<timer, dot, shots, epoch, misset>>

TimerNext ==
  \/ Timers_Read
  \/ \E v \in Values : WriteValue(v)
  \/ \E m \in Modes[timer] : \E ph \in Phases(m) : WriteMode(m, ph)
  \/ \E x \in Targets : WriteTarget(x)
  \/ \E d \in Dotclocks : Timer_RefreshDividerCache(d)
  \/ Timer_Callback \/ FrameEnds \/ TimerCycle

TimerSpec == TimerInit /\ [][TimerNext]_timerVars

(* Guest code runs and due events are dispatched; what the guest does with *)
(* the counter is up to it.                                                *)
TimerFairness == WF_timerVars(TimerCycle) /\ WF_timerVars(Timer_Callback)

-----------------------------------------------------------------------------
TimerRegs ==
  [value : 0 .. Top, mode : ModeRegs, target : 0 .. Top - 1, el : 0 .. W - 1, residue : 0 .. Den - 1,
   fired : BOOLEAN, freed : BOOLEAN, phase : 0 .. Cpf + MaxLate, age : 0 .. Cpf]
TimerTypeOK ==
  /\ timer \in Counters /\ tm \in TimerRegs /\ dot \in Dotclocks
  /\ event_left \in Int /\ (event_left = NoEvent \/ event_left >= -MaxLate)
  /\ shots \in 0 .. 2 /\ {epoch, misset} \subseteq BOOLEAN

(* A counter that neither follows the blanking nor stands: the units of    *)
(* time since it was last looked at, and where it would be if it were.     *)
Unknown == -1
FreeRun(r) == ~Follows(r.mode) /\ ~stopped(r)
UnitsOf(r) == Units(Counts(r, r.el))
CountOf(r) ==
  CASE Follows(r.mode) -> Unknown
    [] ~Follows(r.mode) /\ (stopped(r) \/ Ticks(Counts(r, r.el)) = 0) -> r.value
    [] OTHER -> NewValue(r, Ticks(Counts(r, r.el)))
SubOf(r) == IF FreeRun(r) THEN UnitsOf(r) % Num(r) ELSE 0
ClockOf(r) == <<IF stopped(r) THEN 0 ELSE Num(r), Denom(r)>>

(* However seldom or often the counter is looked at, it is where a counter *)
(* that ticks by itself would be: a free-running or stopped counter        *)
(* implements RootCounter.                                                 *)
Counter == INSTANCE RootCounter WITH
  count <- CountOf(tm), sub <- SubOf(tm), clock <- ClockOf(tm), period <- Period(tm)
LazyIsExact == Counter!Spec

(* An enabled interrupt has an event, at most two ticks after the tick     *)
(* that crosses, whatever reads, writes and rescheduling came before.      *)
Crossings == {n \in 1 .. Top + 1 : Fires(tm, n)}
EventNotLate ==
  FreeRun(tm) /\ ~misset /\ irq_can_fire(tm) =>
    /\ event_left # NoEvent
    /\ \A n \in Crossings : event_left * Denom(tm) < (n + 2) * Num(tm) - UnitsOf(tm) + Denom(tm)

(* Without the repeat bit, one mode write gives one interrupt.             *)
OneShot == tm.mode.repeat \/ shots <= 1

(* The scheduled event serves the interrupt: in time, and once.            *)
IrqIsServed == TimerTypeOK /\ EventNotLate /\ OneShot

(* An enabled interrupt comes, however often the guest reads the counter,  *)
(* unless the guest keeps writing to it.                                   *)
CanCross ==
  /\ FreeRun(tm)
  /\ \/ tm.mode.irqT /\ tm.target > 0
     \/ tm.mode.irqO /\ ~ResetMode(tm)
EnabledIrqFires == <>[][epoch' = epoch]_timerVars => (CanCross ~> shots > 0 \/ ~CanCross)
=============================================================================
