----------------------------- MODULE Scheduler -----------------------------
(***************************************************************************)
(* The event scheduler of include/scheduler.h and src/scheduler.c: one     *)
(* slot per event id holding a deadline in CPU cycles, and a cache of the  *)
(* earliest deadline that the CPU loop reads instead of scanning.          *)
(*                                                                         *)
(* sched_active is the set of ids whose active flag is 1.  The callback    *)
(* pointers are not state here: what a callback does to the slots is an    *)
(* action of the module that uses the scheduler.  Never stands for         *)
(* UINT64_MAX: it is greater than every deadline.                          *)
(***************************************************************************)
EXTENDS Integers

CONSTANTS EventCount,   \* SCHED_EVENT_COUNT
          MaxCycle,     \* bound: the last value global_cycles takes
          MaxAhead      \* bound: how far ahead of now an event is scheduled

ASSUME SchedulerAssumption == /\ EventCount \in Nat \ {0}
                              /\ MaxCycle \in Nat
                              /\ MaxAhead \in Nat \ {0}

EventIds == 0 .. EventCount - 1
Deadlines == 0 .. MaxCycle + MaxAhead
Never == MaxCycle + MaxAhead + 1
NoEvent == -1

VARIABLES sched_active, sched_deadline, sched_cached_earliest, sched_earliest_id

schedVars == <<sched_active, sched_deadline, sched_cached_earliest, sched_earliest_id>>

Sched_Init ==
  /\ sched_active = {}
  /\ sched_deadline = [i \in EventIds |-> 0]
  /\ sched_cached_earliest = Never
  /\ sched_earliest_id = NoEvent

-----------------------------------------------------------------------------
(* The scan keeps the first id that is strictly earlier than all before    *)
(* it: the earliest deadline, and the lowest id among equals.              *)
Precedes(i, j, dl) == dl[i] < dl[j] \/ (dl[i] = dl[j] /\ i <= j)

EarliestOf(act, dl) == CHOOSE i \in act : \A j \in act : Precedes(i, j, dl)

sched_recompute_cached(act, dl) ==
  IF act = {}
    THEN sched_cached_earliest' = Never /\ sched_earliest_id' = NoEvent
    ELSE /\ sched_earliest_id' = EarliestOf(act, dl)
         /\ sched_cached_earliest' = dl[EarliestOf(act, dl)]

\* Mutant of Sched_Add: the earliest event moved later without a re-scan.
Sched_AddNoRescan(id, t) ==
  /\ sched_active' = sched_active \cup {id}
  /\ sched_deadline' = [sched_deadline EXCEPT ![id] = t]
  /\ IF t <= sched_cached_earliest
       THEN sched_cached_earliest' = t /\ sched_earliest_id' = id
       ELSE UNCHANGED <<sched_cached_earliest, sched_earliest_id>>

Sched_Add(id, t) ==
  /\ sched_active' = sched_active \cup {id}
  /\ sched_deadline' = [sched_deadline EXCEPT ![id] = t]
  /\ \/ /\ t <= sched_cached_earliest
        /\ sched_cached_earliest' = t
        /\ sched_earliest_id' = id
     \/ /\ t > sched_cached_earliest
        /\ id = sched_earliest_id
        /\ sched_recompute_cached(sched_active', sched_deadline')
     \/ /\ t > sched_cached_earliest
        /\ id # sched_earliest_id
        /\ UNCHANGED <<sched_cached_earliest, sched_earliest_id>>

Sched_Remove(id) ==
  /\ sched_active' = sched_active \ {id}
  /\ UNCHANGED sched_deadline
  /\ IF id = sched_earliest_id
       THEN sched_recompute_cached(sched_active', sched_deadline)
       ELSE UNCHANGED <<sched_cached_earliest, sched_earliest_id>>

(* One slot of the Sched_Tick loop is due: it is taken off the table       *)
(* before its callback runs; the cache is repaired only after the loop.    *)
Due(i, now) == i \in sched_active /\ sched_deadline[i] <= now

TakeDue(i) ==
  /\ sched_active' = sched_active \ {i}
  /\ UNCHANGED <<sched_deadline, sched_cached_earliest, sched_earliest_id>>

-----------------------------------------------------------------------------
SchedTypeOK ==
  /\ sched_active \subseteq EventIds
  /\ sched_deadline \in [EventIds -> Deadlines]
  /\ sched_cached_earliest \in Deadlines \cup {Never}
  /\ sched_earliest_id \in EventIds \cup {NoEvent}

(* The cache is what a scan would find: no active event is earlier, and    *)
(* the id names an active event with that deadline (or none is active).    *)
CacheIsEarliest ==
  /\ \A i \in sched_active : sched_cached_earliest <= sched_deadline[i]
  /\ IF sched_active = {}
       THEN sched_cached_earliest = Never /\ sched_earliest_id = NoEvent
       ELSE /\ sched_earliest_id \in sched_active
            /\ sched_cached_earliest = sched_deadline[sched_earliest_id]
=============================================================================
