----------------------------- MODULE MCDevices -----------------------------
(***************************************************************************)
(* The controller port, the interrupt logic and a root counter.  They      *)
(* share no variable, so one of them is chosen and the others rest in      *)
(* their initial state: the runs add up instead of multiplying.            *)
(***************************************************************************)
EXTENDS Sio, Interrupts, Timers

VARIABLE device

Free(reset, irqT, irqO, repeat, slow) ==
  [sync |-> FALSE, sm |-> 0, reset |-> reset, irqT |-> irqT, irqO |-> irqO, repeat |-> repeat, slow |-> slow]
Synced(sm) ==
  [sync |-> TRUE, sm |-> sm, reset |-> FALSE, irqT |-> FALSE, irqO |-> FALSE, repeat |-> TRUE, slow |-> FALSE]
SomeModes ==
  [t \in 0 .. 2 |->
     CASE t = 0 -> {Free(TRUE, TRUE, FALSE, TRUE, TRUE)} \cup {Synced(sm) : sm \in 0 .. 3}
       [] t = 1 -> {Free(FALSE, TRUE, TRUE, FALSE, FALSE)} \cup {Synced(sm) : sm \in 0 .. 3}
       [] t = 2 -> {Free(TRUE, TRUE, FALSE, TRUE, TRUE), Free(FALSE, TRUE, TRUE, FALSE, FALSE),
                    Free(FALSE, FALSE, TRUE, FALSE, TRUE), Synced(0)}]

DeviceVars == <<vars, intVars, timerVars, device>>

DeviceInit ==
  /\ device \in {"sio", "irq", "timer"}
  /\ Init /\ IntInit
  /\ TimerInit /\ (device # "timer" => timer = 2 /\ dot = CHOOSE d \in Dotclocks : TRUE)

SioStep == device = "sio" /\ Next /\ UNCHANGED <<intVars, timerVars, device>>
IntStep == device = "irq" /\ IntNext /\ UNCHANGED <<vars, timerVars, device>>
TimerStep == device = "timer" /\ TimerNext /\ UNCHANGED <<vars, intVars, device>>

(* The fairness of IntFairness and TimerFairness, for the device chosen.   *)
DeviceSpec ==
  /\ DeviceInit /\ [][SioStep \/ IntStep \/ TimerStep]_DeviceVars
  /\ WF_intVars(device = "irq" /\ \E n \in 1 .. MaxBudget : StartChain(n))
  /\ WF_intVars(device = "irq" /\ \E n \in 1 .. 2 : RunBlock(n))
  /\ WF_intVars(device = "irq" /\ EndChain)
  /\ WF_intVars(device = "irq" /\ sync_hardware_and_interrupts)
  /\ WF_timerVars(device = "timer" /\ TimerCycle)
  /\ WF_timerVars(device = "timer" /\ Timer_Callback)
=============================================================================
