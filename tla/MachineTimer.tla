---------------------------- MODULE MachineTimer ----------------------------
(***************************************************************************)
(* The system timer driver of the RISC-V machine timer                     *)
(* (drivers/timer/riscv_machine_timer.c) with CONFIG_TICKLESS_KERNEL, and  *)
(* the hardware it drives: one free running cycle counter, and for each    *)
(* CPU a compare register that raises the CPU's timer interrupt.           *)
(*                                                                         *)
(* The driver's functions are called with the timeout queue's lock held    *)
(* (module TimeoutQueue), except timer_isr.                                *)
(***************************************************************************)
EXTENDS Integers

CONSTANTS
  Cpus,
  CYC_PER_TICK,
  INT32_MAX,     \* the largest number of ticks sys_clock_announce takes
  CYCLE_DIFF_W,  \* width of cycle_diff_t
  BootCycles,    \* counter when the driver is initialized
  Latency,       \* cycles by which an interrupt is served late, at most
  Horizon        \* bound: the counter is not followed further

K_TICKS_FOREVER == -1

Lower(a, b)  == IF a < b THEN a ELSE b
Higher(a, b) == IF a > b THEN a ELSE b

\* The longest wait programmed, in cycles: three quarters of what both
\* sys_clock_announce and cycle_diff_t can hold, rounded up to a rounder number.
CYCLES_MAX_3 == Lower(INT32_MAX * CYC_PER_TICK, 2^CYCLE_DIFF_W - 1)

WholeRange == CYCLES_MAX_3

CYCLES_MAX ==
  LET most == CYCLES_MAX_3 \div 2 + CYCLES_MAX_3 \div 4
      lsb  == CHOOSE b \in {2^k : k \in 0 .. CYCLE_DIFF_W} :
                (most \div b) % 2 = 1 /\ most % b = 0
  IN  most + lsb

ASSUME MachineTimerAssumption ==
  /\ Cpus # {}
  /\ CYC_PER_TICK \in Nat \ {0} /\ INT32_MAX \in Nat \ {0}
  /\ CYCLE_DIFF_W \in Nat \ {0} /\ 2^CYCLE_DIFF_W \in Nat \ {0}
  /\ BootCycles \in Nat /\ Horizon \in Nat
  /\ Latency \in Nat

VARIABLES
  mtime,         \* the cycle counter
  mtimecmp,      \* each CPU's compare register
  last_count,    \* cycle of the last announced tick
  last_ticks,    \* that tick
  last_elapsed   \* result of the last sys_clock_elapsed since

timerVars == <<mtime, mtimecmp, last_count, last_ticks, last_elapsed>>

boot == BootCycles \div CYC_PER_TICK

TimerTypeOK ==
  /\ mtime \in Nat
  /\ mtimecmp \in [Cpus -> Nat]
  /\ last_count \in Nat /\ last_ticks \in Nat /\ last_elapsed \in Nat

sys_clock_driver_init ==
  /\ mtime = BootCycles
  /\ last_ticks = boot
  /\ last_count = last_ticks * CYC_PER_TICK
  /\ mtimecmp = [p \in Cpus |-> last_count + CYC_PER_TICK]
  /\ last_elapsed = 0

\* What the counter may show when it is read later: interrupts are not served
\* later than Latency.
Readable(cycle) ==
  /\ cycle <= Horizon
  /\ \A p \in Cpus : cycle <= mtimecmp[p] + Latency

Tick ==
  /\ Readable(mtime + 1)
  /\ mtime' = mtime + 1
  /\ UNCHANGED <<mtimecmp, last_count, last_ticks, last_elapsed>>

\* Ticks since the last announced one, if the counter shows cycle.
TicksSince(cycle) == ((cycle - last_count) % 2^CYCLE_DIFF_W) \div CYC_PER_TICK

\* timer_isr up to its call of sys_clock_announce(TicksSince(mtime)).
timer_isr_locked(p) ==
  /\ mtimecmp[p] <= mtime
  /\ last_count' = last_count + TicksSince(mtime) * CYC_PER_TICK
  /\ last_ticks' = last_ticks + TicksSince(mtime)
  /\ last_elapsed' = 0
  /\ UNCHANGED <<mtime, mtimecmp>>

\* elapsed is last_elapsed when the function is called.
sys_clock_set_timeout(p, ticks, elapsed) ==
  LET cyc == (last_ticks + elapsed + ticks) * CYC_PER_TICK
  IN  mtimecmp' = [mtimecmp EXCEPT ![p] =
        IF ticks = K_TICKS_FOREVER \/ cyc - last_count > CYCLES_MAX
          THEN last_count + CYCLES_MAX ELSE cyc]
=============================================================================
