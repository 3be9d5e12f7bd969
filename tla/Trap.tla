-------------------------------- MODULE Trap --------------------------------
(***************************************************************************)
(* Interrupts and exceptions from the controller to the handlers:          *)
(* newland/arch/x86/src/idt.c, irq.c, asm/idt.s and asm/irq.s, with the    *)
(* two interrupt controllers as idt_init programs them (external), and     *)
(* with what the handlers and the threads under them print (Klog).         *)
(*                                                                         *)
(* Each thread has a kernel stack of frames.  A frame of an interrupt is   *)
(* at the acknowledgement, at the call of the handler or at the return;    *)
(* schedule, the handler of the timer, leaves its frame behind on the      *)
(* stack of a thread and goes on with another.  Which process it picks is  *)
(* in Proc; here it may be any.                                            *)
(***************************************************************************)
EXTENDS Klog, Clock, FiniteSetsExt

CONSTANTS IRQ,          \* the lines that devices raise
          HandlerLens   \* lengths of what the handlers print

ASSUME IRQAssumption == IRQ \subseteq (0..15 \ {2}) /\ 0 \in IRQ
ASSUME HandlerLensAssumption ==
    HandlerLens \subseteq Nat /\ \A len \in HandlerLens : len + Stamp <= NEWLAND_KLOG_SIZE

VARIABLES curr,      \* the thread that runs
          frames,    \* the stack of each thread
          iflag,     \* the interrupt flag
          irr,       \* external: the lines raised ...
          isr,       \* ... and the ones in service at the first controller ...
          isr2       \* ... and at the second, which is on line 2 of the first

cpu == <<curr, frames, iflag>>
pic == <<irr, isr, isr2>>
trap_vars == <<cpu, pic>>

\* Mutant: the stub of an interrupt pushes its line.
int_no_line(vector) == IF vector < 32 THEN 1 ELSE vector - 32

\* The stubs: an exception pushes 1 whatever it is, an interrupt its vector.  Every
\* gate clears the flag.
int_no(vector) == IF vector < 32 THEN 1 ELSE vector

\* The vectors sched_init gives a handler.
idt_handlers == {6, 16, 12, 14}
irq_handlers == {0}

NoFrame == [kind |-> "thread", no |-> 0, at |-> "run", iflag |-> TRUE]
Top == IF frames[curr] = <<>> THEN NoFrame ELSE frames[curr][Len(frames[curr])]
Push(no, kind, at) ==
    frames' = [frames EXCEPT ![curr] =
        Append(@, [kind |-> kind, no |-> no, at |-> at, iflag |-> iflag])]
MoveTo(at) == frames' = [frames EXCEPT ![curr][Len(frames[curr])].at = at]
-----------------------------------------------------------------------------
(* The controllers *)

\* The line of the first controller; lower lines go first, and a line in service
\* keeps itself and the ones after it back.
Line(n) == IF n >= 8 THEN 2 ELSE n
Free(n) == (\A m \in isr : Line(n) < m) /\ (n >= 8 => \A m \in isr2 : n < m)
Order(n) == IF n >= 8 THEN 16 + n ELSE IF n > 2 THEN 32 + n ELSE n

\* outb(0x20, 0x20): the first line in service is acknowledged.
outb_eoi(lines) == IF lines = {} THEN {} ELSE lines \ {Min(lines)}

raise(n) ==
    /\ n \notin irr
    /\ irr' = irr \cup {n}
    /\ UNCHANGED <<cpu, isr, isr2>>

\* The processor takes an interrupt and the stub is entered.
deliver(n) ==
    /\ iflag /\ n \in irr /\ Free(n)
    /\ \A m \in irr : Free(m) => Order(n) <= Order(m)
    /\ irr' = irr \ {n}
    /\ isr' = isr \cup {Line(n)}
    /\ isr2' = IF n >= 8 THEN isr2 \cup {n} ELSE isr2
    /\ Push(int_no(n + 32), "irq", "eoi")
    /\ iflag' = FALSE
    /\ UNCHANGED curr
-----------------------------------------------------------------------------
(* irq_handler *)

\* Mutant: the first line of the second controller is taken for one of the first.
irq_handler_above ==
    /\ Top.kind = "irq" /\ Top.at = "eoi"
    /\ isr2' = IF Top.no > 40 THEN outb_eoi(isr2) ELSE isr2
    /\ isr' = outb_eoi(isr)
    /\ MoveTo("call")
    /\ UNCHANGED <<curr, iflag, irr, klog_vars>>

\* Mutant: the handler is called before the interrupt is acknowledged, and schedule
\* does not come back to do it.
irq_handler_late ==
    /\ Top.kind = "irq" /\ Top.at = "eoi"
    /\ MoveTo("call")
    /\ UNCHANGED <<curr, iflag, pic, klog_vars>>

irq_handler ==
    /\ Top.kind = "irq" /\ Top.at = "eoi"
    /\ isr2' = IF Top.no >= 40 THEN outb_eoi(isr2) ELSE isr2
    /\ isr' = outb_eoi(isr)
    /\ MoveTo("call")
    /\ UNCHANGED <<curr, iflag, irr, klog_vars>>

\* Only the timer has a handler.
irq_handler_none ==
    /\ Top.kind = "irq" /\ Top.at = "call" /\ Top.no - 32 \notin irq_handlers
    /\ MoveTo("ret")
    /\ UNCHANGED <<curr, iflag, pic, klog_vars>>

\* schedule says what it does and goes on with a thread, which it left in schedule
\* or which starts with the flag clear; or there is no process.
schedule ==
    /\ Top.kind = "irq" /\ Top.at = "call" /\ Top.no - 32 \in irq_handlers
    /\ MoveTo("ret")
    /\ \/ (\E len \in HandlerLens : print_now(len)) /\ curr' \in Thread
       \/ UNCHANGED <<curr, klog_vars>>
    /\ UNCHANGED <<iflag, pic>>

\* sti and iret at the end of the stub: no interrupt is taken between the two.
iret ==
    /\ Top.at = "ret"
    /\ frames' = [frames EXCEPT ![curr] = SubSeq(@, 1, Len(@) - 1)]
    /\ iflag' = Top.iflag
    /\ UNCHANGED <<curr, pic, klog_vars>>
-----------------------------------------------------------------------------
(* Exceptions *)

\* A thread, or schedule in a thread's name, faults.
fault(vector) ==
    /\ Top.kind = "thread" \/ (Top.kind = "irq" /\ Top.at = "call")
    /\ Push(int_no(vector), "exc", "call")
    /\ iflag' = FALSE
    /\ UNCHANGED <<curr, pic, klog_vars>>

\* isr_handler: the number is 1, which has no handler.  The end of an interrupt is
\* sent to the controller, and the return is to the instruction that faulted.
isr_handler ==
    /\ Top.kind = "exc" /\ Top.at = "call"
    /\ Top.no \notin idt_handlers
    /\ \E len \in HandlerLens : print_now(len)
    /\ isr' = outb_eoi(isr)
    /\ MoveTo("ret")
    /\ UNCHANGED <<curr, iflag, irr, isr2>>
-----------------------------------------------------------------------------
(* Threads *)

\* A thread that started with the flag clear sets it.
sti ==
    /\ Top.kind = "thread" /\ ~iflag
    /\ iflag' = TRUE
    /\ UNCHANGED <<curr, frames, pic, klog_vars>>

thread_prints == Top.kind = "thread" /\ PrintSteps(curr) /\ UNCHANGED trap_vars

\* bootstrap_main has come to its sti.
TrapInit ==
    /\ curr \in Thread /\ frames = [t \in Thread |-> <<>>] /\ iflag = FALSE
    /\ irr = {} /\ isr = {} /\ isr2 = {}

Handling == irq_handler \/ irq_handler_none \/ schedule \/ iret \/ isr_handler
TrapSteps ==
    \/ (\E n \in IRQ : raise(n) \/ deliver(n)) /\ UNCHANGED klog_vars
    \/ Handling
    \/ fault(14) \/ sti \/ thread_prints

vars == <<trap_vars, klog_vars, clock_vars>>

\* A behaviour in which the clock moves is about reading it, the others are about the
\* handlers.
Moves == Len(era) > 1
Init == TrapInit /\ KlogInit /\ ClockInit
Next ==
    \/ ~Moves /\ TrapSteps /\ UNCHANGED clock_vars
    \/ Moves /\ ClockSteps /\ UNCHANGED <<trap_vars, klog_vars>>

\* An interrupt that can be taken is taken, however short the flag is set, and
\* handlers run to their end.
Spec ==
    /\ Init /\ [][Next]_vars
    /\ SF_vars(~Moves /\ deliver(0) /\ UNCHANGED <<klog_vars, clock_vars>>)
    /\ WF_vars(~Moves /\ Handling /\ UNCHANGED clock_vars)
-----------------------------------------------------------------------------
TypeOK ==
    /\ curr \in Thread /\ iflag \in BOOLEAN
    /\ irr \subseteq IRQ /\ isr \subseteq 0..7 /\ isr2 \subseteq 8..15
    /\ \A t \in Thread : \A i \in 1..Len(frames[t]) :
          frames[t][i].at \in {"eoi", "call", "ret"} /\ frames[t][i].no \in 1..47
    /\ klog_pos \in 0..MaxPos /\ now \in 1..Len(era)

(***************************************************************************)
(* What an end of interrupt acknowledges is the interrupt whose handler    *)
(* sends it: the one isr_handler sends for an exception acknowledges       *)
(* nothing, in a thread or in the middle of a tick.                        *)
(***************************************************************************)
AcksOwn ==
    [][/\ \A m \in isr \ isr' : Top.kind = "irq" /\ Line(Top.no - 32) = m
       /\ \A m \in isr2 \ isr2' : Top.kind = "irq" /\ Top.no - 32 = m]_vars

(***************************************************************************)
(* Whenever a handler or a thread runs no line is in service, so that a    *)
(* handler that goes on with another thread holds no line back, and the    *)
(* frames a thread is left with are those of a tick it was switched away   *)
(* in.                                                                     *)
(***************************************************************************)
NoneInService ==
    /\ Top.at # "eoi" => isr = {} /\ isr2 = {}
    /\ \A t \in Thread \ {curr} : frames[t] # <<>> =>
          LET f == frames[t][Len(frames[t])] IN f.no = 32 /\ f.at = "ret"

(***************************************************************************)
(* As long as the flag is set again and again every tick is taken, in the  *)
(* middle of printing, between two faults of an instruction that faults    *)
(* for ever, and whatever other lines are raised.                          *)
(***************************************************************************)
TicksServed == []<>iflag => (0 \in irr ~> 0 \notin irr)
=============================================================================
