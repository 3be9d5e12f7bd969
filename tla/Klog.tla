-------------------------------- MODULE Klog --------------------------------
(***************************************************************************)
(* The kernel log of newland/src/log.c: a buffer that every message is     *)
(* written into, at a position that returns to the start when the rest of  *)
(* the buffer is too short.  print is used by threads, which are preempted *)
(* in it, and by handlers, which run with interrupts off.                  *)
(*                                                                         *)
(* The text is left out: a message is its length.                          *)
(***************************************************************************)
EXTENDS Integers

CONSTANTS Thread,
          NEWLAND_KLOG_SIZE,   \* 1000
          Lens,                \* lengths of the messages printed, below 512
          SizeT,               \* a size_t is a number below it: 2^32
          MaxPos               \* bound on the position, past the end of the buffer

TIME_STRLEN == 12
Stamp == TIME_STRLEN + 3

ASSUME KlogAssumption ==
    /\ NEWLAND_KLOG_SIZE \in Nat /\ Lens \subseteq Nat
    /\ \A len \in Lens : len + Stamp <= NEWLAND_KLOG_SIZE
    /\ SizeT \in Nat /\ MaxPos \in Nat /\ MaxPos < SizeT /\ NEWLAND_KLOG_SIZE < MaxPos

VARIABLES klog_pos,
          print,     \* the call of print each thread is in
          reach,     \* the highest place of the buffer that was written
          torn       \* a message was printed while another was being printed

klog_vars == <<klog_pos, print, reach, torn>>

Silent == [st |-> "no", len |-> 0, free |-> 0, start |-> 0]
InPrint == {t \in Thread : print[t].st # "no"}

\* len += TIME_STRLEN + 3
Needed(len) == len + Stamp

\* freesize is unsigned: past the end it is larger than any message.
freesize == (NEWLAND_KLOG_SIZE - klog_pos) % SizeT

\* Mutant: the room is compared with the text alone.
Wraps_text(free, len) == free < len - Stamp

Wraps(free, len) == free < len

\* The terminator goes to buff[len] after buff has been moved past the stamp.
Written(start, len) == IF reach < start + len + Stamp THEN start + len + Stamp ELSE reach
-----------------------------------------------------------------------------
\* A message printed with interrupts off.
print_now(len) ==
    LET start == IF Wraps(freesize, Needed(len)) THEN 0 ELSE klog_pos
    IN  /\ klog_pos' = start + Needed(len)
        /\ klog_pos' <= MaxPos
        /\ reach' = Written(start, Needed(len))
        /\ torn' = (torn \/ InPrint # {})
        /\ UNCHANGED print

\* A thread prints: it looks at the room, ...
print_measure(t, len) ==
    /\ print[t].st = "no"
    /\ print' = [print EXCEPT ![t] = [st |-> "measured", len |-> Needed(len), free |-> freesize, start |-> 0]]
    /\ torn' = (torn \/ InPrint # {})
    /\ UNCHANGED <<klog_pos, reach>>

\* ... takes its place in the buffer, ...
print_place(t) ==
    /\ print[t].st = "measured"
    /\ klog_pos' = IF Wraps(print[t].free, print[t].len) THEN 0 ELSE klog_pos
    /\ print' = [print EXCEPT ![t].st = "placed", ![t].free = 0, ![t].start = klog_pos']
    /\ UNCHANGED <<reach, torn>>

\* ... writes the message there, ...
print_write(t) ==
    /\ print[t].st = "placed"
    /\ reach' = Written(print[t].start, print[t].len)
    /\ print' = [print EXCEPT ![t].st = "written"]
    /\ UNCHANGED <<klog_pos, torn>>

\* ... sends the buffer from the position on to the console, and moves it.
print_send(t) ==
    /\ print[t].st = "written" /\ klog_pos + print[t].len <= MaxPos
    /\ klog_pos' = klog_pos + print[t].len
    /\ print' = [print EXCEPT ![t] = Silent]
    /\ UNCHANGED <<reach, torn>>

PrintSteps(t) ==
    (\E len \in Lens : print_measure(t, len)) \/ print_place(t) \/ print_write(t) \/ print_send(t)

KlogInit == klog_pos = 0 /\ print = [t \in Thread |-> Silent] /\ reach = 0 /\ torn = FALSE
-----------------------------------------------------------------------------
(***************************************************************************)
(* As long as no message is printed during another, the position stays in  *)
(* the buffer, nothing is written more than a time stamp past its end, and *)
(* the console is sent the message that was printed.  (A tick during a     *)
(* message prints one, after which the position may pass the end and never *)
(* come back.)                                                             *)
(***************************************************************************)
LogWithin ==
    ~torn =>
        /\ klog_pos <= NEWLAND_KLOG_SIZE
        /\ reach <= NEWLAND_KLOG_SIZE + Stamp
        /\ \A t \in InPrint : print[t].st = "written" => print[t].start = klog_pos
=============================================================================
