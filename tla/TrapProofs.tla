----------------------------- MODULE TrapProofs -----------------------------
(***************************************************************************)
(* Proofs about interrupts, exceptions, the kernel log and the time, for   *)
(* any threads, any lines of the two controllers, any messages that fit    *)
(* into the log, and any dates a clock shows one after another.            *)
(*                                                                         *)
(* That nothing is in service when a handler runs is not inductive: what   *)
(* an end of interrupt acknowledges depends on what is in service then     *)
(* (Service), which depends on the flag being set only where no frame is   *)
(* left on the stack (Nesting).                                            *)
(***************************************************************************)
EXTENDS Trap, SlistProofs

Frame == [kind : {"irq", "exc"}, no : 1..47, at : {"eoi", "call", "ret"}, iflag : BOOLEAN]

\* The stacks hold frames of the lines there are and of exceptions, which are not
\* acknowledged.
Stacks ==
    /\ frames \in [Thread -> Seq(Frame)]
    /\ \A t \in Thread : \A i \in 1..Len(frames[t]) :
          /\ frames[t][i].kind = "irq" => frames[t][i].no - 32 \in IRQ
          /\ frames[t][i].kind = "exc" => frames[t][i].at # "eoi" /\ frames[t][i].no = 1

\* The flag is set on an empty stack only; a second frame is a fault in a handler
\* that is being called, with the flag clear, and there is no third.  Only a
\* thread that runs has an interrupt to acknowledge.
Nesting ==
    /\ iflag => frames[curr] = <<>>
    /\ \A t \in Thread :
          /\ Len(frames[t]) <= 2
          /\ Len(frames[t]) = 2 =>
                /\ frames[t][1].kind = "irq" /\ frames[t][1].at = "call"
                /\ frames[t][2].kind = "exc" /\ ~frames[t][2].iflag
          /\ t # curr => \A i \in 1..Len(frames[t]) : frames[t][i].at # "eoi"

\* What is in service is the interrupt on top of the stack, until it is
\* acknowledged.
Service ==
    IF Top.at = "eoi"
    THEN /\ isr = {Line(Top.no - 32)}
         /\ isr2 = IF Top.no - 32 >= 8 THEN {Top.no - 32} ELSE {}
    ELSE isr = {} /\ isr2 = {}

\* The thread that is not run was left by the tick.
Left ==
    \A t \in Thread \ {curr} : frames[t] # <<>> =>
        /\ frames[t][Len(frames[t])].no = 32
        /\ frames[t][Len(frames[t])].at = "ret"

\* A call of print, and where it stands as long as it is the only one.
Call == [st : {"no", "measured", "placed", "written"}, len : Nat, free : Nat, start : Nat]
Alone ==
    /\ \A t, u \in InPrint : t = u
    /\ klog_pos <= NEWLAND_KLOG_SIZE /\ reach <= NEWLAND_KLOG_SIZE + Stamp
    /\ \A t \in InPrint :
          /\ print[t].len <= NEWLAND_KLOG_SIZE
          /\ print[t].st = "measured" => print[t].free = NEWLAND_KLOG_SIZE - klog_pos
          /\ print[t].st \in {"placed", "written"} =>
                print[t].start = klog_pos /\ klog_pos + print[t].len <= NEWLAND_KLOG_SIZE

Log ==
    /\ print \in [Thread -> Call] /\ klog_pos \in 0..MaxPos /\ reach \in Nat /\ torn \in BOOLEAN
    /\ ~torn => Alone

Dates == era \in Eras /\ now \in 1..Len(era)

Core == /\ curr \in Thread /\ iflag \in BOOLEAN /\ irr \subseteq IRQ
        /\ Stacks /\ Nesting /\ Service /\ Left
IInv == Core /\ Log /\ Dates
-----------------------------------------------------------------------------
(* The stack of a thread *)

\* What the top of a stack looks like.
LEMMA TopCases ==
    ASSUME Core
    PROVE  /\ Len(frames[curr]) \in Nat
           /\ Len(frames[curr]) \in {0, 1, 2}
           /\ frames[curr] \in Seq(Frame)
           /\ Len(frames[curr]) = 0 <=> frames[curr] = <<>>
           /\ Len(frames[curr]) = 0 => Top = NoFrame
           /\ Len(frames[curr]) # 0 => Top = frames[curr][Len(frames[curr])] /\ Top \in Frame
           /\ Len(frames[curr]) = 2 => Top.kind = "exc"
           /\ Top.kind = "irq" => Top.no - 32 \in IRQ
           /\ Top.kind = "thread" <=> frames[curr] = <<>>
           /\ Top.at = "eoi" => Top.kind = "irq"
  <1>1. frames[curr] \in Seq(Frame)
    BY DEF Core, Stacks
  <1>2. Len(frames[curr]) \in Nat /\ (Len(frames[curr]) = 0 <=> frames[curr] = <<>>)
    BY <1>1
  <1>3. Len(frames[curr]) \in {0, 1, 2}
    <2>1. Len(frames[curr]) <= 2
      BY DEF Core, Nesting
    <2>2. \A n \in Nat : n <= 2 => n = 0 \/ n = 1 \/ n = 2
      OBVIOUS
    <2> QED BY <2>1, <2>2, <1>2
  <1>4. Len(frames[curr]) = 0 => Top = NoFrame
    BY <1>2 DEF Top
  <1>5. Len(frames[curr]) # 0 => Top = frames[curr][Len(frames[curr])] /\ Top \in Frame
    BY <1>1, <1>2 DEF Top
  <1>6. Len(frames[curr]) = 2 => Top.kind = "exc"
    BY <1>5 DEF Core, Nesting
  <1>7. \A f \in Frame : f.kind \in {"irq", "exc"}
    BY DEF Frame
  <1>8. NoFrame.kind = "thread" /\ NoFrame.at = "run"
    BY DEF NoFrame
  <1>9. Top.kind = "irq" => Top.no - 32 \in IRQ
    BY <1>2, <1>4, <1>5, <1>8 DEF Core, Stacks
  <1>10. Top.kind = "thread" <=> frames[curr] = <<>>
    BY <1>2, <1>4, <1>5, <1>7, <1>8
  <1>11. Top.at = "eoi" => Top.kind = "irq"
    <2>1. CASE Len(frames[curr]) = 0
      BY <2>1, <1>4, <1>8
    <2>2. CASE Len(frames[curr]) # 0
      BY <2>2, <1>2, <1>5, <1>7 DEF Core, Stacks
    <2> QED BY <2>1, <2>2
  <1> QED BY <1>1, <1>2, <1>3, <1>4, <1>5, <1>6, <1>9, <1>10, <1>11

\* The frame on top moves on; everything else on the stacks stays.
LEMMA MoveToLeaves ==
    ASSUME Core, frames[curr] # <<>>, NEW at \in {"eoi", "call", "ret"}, MoveTo(at)
    PROVE  /\ frames' \in [Thread -> Seq(Frame)]
           /\ \A t \in Thread \ {curr} : frames'[t] = frames[t]
           /\ Len(frames'[curr]) = Len(frames[curr])
           /\ \A i \in 1..(Len(frames[curr]) - 1) : frames'[curr][i] = frames[curr][i]
           /\ LET f == frames'[curr][Len(frames[curr])]
              IN  f.kind = Top.kind /\ f.no = Top.no /\ f.at = at /\ f.iflag = Top.iflag
  <1> DEFINE s == frames[curr]
             g == [Top EXCEPT !.at = at]
             r == [s EXCEPT ![Len(s)] = g]
  <1>1. s \in Seq(Frame) /\ Len(s) \in Nat \ {0} /\ Top = s[Len(s)] /\ Top \in Frame
    BY TopCases
  <1>2. g \in Frame /\ g.kind = Top.kind /\ g.no = Top.no /\ g.at = at /\ g.iflag = Top.iflag
    BY <1>1 DEF Frame
  <1>3. r \in Seq(Frame) /\ Len(r) = Len(s) /\ r[Len(s)] = g
        /\ \A i \in 1..(Len(s) - 1) : r[i] = s[i]
    BY <1>1, <1>2
  <1>4. frames \in [Thread -> Seq(Frame)] /\ curr \in Thread
    BY DEF Core, Stacks
  <1>5. frames' = [frames EXCEPT ![curr] = r]
    BY <1>1, <1>4 DEF MoveTo
  <1>6. frames'[curr] = r /\ \A t \in Thread \ {curr} : frames'[t] = frames[t]
    BY <1>4, <1>5
  <1>7. frames' \in [Thread -> Seq(Frame)]
    BY <1>3, <1>4, <1>5
  <1> HIDE DEF r, g
  <1> QED BY <1>2, <1>3, <1>6, <1>7

\* A frame is put on the stack of the thread that runs.
LEMMA PushLeaves ==
    ASSUME Core, NEW no \in 1..47, NEW kind \in {"irq", "exc"},
           NEW at \in {"eoi", "call", "ret"}, Push(no, kind, at)
    PROVE  /\ frames' \in [Thread -> Seq(Frame)]
           /\ \A t \in Thread \ {curr} : frames'[t] = frames[t]
           /\ Len(frames'[curr]) = Len(frames[curr]) + 1
           /\ \A i \in 1..Len(frames[curr]) : frames'[curr][i] = frames[curr][i]
           /\ LET f == frames'[curr][Len(frames[curr]) + 1]
              IN  f.kind = kind /\ f.no = no /\ f.at = at /\ f.iflag = iflag
  <1> DEFINE s == frames[curr]
             g == [kind |-> kind, no |-> no, at |-> at, iflag |-> iflag]
             r == Append(s, g)
  <1>1. s \in Seq(Frame) /\ Len(s) \in Nat
    BY TopCases
  <1>2. g \in Frame /\ g.kind = kind /\ g.no = no /\ g.at = at /\ g.iflag = iflag
    BY DEF Frame, Core
  <1>3. r \in Seq(Frame) /\ Len(r) = Len(s) + 1 /\ r[Len(s) + 1] = g
        /\ \A i \in 1..Len(s) : r[i] = s[i]
    <2> HIDE DEF g
    <2> QED BY <1>1, <1>2
  <1>4. frames \in [Thread -> Seq(Frame)] /\ curr \in Thread
    BY DEF Core, Stacks
  <1>5. frames' = [frames EXCEPT ![curr] = r]
    BY <1>4 DEF Push
  <1> HIDE DEF r, g
  <1>6. frames'[curr] = r /\ \A t \in Thread \ {curr} : frames'[t] = frames[t]
    BY <1>4, <1>5
  <1>7. frames' \in [Thread -> Seq(Frame)]
    BY <1>3, <1>4, <1>5
  <1> QED BY <1>2, <1>3, <1>6, <1>7

\* The frame on top is taken from the stack.
LEMMA PopLeaves ==
    ASSUME Core, frames[curr] # <<>>,
           frames' = [frames EXCEPT ![curr] = SubSeq(@, 1, Len(@) - 1)]
    PROVE  /\ frames' \in [Thread -> Seq(Frame)]
           /\ \A t \in Thread \ {curr} : frames'[t] = frames[t]
           /\ Len(frames'[curr]) = Len(frames[curr]) - 1
           /\ \A i \in 1..(Len(frames[curr]) - 1) : frames'[curr][i] = frames[curr][i]
  <1> DEFINE s == frames[curr]
             r == SubSeq(s, 1, Len(s) - 1)
  <1>1. s \in Seq(Frame) /\ Len(s) \in Nat \ {0}
    BY TopCases
  <1>2. r \in Seq(Frame) /\ Len(r) = Len(s) - 1 /\ \A i \in 1..(Len(s) - 1) : r[i] = s[i]
    BY <1>1
  <1>3. frames \in [Thread -> Seq(Frame)] /\ curr \in Thread
    BY DEF Core, Stacks
  <1>4. frames' = [frames EXCEPT ![curr] = r]
    BY <1>3
  <1> HIDE DEF r
  <1>5. frames'[curr] = r /\ \A t \in Thread \ {curr} : frames'[t] = frames[t]
    BY <1>3, <1>4
  <1>6. frames' \in [Thread -> Seq(Frame)]
    BY <1>2, <1>3, <1>4
  <1> QED BY <1>2, <1>5, <1>6
-----------------------------------------------------------------------------
(* The controllers *)

\* An end of interrupt acknowledges the one line in service.
LEMMA EoiOfOne ==
    /\ outb_eoi({}) = {}
    /\ \A n \in Nat : outb_eoi({n}) = {}
  <1>1. \A n \in Nat : Min({n}) = n
    BY DEF Min
  <1> QED BY <1>1 DEF outb_eoi
-----------------------------------------------------------------------------
(* The steps of the processor and the controllers *)

\* The top of the stack after a step.
LEMMA TopAfter ==
    ASSUME frames' \in [Thread -> Seq(Frame)], curr' \in Thread
    PROVE  /\ Len(frames'[curr']) = 0 => Top' = NoFrame
           /\ Len(frames'[curr']) # 0 => Top' = frames'[curr'][Len(frames'[curr'])]
  <1>1. frames'[curr'] \in Seq(Frame)
    OBVIOUS
  <1>2. Len(frames'[curr']) = 0 <=> frames'[curr'] = <<>>
    BY <1>1
  <1> QED BY <1>2 DEF Top

\* The delivery of an interrupt to the running thread.
LEMMA CoreDeliver ==
    ASSUME Core, NEW n \in IRQ, deliver(n)
    PROVE  Core'
  <1>1. n \in 0..15 /\ n # 2
    BY IRQAssumption
  <1>2. /\ Len(frames[curr]) = 0 /\ isr = {} /\ isr2 = {}
        /\ curr' = curr /\ iflag' = FALSE /\ irr' \subseteq IRQ /\ curr \in Thread
    <2>1. frames[curr] = <<>>
      BY DEF deliver, Core, Nesting
    <2>2. Top = NoFrame /\ Len(frames[curr]) = 0
      BY <2>1, TopCases
    <2>3. NoFrame.at # "eoi"
      BY DEF NoFrame
    <2> QED BY <2>2, <2>3 DEF deliver, Core, Service
  <1>3. Push(n + 32, "irq", "eoi") /\ n + 32 \in 1..47
    BY <1>1 DEF deliver, int_no
  <1>4. /\ frames' \in [Thread -> Seq(Frame)]
        /\ \A t \in Thread \ {curr} : frames'[t] = frames[t]
        /\ Len(frames'[curr]) = 1
        /\ frames'[curr][1].kind = "irq" /\ frames'[curr][1].no = n + 32
        /\ frames'[curr][1].at = "eoi"
    <2> DEFINE f == frames'[curr][Len(frames[curr]) + 1]
    <2>1. /\ Len(frames'[curr]) = Len(frames[curr]) + 1
          /\ frames' \in [Thread -> Seq(Frame)]
          /\ \A t \in Thread \ {curr} : frames'[t] = frames[t]
          /\ f.kind = "irq" /\ f.no = n + 32 /\ f.at = "eoi"
      BY <1>3, PushLeaves
    <2>2. Len(frames[curr]) + 1 = 1
      BY <1>2
    <2>3. f = frames'[curr][1]
      BY <2>2
    <2> HIDE DEF f
    <2> QED BY <2>1, <2>2, <2>3
  <1>5. Top' = frames'[curr][1]
    BY <1>2, <1>4, TopAfter
  <1>6. Stacks'
    <2>1. \A i \in 1..Len(frames'[curr]) : i = 1
      BY <1>4
    <2>2. frames'[curr][1].no - 32 = n
      BY <1>1, <1>4
    <2> SUFFICES ASSUME NEW t \in Thread, NEW i \in 1..Len(frames'[t])
                 PROVE  /\ frames'[t][i].kind = "irq" => frames'[t][i].no - 32 \in IRQ
                        /\ frames'[t][i].kind = "exc" =>
                              frames'[t][i].at # "eoi" /\ frames'[t][i].no = 1
      BY <1>4 DEF Stacks
    <2>3. CASE t = curr
      BY <2>1, <2>2, <2>3, <1>4
    <2>4. CASE t # curr
      BY <2>4, <1>4 DEF Core, Stacks
    <2> QED BY <2>3, <2>4
  <1>7. Nesting'
    <2>1. Len(frames'[curr]) <= 2 /\ Len(frames'[curr]) # 2
      BY <1>4
    <2> SUFFICES ASSUME NEW t \in Thread
                 PROVE  /\ Len(frames'[t]) <= 2
                        /\ Len(frames'[t]) = 2 =>
                              /\ frames'[t][1].kind = "irq" /\ frames'[t][1].at = "call"
                              /\ frames'[t][2].kind = "exc" /\ ~frames'[t][2].iflag
                        /\ t # curr => \A i \in 1..Len(frames'[t]) : frames'[t][i].at # "eoi"
      BY <1>2 DEF Nesting
    <2>2. CASE t = curr
      BY <2>1, <2>2
    <2>3. CASE t # curr
      BY <2>3, <1>4 DEF Core, Nesting
    <2> QED BY <2>2, <2>3
  <1>8. Service'
    <2>1. isr' = {Line(n)} /\ isr2' = IF n >= 8 THEN {n} ELSE {}
      BY <1>2 DEF deliver
    <2>2. Top'.at = "eoi" /\ Top'.no - 32 = n
      BY <1>1, <1>4, <1>5
    <2> QED BY <2>1, <2>2 DEF Service
  <1>9. Left'
    BY <1>2, <1>4 DEF Core, Left
  <1> QED BY <1>2, <1>6, <1>7, <1>8, <1>9 DEF Core

\* After the top has moved from the acknowledgement or the call, with nothing left
\* in service.
LEMMA CoreMoves ==
    ASSUME Core, Top.kind \in {"irq", "exc"}, NEW at \in {"call", "ret"}, MoveTo(at),
           Len(frames[curr]) = 2 => Top.kind = "exc",
           curr' \in Thread, iflag' = iflag, irr' = irr, isr' = {}, isr2' = {},
           curr' = curr \/ (at = "ret" /\ Top.kind = "irq" /\ Top.no = 32)
    PROVE  Core'
  <1>1. /\ Len(frames[curr]) \in {1, 2} /\ frames[curr] # <<>> /\ curr \in Thread
        /\ Top = frames[curr][Len(frames[curr])] /\ Top \in Frame
    <2>1. Top.kind # "thread"
      OBVIOUS
    <2> QED BY <2>1, TopCases DEF Core
  <1> DEFINE l == Len(frames[curr])
  <1>2. /\ frames' \in [Thread -> Seq(Frame)]
        /\ \A t \in Thread \ {curr} : frames'[t] = frames[t]
        /\ Len(frames'[curr]) = l
        /\ \A i \in 1..(l - 1) : frames'[curr][i] = frames[curr][i]
        /\ frames'[curr][l].kind = Top.kind /\ frames'[curr][l].no = Top.no
        /\ frames'[curr][l].at = at /\ frames'[curr][l].iflag = Top.iflag
    BY <1>1, MoveToLeaves
  <1>3. Stacks'
    <2> SUFFICES ASSUME NEW t \in Thread, NEW i \in 1..Len(frames'[t])
                 PROVE  /\ frames'[t][i].kind = "irq" => frames'[t][i].no - 32 \in IRQ
                        /\ frames'[t][i].kind = "exc" =>
                              frames'[t][i].at # "eoi" /\ frames'[t][i].no = 1
      BY <1>2 DEF Stacks
    <2>1. CASE t # curr
      BY <2>1, <1>2 DEF Core, Stacks
    <2>2. CASE t = curr /\ i # l
      <3>1. i \in 1..l /\ i \in 1..(l - 1)
        BY <2>2, <1>1, <1>2
      <3> QED BY <3>1, <2>2, <1>2 DEF Core, Stacks
    <2>3. CASE t = curr /\ i = l
      <3>1. l \in 1..Len(frames[curr])
        BY <1>1
      <3> QED BY <3>1, <2>3, <1>1, <1>2 DEF Core, Stacks
    <2> QED BY <2>1, <2>2, <2>3
  <1>4. frames'[curr] # <<>> /\ \A i \in 1..l : frames'[curr][i].at # "eoi"
    <2>1. \A i \in 1..(l - 1) : frames[curr][i].at # "eoi"
      BY <1>1 DEF Core, Nesting
    <2> QED BY <2>1, <1>1, <1>2
  <1>5. \A t \in Thread : \A i \in 1..Len(frames'[t]) : frames'[t][i].at # "eoi"
    BY <1>2, <1>4 DEF Core, Nesting
  <1>6. ~iflag
    BY <1>1 DEF Core, Nesting
  <1>7. Nesting'
    <2>1. l = 2 => Top.kind = "exc" /\ ~Top.iflag /\ frames[curr][1].kind = "irq"
                   /\ frames[curr][1].at = "call"
      BY <1>1 DEF Core, Nesting
    <2>2. l = 2 => frames'[curr][1] = frames[curr][1]
      BY <1>1, <1>2
    <2>3. \A t \in Thread \ {curr} :
            /\ Len(frames'[t]) <= 2
            /\ Len(frames'[t]) = 2 =>
                  /\ frames'[t][1].kind = "irq" /\ frames'[t][1].at = "call"
                  /\ frames'[t][2].kind = "exc" /\ ~frames'[t][2].iflag
      BY <1>2 DEF Core, Nesting
    <2>4. /\ Len(frames'[curr]) <= 2
          /\ Len(frames'[curr]) = 2 =>
                  /\ frames'[curr][1].kind = "irq" /\ frames'[curr][1].at = "call"
                  /\ frames'[curr][2].kind = "exc" /\ ~frames'[curr][2].iflag
      BY <1>1, <1>2, <2>1, <2>2
    <2> QED BY <1>5, <1>6, <2>3, <2>4 DEF Nesting
  <1>8. Service'
    <2>1. Top'.at # "eoi"
      <3>1. CASE Len(frames'[curr']) = 0
        BY <3>1, <1>2, TopAfter DEF NoFrame
      <3>2. CASE Len(frames'[curr']) # 0
        <4>1. frames'[curr'] \in Seq(Frame)
          BY <1>2
        <4>2. Len(frames'[curr']) \in 1..Len(frames'[curr'])
          BY <3>2, <4>1
        <4> QED BY <3>2, <4>2, <1>2, <1>5, TopAfter
      <3> QED BY <3>1, <3>2
    <2> QED BY <2>1 DEF Service
  <1>9. Left'
    <2> SUFFICES ASSUME NEW t \in Thread \ {curr'}, frames'[t] # <<>>
                 PROVE  /\ frames'[t][Len(frames'[t])].no = 32
                        /\ frames'[t][Len(frames'[t])].at = "ret"
      BY DEF Left
    <2>1. CASE t = curr
      BY <2>1, <1>2
    <2>2. CASE t # curr
      BY <2>2, <1>2 DEF Core, Left
    <2> QED BY <2>1, <2>2
  <1> QED BY <1>3, <1>7, <1>8, <1>9 DEF Core

\* The steps of a handler before its frame is left.
LEMMA CoreHandling ==
    ASSUME Core, irq_handler \/ irq_handler_none \/ schedule \/ isr_handler
    PROVE  Core'
  <1>1. CASE irq_handler
    <2>1. Top.kind = "irq" /\ Top.at = "eoi" /\ MoveTo("call") /\ Top.no - 32 \in 0..15
      BY <1>1, TopCases, IRQAssumption DEF irq_handler
    <2>2. Len(frames[curr]) # 0 /\ Top \in Frame /\ (Len(frames[curr]) = 2 => Top.kind = "exc")
      BY <2>1, TopCases DEF NoFrame
    <2>3. Top.no \in 1..47
      BY <2>2 DEF Frame
    <2>4. isr = {Line(Top.no - 32)} /\ Line(Top.no - 32) \in Nat
          /\ isr2 = IF Top.no - 32 >= 8 THEN {Top.no - 32} ELSE {}
      BY <2>1 DEF Core, Service, Line
    <2>5. isr' = {}
      BY <1>1, <2>4, EoiOfOne DEF irq_handler
    <2>6. isr2' = {}
      <3>1. CASE Top.no >= 40
        <4>1. Top.no - 32 >= 8 /\ Top.no - 32 \in Nat
          BY <3>1, <2>3
        <4> QED BY <4>1, <3>1, <1>1, <2>4, EoiOfOne DEF irq_handler
      <3>2. CASE ~(Top.no >= 40)
        <4>1. ~(Top.no - 32 >= 8)
          BY <3>2, <2>3
        <4> QED BY <4>1, <3>2, <1>1, <2>4 DEF irq_handler
      <3> QED BY <3>1, <3>2
    <2>7. curr' = curr /\ curr \in Thread /\ iflag' = iflag /\ irr' = irr
      BY <1>1 DEF irq_handler, Core
    <2> QED BY <2>1, <2>2, <2>5, <2>6, <2>7, CoreMoves
  <1>2. CASE irq_handler_none
    <2>1. Top.kind = "irq" /\ Top.at = "call" /\ MoveTo("ret") /\ curr \in Thread
          /\ curr' = curr /\ iflag' = iflag /\ irr' = irr /\ isr' = isr /\ isr2' = isr2
      BY <1>2 DEF irq_handler_none, pic, Core
    <2>2. isr = {} /\ isr2 = {}
      BY <2>1 DEF Core, Service
    <2>3. Len(frames[curr]) = 2 => Top.kind = "exc"
      BY TopCases
    <2> QED BY <2>1, <2>2, <2>3, CoreMoves
  <1>3. CASE schedule
    <2>1. /\ Top.kind = "irq" /\ Top.at = "call" /\ MoveTo("ret") /\ Top.no - 32 \in {0}
          /\ iflag' = iflag /\ irr' = irr /\ isr' = isr /\ isr2' = isr2 /\ curr' \in Thread
      BY <1>3 DEF schedule, pic, irq_handlers, Core
    <2>2. isr = {} /\ isr2 = {}
      BY <2>1 DEF Core, Service
    <2>3. Len(frames[curr]) = 2 => Top.kind = "exc"
      BY TopCases
    <2>4. Top.no = 32
      <3>1. Top \in Frame
        BY <2>1, TopCases DEF NoFrame
      <3>2. Top.no \in 1..47
        BY <3>1 DEF Frame
      <3> QED BY <3>2, <2>1
    <2> QED BY <2>1, <2>2, <2>3, <2>4, CoreMoves
  <1>4. CASE isr_handler
    <2>1. Top.kind = "exc" /\ Top.at = "call" /\ MoveTo("ret") /\ curr \in Thread
          /\ curr' = curr /\ iflag' = iflag /\ irr' = irr /\ isr' = outb_eoi(isr) /\ isr2' = isr2
      BY <1>4 DEF isr_handler, Core
    <2>2. isr = {} /\ isr2 = {}
      BY <2>1 DEF Core, Service
    <2>3. isr' = {}
      BY <2>1, <2>2, EoiOfOne
    <2> QED BY <2>1, <2>2, <2>3, CoreMoves
  <1> QED BY <1>1, <1>2, <1>3, <1>4

\* The end of a handler.
LEMMA CoreIret ==
    ASSUME Core, iret
    PROVE  Core'
  <1> DEFINE l == Len(frames[curr])
  <1>1. /\ Top.at = "ret" /\ iflag' = Top.iflag /\ curr' = curr /\ curr \in Thread
        /\ irr' = irr /\ isr' = isr /\ isr2' = isr2 /\ isr = {} /\ isr2 = {}
    BY DEF iret, pic, Core, Service
  <1>2. l \in {1, 2} /\ frames[curr] # <<>> /\ Top = frames[curr][l] /\ Top \in Frame
    BY <1>1, TopCases DEF NoFrame
  <1>3. /\ frames' \in [Thread -> Seq(Frame)]
        /\ \A t \in Thread \ {curr} : frames'[t] = frames[t]
        /\ Len(frames'[curr]) = l - 1
        /\ \A i \in 1..(l - 1) : frames'[curr][i] = frames[curr][i]
    BY <1>2, PopLeaves DEF iret
  <1>4. Stacks'
    <2> SUFFICES ASSUME NEW t \in Thread, NEW i \in 1..Len(frames'[t])
                 PROVE  /\ frames'[t][i].kind = "irq" => frames'[t][i].no - 32 \in IRQ
                        /\ frames'[t][i].kind = "exc" =>
                              frames'[t][i].at # "eoi" /\ frames'[t][i].no = 1
      BY <1>3 DEF Stacks
    <2>1. CASE t # curr
      BY <2>1, <1>3 DEF Core, Stacks
    <2>2. CASE t = curr
      <3>1. i \in 1..l /\ i \in 1..(l - 1)
        BY <2>2, <1>2, <1>3
      <3> QED BY <3>1, <2>2, <1>3 DEF Core, Stacks
    <2> QED BY <2>1, <2>2
  <1>5. l = 2 => ~Top.iflag /\ frames[curr][1].at = "call"
    BY <1>2 DEF Core, Nesting
  <1>6. l = 1 => frames'[curr] = <<>>
    <2>1. frames'[curr] \in Seq(Frame)
      BY <1>1, <1>3
    <2> QED BY <2>1, <1>3
  <1>7. Nesting'
    <2>1. iflag' => frames'[curr] = <<>>
      BY <1>1, <1>2, <1>5, <1>6
    <2>2. Len(frames'[curr]) <= 2 /\ Len(frames'[curr]) # 2
      <3>1. l = 1 \/ l = 2
        BY <1>2
      <3> HIDE DEF l
      <3> QED BY <3>1, <1>3
    <2> SUFFICES ASSUME NEW t \in Thread
                 PROVE  /\ Len(frames'[t]) <= 2
                        /\ Len(frames'[t]) = 2 =>
                              /\ frames'[t][1].kind = "irq" /\ frames'[t][1].at = "call"
                              /\ frames'[t][2].kind = "exc" /\ ~frames'[t][2].iflag
                        /\ t # curr => \A i \in 1..Len(frames'[t]) : frames'[t][i].at # "eoi"
      BY <2>1, <1>1 DEF Nesting
    <2>3. CASE t = curr
      BY <2>2, <2>3
    <2>4. CASE t # curr
      BY <2>4, <1>3 DEF Core, Nesting
    <2> QED BY <2>3, <2>4
  <1>8. Service'
    <2>1. Top'.at # "eoi"
      <3>1. CASE l = 1
        <4>1. Len(frames'[curr']) = 0
          BY <3>1, <1>1, <1>3
        <4> QED BY <4>1, <1>1, <1>3, TopAfter DEF NoFrame
      <3>2. CASE l = 2
        <4>1. Len(frames'[curr']) = 1 /\ frames'[curr'][1] = frames[curr][1]
          BY <3>2, <1>1, <1>3
        <4>2. Top' = frames'[curr'][1]
          BY <4>1, <1>1, <1>3, TopAfter
        <4> QED BY <4>1, <4>2, <3>2, <1>5
      <3> QED BY <3>1, <3>2, <1>2
    <2> QED BY <2>1, <1>1 DEF Service
  <1>9. Left'
    BY <1>1, <1>3 DEF Core, Left
  <1>10. Top.iflag \in BOOLEAN
    BY <1>2 DEF Frame
  <1> QED BY <1>1, <1>4, <1>7, <1>8, <1>9, <1>10 DEF Core

\* An exception, of a thread or in the middle of a tick.
LEMMA CoreFault ==
    ASSUME Core, fault(14)
    PROVE  Core'
  <1> DEFINE l == Len(frames[curr])
  <1>1. /\ Top.kind = "thread" \/ (Top.kind = "irq" /\ Top.at = "call")
        /\ Push(1, "exc", "call") /\ iflag' = FALSE /\ curr' = curr /\ curr \in Thread
        /\ irr' = irr /\ isr' = isr /\ isr2' = isr2
    BY DEF fault, pic, Core, int_no
  <1>2. l \in {0, 1} /\ (l = 1 => Top.kind = "irq" /\ Top.at = "call" /\ Top = frames[curr][1])
    BY <1>1, TopCases
  <1>3. isr = {} /\ isr2 = {}
    <2>1. Top.at # "eoi"
      BY <1>1, TopCases DEF NoFrame
    <2> QED BY <2>1 DEF Core, Service
  <1>4. /\ frames' \in [Thread -> Seq(Frame)]
        /\ \A t \in Thread \ {curr} : frames'[t] = frames[t]
        /\ Len(frames'[curr]) = l + 1
        /\ \A i \in 1..l : frames'[curr][i] = frames[curr][i]
        /\ frames'[curr][l + 1].kind = "exc" /\ frames'[curr][l + 1].no = 1
        /\ frames'[curr][l + 1].at = "call" /\ frames'[curr][l + 1].iflag = iflag
    <2>1. 1 \in 1..47 /\ "exc" \in {"irq", "exc"} /\ "call" \in {"eoi", "call", "ret"}
      OBVIOUS
    <2> QED BY <1>1, <2>1, PushLeaves, Zenon
  <1>5. Stacks'
    <2> SUFFICES ASSUME NEW t \in Thread, NEW i \in 1..Len(frames'[t])
                 PROVE  /\ frames'[t][i].kind = "irq" => frames'[t][i].no - 32 \in IRQ
                        /\ frames'[t][i].kind = "exc" =>
                              frames'[t][i].at # "eoi" /\ frames'[t][i].no = 1
      BY <1>4 DEF Stacks
    <2>1. CASE t # curr
      BY <2>1, <1>4 DEF Core, Stacks
    <2>2. CASE t = curr /\ i # l + 1
      <3>1. i \in 1..l
        BY <2>2, <1>2, <1>4
      <3> QED BY <3>1, <2>2, <1>4 DEF Core, Stacks
    <2>3. CASE t = curr /\ i = l + 1
      BY <2>3, <1>4
    <2> QED BY <2>1, <2>2, <2>3
  <1>6. l = 1 => ~iflag
    <2>1. l = 1 => frames[curr] # <<>>
      BY TopCases
    <2> QED BY <2>1 DEF Core, Nesting
  <1>7. Nesting'
    <2>1. Len(frames'[curr]) <= 2
      BY <1>2, <1>4
    <2>2. Len(frames'[curr]) = 2 =>
            /\ frames'[curr][1].kind = "irq" /\ frames'[curr][1].at = "call"
            /\ frames'[curr][2].kind = "exc" /\ ~frames'[curr][2].iflag
      <3> SUFFICES ASSUME l = 1
                   PROVE  /\ frames'[curr][1].kind = "irq" /\ frames'[curr][1].at = "call"
                          /\ frames'[curr][2].kind = "exc" /\ ~frames'[curr][2].iflag
        BY <1>2, <1>4
      <3>1. frames'[curr][1] = frames[curr][1]
        BY <1>4
      <3>2. frames'[curr][l + 1] = frames'[curr][2]
        OBVIOUS
      <3> QED BY <3>1, <3>2, <1>2, <1>4, <1>6
    <2> SUFFICES ASSUME NEW t \in Thread
                 PROVE  /\ Len(frames'[t]) <= 2
                        /\ Len(frames'[t]) = 2 =>
                              /\ frames'[t][1].kind = "irq" /\ frames'[t][1].at = "call"
                              /\ frames'[t][2].kind = "exc" /\ ~frames'[t][2].iflag
                        /\ t # curr => \A i \in 1..Len(frames'[t]) : frames'[t][i].at # "eoi"
      BY <1>1 DEF Nesting
    <2>3. CASE t = curr
      BY <2>1, <2>2, <2>3
    <2>4. CASE t # curr
      BY <2>4, <1>4 DEF Core, Nesting
    <2> QED BY <2>3, <2>4
  <1>8. Service'
    <2>1. Top'.at = "call"
      <3>1. Len(frames'[curr']) # 0 /\ Len(frames'[curr']) = l + 1
        BY <1>1, <1>2, <1>4
      <3>2. Top' = frames'[curr'][Len(frames'[curr'])]
        BY <3>1, <1>1, <1>4, TopAfter
      <3> QED BY <3>1, <3>2, <1>1, <1>4
    <2> QED BY <2>1, <1>1, <1>3 DEF Service
  <1>9. Left'
    BY <1>1, <1>4 DEF Core, Left
  <1> QED BY <1>1, <1>5, <1>7, <1>8, <1>9 DEF Core
-----------------------------------------------------------------------------
(* The kernel log *)

\* A number below the modulus is its own remainder.
LEMMA SmallMod ==
    ASSUME NEW a \in Nat, NEW b \in Nat, a < b
    PROVE  a % b = a
  OBVIOUS

\* The room that is left, as long as the position is in the buffer.
LEMMA FreeSize ==
    ASSUME klog_pos \in 0..MaxPos
    PROVE  /\ freesize \in Nat
           /\ klog_pos <= NEWLAND_KLOG_SIZE => freesize = NEWLAND_KLOG_SIZE - klog_pos
  <1>1. SizeT \in Nat \ {0} /\ NEWLAND_KLOG_SIZE \in Nat /\ NEWLAND_KLOG_SIZE < SizeT
    BY KlogAssumption
  <1>2. NEWLAND_KLOG_SIZE - klog_pos \in Int
    BY <1>1, KlogAssumption
  <1>3. \A a \in Int : a % SizeT \in Nat
    BY <1>1
  <1>4. freesize \in Nat
    BY <1>2, <1>3 DEF freesize
  <1>5. ASSUME klog_pos <= NEWLAND_KLOG_SIZE
        PROVE  freesize = NEWLAND_KLOG_SIZE - klog_pos
    <2>1. NEWLAND_KLOG_SIZE - klog_pos \in Nat /\ NEWLAND_KLOG_SIZE - klog_pos < SizeT
      BY <1>1, <1>5, KlogAssumption
    <2> QED BY <1>1, <2>1, SmallMod DEF freesize
  <1> QED BY <1>4, <1>5

\* A message that is printed whole.
LEMMA LogPrintNow ==
    ASSUME Log, NEW len \in HandlerLens, print_now(len)
    PROVE  Log'
  <1> DEFINE n == Needed(len)
             start == IF Wraps(freesize, n) THEN 0 ELSE klog_pos
  <1>1. /\ n \in Nat /\ n <= NEWLAND_KLOG_SIZE /\ NEWLAND_KLOG_SIZE \in Nat /\ MaxPos \in Nat
        /\ Stamp \in Nat
    BY HandlerLensAssumption, KlogAssumption DEF Needed, Stamp, TIME_STRLEN
  <1>2. /\ klog_pos' = start + n /\ klog_pos' <= MaxPos /\ reach' = Written(start, n)
        /\ torn' = (torn \/ InPrint # {}) /\ print' = print
    BY DEF print_now
  <1>3. klog_pos \in Nat /\ klog_pos \in 0..MaxPos /\ reach \in Nat
    BY KlogAssumption DEF Log
  <1>4. start \in Nat /\ freesize \in Nat
    BY <1>3, FreeSize
  <1>5. klog_pos <= NEWLAND_KLOG_SIZE => start + n <= NEWLAND_KLOG_SIZE
    BY <1>1, <1>3, FreeSize DEF Wraps
  <1> HIDE DEF n, start
  <1>6. klog_pos' \in 0..MaxPos /\ reach' \in Nat
    BY <1>1, <1>2, <1>3, <1>4 DEF Written
  <1>7. torn' \in BOOLEAN /\ print' \in [Thread -> Call]
    BY <1>2 DEF Log
  <1>8. ASSUME ~torn' PROVE Alone'
    <2>1. ~torn /\ InPrint = {} /\ Alone
      BY <1>2, <1>8 DEF Log
    <2>2. InPrint' = {}
      BY <1>2, <2>1 DEF InPrint
    <2>3. klog_pos' <= NEWLAND_KLOG_SIZE
      BY <1>2, <1>5, <2>1 DEF Alone
    <2>4. reach' <= NEWLAND_KLOG_SIZE + Stamp
      <3>1. reach <= NEWLAND_KLOG_SIZE + Stamp /\ klog_pos <= NEWLAND_KLOG_SIZE
        BY <2>1 DEF Alone
      <3> QED BY <1>1, <1>2, <1>3, <1>4, <1>5, <3>1 DEF Written
    <2> QED BY <2>2, <2>3, <2>4 DEF Alone
  <1> QED BY <1>6, <1>7, <1>8 DEF Log

\* The steps of a message a thread prints.
LEMMA LogThread ==
    ASSUME Log, NEW t \in Thread, PrintSteps(t)
    PROVE  Log'
  <1> DEFINE size == NEWLAND_KLOG_SIZE
  <1>1. /\ print \in [Thread -> Call] /\ klog_pos \in 0..MaxPos /\ klog_pos \in Nat
        /\ reach \in Nat /\ torn \in BOOLEAN /\ (~torn => Alone)
        /\ size \in Nat /\ MaxPos \in Nat /\ Stamp \in Nat
    BY KlogAssumption DEF Log, Stamp, TIME_STRLEN
  <1>2. /\ print[t] \in Call /\ print[t].len \in Nat /\ print[t].free \in Nat
        /\ print[t].start \in Nat
    BY <1>1 DEF Call
  <1>3. freesize \in Nat /\ (klog_pos <= size => freesize = size - klog_pos)
    BY <1>1, FreeSize
  <1>4. CASE \E len \in Lens : print_measure(t, len)
    <2>1. PICK len \in Lens : print_measure(t, len)
      BY <1>4
    <2> DEFINE new == [st |-> "measured", len |-> Needed(len), free |-> freesize, start |-> 0]
    <2>2. Needed(len) \in Nat /\ Needed(len) <= size
      BY KlogAssumption DEF Needed, Stamp, TIME_STRLEN
    <2>3. print' = [print EXCEPT ![t] = new] /\ torn' = (torn \/ InPrint # {})
          /\ klog_pos' = klog_pos /\ reach' = reach
      BY <2>1 DEF print_measure
    <2>4. new \in Call /\ new.st = "measured" /\ new.len = Needed(len) /\ new.free = freesize
      BY <1>3, <2>2 DEF Call
    <2> HIDE DEF new
    <2>5. print' \in [Thread -> Call] /\ print'[t] = new
          /\ \A u \in Thread \ {t} : print'[u] = print[u]
      BY <1>1, <2>3, <2>4
    <2>6. ASSUME ~torn' PROVE Alone'
      <3>1. ~torn /\ InPrint = {} /\ Alone
        BY <1>1, <2>3, <2>6
      <3>2. InPrint' = {t}
        BY <2>4, <2>5, <3>1 DEF InPrint
      <3>3. klog_pos' <= size /\ reach' <= size + Stamp
        BY <2>3, <3>1 DEF Alone
      <3>4. print'[t].len <= size /\ print'[t].free = size - klog_pos' /\ print'[t].st = "measured"
        BY <1>3, <2>2, <2>3, <2>4, <2>5, <3>3
      <3> QED BY <3>2, <3>3, <3>4 DEF Alone
    <2>7. torn' \in BOOLEAN
      BY <2>3
    <2> QED BY <1>1, <2>3, <2>5, <2>6, <2>7 DEF Log
  <1>5. CASE print_place(t)
    <2> DEFINE pos == IF Wraps(print[t].free, print[t].len) THEN 0 ELSE klog_pos
               new == [print[t] EXCEPT !.st = "placed", !.free = 0, !.start = pos]
    <2>1. print[t].st = "measured" /\ klog_pos' = pos /\ torn' = torn /\ reach' = reach
      BY <1>5 DEF print_place
    <2>2. print' = [print EXCEPT ![t] = new]
      BY <1>1, <1>5 DEF print_place
    <2>3. pos \in Nat /\ pos \in 0..MaxPos
      BY <1>1
    <2>4. new \in Call /\ new.st = "placed" /\ new.len = print[t].len /\ new.start = pos
      BY <1>2, <2>3 DEF Call
    <2>5. ~torn => pos + print[t].len <= size /\ pos <= size
      <3> SUFFICES ASSUME ~torn PROVE pos + print[t].len <= size /\ pos <= size
        OBVIOUS
      <3>1. t \in InPrint
        BY <2>1 DEF InPrint
      <3>2. print[t].len <= size /\ klog_pos <= size /\ print[t].free = size - klog_pos
        BY <1>1, <2>1, <3>1 DEF Alone
      <3>3. CASE print[t].free < print[t].len
        BY <3>2, <3>3, <1>1, <1>2 DEF Wraps
      <3>4. CASE ~(print[t].free < print[t].len)
        BY <3>2, <3>4, <1>1, <1>2 DEF Wraps
      <3> QED BY <3>3, <3>4
    <2> HIDE DEF new, pos
    <2>6. print' \in [Thread -> Call] /\ print'[t] = new
          /\ \A u \in Thread \ {t} : print'[u] = print[u]
      BY <1>1, <2>2, <2>4
    <2>7. ASSUME ~torn PROVE Alone'
      <3>1. t \in InPrint /\ InPrint = {t} /\ reach <= size + Stamp /\ print[t].len <= size
        BY <1>1, <2>1, <2>7 DEF InPrint, Alone
      <3>2. InPrint' = {t}
        BY <2>4, <2>6, <3>1 DEF InPrint
      <3>3. klog_pos' <= size /\ reach' <= size + Stamp /\ print'[t].len <= size
            /\ print'[t].st = "placed" /\ print'[t].start = klog_pos'
            /\ klog_pos' + print'[t].len <= size
        BY <2>1, <2>4, <2>5, <2>6, <2>7, <3>1
      <3> QED BY <3>2, <3>3 DEF Alone
    <2> QED BY <1>1, <2>1, <2>3, <2>6, <2>7 DEF Log
  <1>6. CASE print_write(t)
    <2> DEFINE new == [print[t] EXCEPT !.st = "written"]
    <2>1. /\ print[t].st = "placed" /\ klog_pos' = klog_pos /\ torn' = torn
          /\ reach' = Written(print[t].start, print[t].len)
      BY <1>6 DEF print_write
    <2>2. print' = [print EXCEPT ![t] = new]
      BY <1>1, <1>6 DEF print_write
    <2>3. reach' \in Nat
      BY <1>1, <1>2, <2>1 DEF Written
    <2>4. new \in Call /\ new.st = "written" /\ new.len = print[t].len /\ new.start = print[t].start
      BY <1>2 DEF Call
    <2> HIDE DEF new
    <2>5. print' \in [Thread -> Call] /\ print'[t] = new
          /\ \A u \in Thread \ {t} : print'[u] = print[u]
      BY <1>1, <2>2, <2>4
    <2>6. ASSUME ~torn PROVE Alone'
      <3>1. t \in InPrint /\ InPrint = {t} /\ reach <= size + Stamp /\ print[t].len <= size
            /\ klog_pos <= size /\ print[t].start = klog_pos
            /\ klog_pos + print[t].len <= size
        BY <1>1, <2>1, <2>6 DEF InPrint, Alone
      <3>2. InPrint' = {t}
        BY <2>4, <2>5, <3>1 DEF InPrint
      <3>3. reach' <= size + Stamp
        BY <1>1, <1>2, <2>1, <3>1 DEF Written
      <3>4. /\ klog_pos' <= size /\ print'[t].len <= size
            /\ print'[t].st = "written" /\ print'[t].start = klog_pos'
            /\ klog_pos' + print'[t].len <= size
        BY <2>1, <2>4, <2>5, <3>1
      <3> QED BY <3>2, <3>3, <3>4 DEF Alone
    <2> QED BY <1>1, <2>1, <2>3, <2>5, <2>6 DEF Log
  <1>7. CASE print_send(t)
    <2>1. /\ print[t].st = "written" /\ klog_pos' = klog_pos + print[t].len /\ torn' = torn
          /\ klog_pos + print[t].len <= MaxPos /\ reach' = reach
          /\ print' = [print EXCEPT ![t] = Silent]
      BY <1>7 DEF print_send
    <2>2. klog_pos' \in 0..MaxPos
      BY <1>1, <1>2, <2>1
    <2>3. Silent \in Call /\ Silent.st = "no"
      BY DEF Silent, Call
    <2>4. print' \in [Thread -> Call] /\ print'[t] = Silent
          /\ \A u \in Thread \ {t} : print'[u] = print[u]
      BY <1>1, <2>1, <2>3
    <2>5. ASSUME ~torn PROVE Alone'
      <3>1. t \in InPrint /\ InPrint = {t} /\ reach <= size + Stamp
            /\ klog_pos + print[t].len <= size
        BY <1>1, <2>1, <2>5 DEF InPrint, Alone
      <3>2. InPrint' = {}
        BY <2>3, <2>4, <3>1 DEF InPrint
      <3> QED BY <2>1, <3>1, <3>2 DEF Alone
    <2> QED BY <1>1, <2>1, <2>2, <2>4, <2>5 DEF Log
  <1> QED BY <1>4, <1>5, <1>6, <1>7 DEF PrintSteps
-----------------------------------------------------------------------------
(* The invariant *)

\* The first state satisfies the invariant.
LEMMA InvInit == Init => IInv
  <1> SUFFICES ASSUME Init PROVE IInv
    OBVIOUS
  <1>1. /\ curr \in Thread /\ iflag = FALSE /\ irr = {} /\ isr = {} /\ isr2 = {}
        /\ frames = [t \in Thread |-> <<>>]
    BY DEF Init, TrapInit
  <1>2. \A t \in Thread : frames[t] = <<>> /\ Len(frames[t]) = 0
    BY <1>1
  <1>3. frames \in [Thread -> Seq(Frame)]
    BY <1>1
  <1>4. Stacks /\ Nesting /\ Left
    BY <1>1, <1>2, <1>3 DEF Stacks, Nesting, Left
  <1>5. Service
    BY <1>1, <1>2 DEF Service, Top, NoFrame
  <1>6. Core
    BY <1>1, <1>4, <1>5 DEF Core
  <1>7. klog_pos = 0 /\ print = [t \in Thread |-> Silent] /\ reach = 0 /\ torn = FALSE
    BY DEF Init, KlogInit
  <1>8. Silent \in Call /\ Silent.st = "no"
    BY DEF Silent, Call
  <1>9. print \in [Thread -> Call] /\ InPrint = {}
    BY <1>7, <1>8 DEF InPrint
  <1>10. NEWLAND_KLOG_SIZE \in Nat /\ MaxPos \in Nat /\ Stamp \in Nat
    BY KlogAssumption DEF Stamp, TIME_STRLEN
  <1>11. Alone
    BY <1>7, <1>9, <1>10 DEF Alone
  <1>12. Log
    <2>1. klog_pos \in 0..MaxPos /\ reach \in Nat
      BY <1>7, <1>10
    <2>2. torn \in BOOLEAN
      BY <1>7
    <2> QED BY <2>1, <2>2, <1>9, <1>11 DEF Log
  <1>13. Dates
    <2>1. era \in Eras /\ now = 1
      BY DEF Init, ClockInit
    <2>2. Len(era) \in Nat \ {0}
      BY <2>1, ErasAssumption
    <2> QED BY <2>1, <2>2 DEF Dates
  <1> QED BY <1>6, <1>12, <1>13 DEF IInv

\* Every step keeps the part about handlers and controllers.
LEMMA CoreStep ==
    ASSUME Core, TrapSteps
    PROVE  Core'
  <1>1. CASE \E n \in IRQ : raise(n)
    <2>1. PICK n \in IRQ : raise(n)
      BY <1>1
    <2>2. irr' \subseteq IRQ /\ UNCHANGED <<curr, frames, iflag, isr, isr2>>
      BY <2>1 DEF raise, cpu, Core
    <2> QED BY <2>2 DEF Core, Stacks, Nesting, Service, Left, Top
  <1>2. CASE \E n \in IRQ : deliver(n)
    BY <1>2, CoreDeliver
  <1>3. CASE Handling
    BY <1>3, CoreHandling, CoreIret DEF Handling
  <1>4. CASE fault(14)
    BY <1>4, CoreFault
  <1>5. CASE sti
    <2>1. Top.kind = "thread" /\ iflag' = TRUE /\ UNCHANGED <<curr, frames, irr, isr, isr2>>
      BY <1>5 DEF sti, pic
    <2>2. frames[curr] = <<>>
      BY <2>1, TopCases
    <2> QED BY <2>1, <2>2 DEF Core, Stacks, Nesting, Service, Left, Top
  <1>6. CASE thread_prints
    <2>1. UNCHANGED <<curr, frames, iflag, irr, isr, isr2>>
      BY <1>6 DEF thread_prints, trap_vars, cpu, pic
    <2> QED BY <2>1 DEF Core, Stacks, Nesting, Service, Left, Top
  <1> QED BY <1>1, <1>2, <1>3, <1>4, <1>5, <1>6 DEF TrapSteps

\* Every step keeps the part about the log.
LEMMA LogStep ==
    ASSUME Log, Core, TrapSteps
    PROVE  Log'
  <1>1. CASE UNCHANGED klog_vars
    BY <1>1 DEF klog_vars, Log, Alone, InPrint
  <1>2. CASE \E len \in HandlerLens : print_now(len)
    BY <1>2, LogPrintNow
  <1>3. CASE thread_prints
    BY <1>3, LogThread DEF thread_prints, Core
  <1>4. Handling => UNCHANGED klog_vars \/ \E len \in HandlerLens : print_now(len)
    BY DEF Handling, irq_handler, irq_handler_none, schedule, iret, isr_handler
  <1>5. fault(14) \/ sti => UNCHANGED klog_vars
    BY DEF fault, sti
  <1> QED BY <1>1, <1>2, <1>3, <1>4, <1>5 DEF TrapSteps

\* The invariant is inductive.
LEMMA InvNext == IInv /\ [Next]_vars => IInv'
  <1> SUFFICES ASSUME IInv, [Next]_vars PROVE IInv'
    OBVIOUS
  <1>1. CASE TrapSteps /\ UNCHANGED clock_vars
    <2>1. Dates'
      BY <1>1 DEF IInv, Dates, clock_vars
    <2> QED BY <1>1, <2>1, CoreStep, LogStep DEF IInv
  <1>2. CASE ClockSteps /\ UNCHANGED <<trap_vars, klog_vars>>
    <2>1. Dates'
      <3>1. era \in Eras /\ now \in 1..Len(era) /\ Len(era) \in Nat
        BY ErasAssumption DEF IInv, Dates
      <3>2. era' = era
        BY <1>2 DEF ClockSteps, clock_ticks, time_begin, arch_clock_reg, get_realtime_reg_preempted
      <3>3. now' = now \/ (now < Len(era) /\ now' = now + 1)
        BY <1>2 DEF ClockSteps, clock_ticks, time_begin, arch_clock_reg, get_realtime_reg_preempted
      <3>4. now' \in 1..Len(era)
        BY <3>1, <3>3
      <3> QED BY <3>1, <3>2, <3>4 DEF Dates
    <2>2. Core' /\ Log'
      BY <1>2 DEF IInv, Core, Stacks, Nesting, Service, Left, Top, Log, Alone, InPrint,
                  trap_vars, cpu, pic, klog_vars
    <2> QED BY <2>1, <2>2 DEF IInv
  <1>3. CASE UNCHANGED vars
    BY <1>3 DEF vars, IInv, Core, Stacks, Nesting, Service, Left, Top, Log, Alone, InPrint, Dates,
                trap_vars, cpu, pic, klog_vars, clock_vars
  <1> QED BY <1>1, <1>2, <1>3 DEF Next

\* The invariant holds in every state the machine comes to.
THEOREM Invariant == Spec => []IInv
  BY InvInit, InvNext, PTL DEF Spec

\* Every variable has its type: the stacks of idt.s and irq.s hold frames of
\* known vectors, and the position of the log stays below its bound.
THEOREM TypeCorrect == Spec => []TypeOK
  <1>1. IInv => TypeOK
    <2> SUFFICES ASSUME IInv PROVE TypeOK
      OBVIOUS
    <2>1. isr \subseteq 0..7 /\ isr2 \subseteq 8..15
      <3>1. CASE Top.at = "eoi"
        <4>1. Top.no - 32 \in 0..15
          BY <3>1, TopCases, IRQAssumption DEF IInv
        <4> QED BY <3>1, <4>1 DEF IInv, Core, Service, Line
      <3>2. CASE Top.at # "eoi"
        BY <3>2 DEF IInv, Core, Service
      <3> QED BY <3>1, <3>2
    <2>2. \A t \in Thread : \A i \in 1..Len(frames[t]) :
             frames[t][i].at \in {"eoi", "call", "ret"} /\ frames[t][i].no \in 1..47
      <3>1. \A t \in Thread : frames[t] \in Seq(Frame)
        BY DEF IInv, Core, Stacks
      <3>2. \A t \in Thread : \A i \in 1..Len(frames[t]) : frames[t][i] \in Frame
        BY <3>1
      <3> QED BY <3>2 DEF Frame
    <2> QED BY <2>1, <2>2 DEF TypeOK, IInv, Core, Log, Dates
  <1> QED BY <1>1, Invariant, PTL

\* Whenever a handler or a thread runs no line is in service, and a thread that
\* does not run was left in a tick: irq_handler acknowledges before it calls.
THEOREM NothingInService == Spec => []NoneInService
  <1>1. IInv => NoneInService
    <2> SUFFICES ASSUME IInv PROVE NoneInService
      OBVIOUS
    <2>1. Top.at # "eoi" => isr = {} /\ isr2 = {}
      BY DEF IInv, Core, Service
    <2>2. Left
      BY DEF IInv, Core
    <2> QED BY <2>1, <2>2 DEF NoneInService, Left
  <1> QED BY <1>1, Invariant, PTL

\* The end of interrupt that isr_handler sends after an exception acknowledges
\* nothing, and the one of irq_handler its own interrupt, at both controllers.
THEOREM AcknowledgesOwn == Spec => AcksOwn
  <1> DEFINE A == /\ \A m \in isr \ isr' : Top.kind = "irq" /\ Line(Top.no - 32) = m
                  /\ \A m \in isr2 \ isr2' : Top.kind = "irq" /\ Top.no - 32 = m
  <1>1. IInv /\ [Next]_vars => [A]_vars
    <2> SUFFICES ASSUME IInv, Next PROVE A
      OBVIOUS
    <2>1. CASE Top.at = "eoi"
      <3>1. Top.kind = "irq"
        BY <2>1, TopCases DEF IInv
      <3>2. isr = {Line(Top.no - 32)} /\ isr2 \subseteq {Top.no - 32}
        BY <2>1 DEF IInv, Core, Service
      <3> QED BY <3>1, <3>2
    <2>2. CASE Top.at # "eoi"
      BY <2>2 DEF IInv, Core, Service
    <2> QED BY <2>1, <2>2
  <1> QED BY <1>1, Invariant, PTL DEF Spec, AcksOwn

\* As long as no message is printed during another, the position of the log and
\* what print writes stay within the buffer and the time stamp behind it.
THEOREM LogStaysWithin == Spec => []LogWithin
  <1>1. IInv => LogWithin
    BY DEF IInv, Log, Alone, LogWithin
  <1> QED BY <1>1, Invariant, PTL

-----------------------------------------------------------------------------
(* The conversion of a date to seconds *)

\* The days before each month.
DaysBefore(leap) ==
    LET f == IF leap THEN 1 ELSE 0
    IN  <<0, 31, 59 + f, 90 + f, 120 + f, 151 + f, 181 + f, 212 + f, 243 + f, 273 + f,
          304 + f, 334 + f>>

LEMMA MonthLengths ==
    ASSUME NEW leap \in BOOLEAN
    PROVE  /\ DaysBefore(leap)[1] = 0
           /\ \A m \in 1..11 : DaysBefore(leap)[m + 1] = DaysBefore(leap)[m] + dpm(leap)[m]
           /\ \A m \in 1..12 : DaysBefore(leap)[m] \in Nat /\ dpm(leap)[m] \in 28..31
  <1>1. CASE leap = TRUE
    BY <1>1 DEF DaysBefore, dpm
  <1>2. CASE leap = FALSE
    BY <1>2 DEF DaysBefore, dpm
  <1> QED BY <1>1, <1>2

\* What the second loop of dt2t adds up.
LEMMA MonthTable ==
    ASSUME NEW leap \in BOOLEAN, NEW mon \in 1..12
    PROVE  MonthDays(mon, leap) = DaysBefore(leap)[mon]
  <1> DEFINE G(g) == [m \in 1..mon |-> IF m = 1 THEN 0 ELSE g[m - 1] + dpm(leap)[m - 1]]
             d == CHOOSE g : g = G(g)
  <1>1. MonthDays(mon, leap) = IF mon <= 1 THEN 0 ELSE d[mon]
    BY Zenon DEF MonthDays
  <1>2. \E g : g = G(g)
    <2> DEFINE w == [m \in 1..mon |-> DaysBefore(leap)[m]]
    <2>1. \A m \in 1..mon : w[m] = IF m = 1 THEN 0 ELSE w[m - 1] + dpm(leap)[m - 1]
      <3> TAKE m \in 1..mon
      <3>1. CASE m = 1
        BY <3>1, MonthLengths
      <3>2. CASE m # 1
        <4>1. m - 1 \in 1..11 /\ m - 1 \in 1..mon /\ (m - 1) + 1 = m
          BY <3>2
        <4>2. DaysBefore(leap)[m] = DaysBefore(leap)[m - 1] + dpm(leap)[m - 1]
          BY <4>1, MonthLengths
        <4> QED BY <4>1, <4>2, <3>2
      <3> QED BY <3>1, <3>2
    <2>2. w = G(w)
      BY <2>1
    <2> QED BY <2>2
  <1>3. d = G(d)
    BY <1>2
  <1> HIDE DEF d
  <1>4. \A m \in 1..mon : d[m] = IF m = 1 THEN 0 ELSE d[m - 1] + dpm(leap)[m - 1]
    <2> TAKE m \in 1..mon
    <2>1. G(d)[m] = IF m = 1 THEN 0 ELSE d[m - 1] + dpm(leap)[m - 1]
      OBVIOUS
    <2> QED BY <2>1, <1>3
  <1> DEFINE T == {i \in 0..(mon - 1) : d[i + 1] = DaysBefore(leap)[i + 1]}
  <1>5. 0 \in T
    <2>1. 1 \in 1..mon /\ d[0 + 1] = 0
      BY <1>4
    <2> QED BY <2>1, MonthLengths
  <1>6. ASSUME NEW i \in 0..((mon - 1) - 1), i \in T
        PROVE  i + 1 \in T
    <2>1. (i + 1) + 1 \in 1..mon /\ i + 1 \in 1..11 /\ (i + 1) + 1 # 1 /\ ((i + 1) + 1) - 1 = i + 1
      OBVIOUS
    <2>2. d[(i + 1) + 1] = d[i + 1] + dpm(leap)[i + 1]
      BY <2>1, <1>4
    <2>3. DaysBefore(leap)[(i + 1) + 1] = DaysBefore(leap)[i + 1] + dpm(leap)[i + 1]
      BY <2>1, MonthLengths
    <2> QED BY <2>1, <2>2, <2>3, <1>6
  <1>7. \A i \in 0..(mon - 1) : i \in T
    <2> HIDE DEF T
    <2>1. mon - 1 \in Nat
      OBVIOUS
    <2> QED BY <1>5, <1>6, <2>1, SetInduction
  <1>8. d[mon] = DaysBefore(leap)[mon]
    <2>1. mon - 1 \in T /\ (mon - 1) + 1 = mon
      BY <1>7
    <2> QED BY <2>1
  <1> QED BY <1>1, <1>8, MonthLengths

\* A register of two digits below 80 is read as it is.
LEMMA ReadBelow ==
    \A n \in 0..79 : from_bcd(get_realtime_reg(n), get_realtime_reg(n)) = n
  BY DEF from_bcd, get_realtime_reg

\* The years a character holds are leap years as in the calendar, and before the
\* epoch.
LEMMA LeapBelow ==
    \A y \in 0..79 : /\ IS_LEAP_YEAR(y) = (y % 4 = 0)
                     /\ IS_LEAP_YEAR(y) \in BOOLEAN
                     /\ YearDays(y) = 0
  BY DEF IS_LEAP_YEAR, YearDays, EPOCH_YEAR

\* What the fields of a date are in seconds.
LEMMA Seconds ==
    ASSUME NEW D, D.yr \in 0..79, D.mon \in 1..12, D.day \in Int, D.hr \in Int,
           D.min \in Int, D.sec \in Int
    PROVE  dt2t(D) = (DaysBefore(D.yr % 4 = 0)[D.mon] + D.day - 1) * 86400
                        + D.hr * 3600 + D.min * 60 + D.sec
  <1>1. MonthDays(D.mon, D.yr % 4 = 0) = DaysBefore(D.yr % 4 = 0)[D.mon]
    BY MonthTable
  <1>2. IS_LEAP_YEAR(D.yr) = (D.yr % 4 = 0) /\ YearDays(D.yr) = 0
    BY LeapBelow
  <1>3. DaysBefore(D.yr % 4 = 0)[D.mon] \in Nat
    BY MonthLengths
  <1>4. SECONDS_PER_DAY = 86400 /\ SECONDS_PER_HOURS = 3600 /\ SECONDS_PER_MINUTE = 60
    BY DEF SECONDS_PER_DAY, SECONDS_PER_HOURS, SECONDS_PER_MINUTE
  <1> QED BY <1>1, <1>2, <1>3, <1>4 DEF dt2t

\* The number of the first day of a month in the year, without a table.
LEMMA MonthStart ==
    ASSUME NEW leap \in BOOLEAN, NEW m \in 1..12
    PROVE  (275 * m) \div 9 - 30 - (IF m <= 2 THEN 0 ELSE IF leap THEN 1 ELSE 2)
              = DaysBefore(leap)[m]
  <1> SUFFICES ASSUME NEW f \in {0, 1}, f = IF leap THEN 1 ELSE 0
               PROVE  (275 * m) \div 9 - 30 - (IF m <= 2 THEN 0 ELSE 2 - f)
                        = <<0, 31, 59 + f, 90 + f, 120 + f, 151 + f, 181 + f, 212 + f,
                            243 + f, 273 + f, 304 + f, 334 + f>>[m]
    BY DEF DaysBefore
  <1>1. CASE m \in {1, 2, 3}
    BY <1>1
  <1>2. CASE m \in {4, 5, 6}
    BY <1>2
  <1>3. CASE m \in {7, 8, 9}
    BY <1>3
  <1>4. CASE m \in {10, 11, 12}
    BY <1>4
  <1> QED BY <1>1, <1>2, <1>3, <1>4

\* A later month begins after the end of a month.
LEMMA MonthsGrow ==
    ASSUME NEW leap \in BOOLEAN, NEW a \in 1..12, NEW b \in 1..12, a < b
    PROVE  DaysBefore(leap)[a] + dpm(leap)[a] <= DaysBefore(leap)[b]
  <1> DEFINE B == DaysBefore(leap)
             L == dpm(leap)
             T == {i \in 0..(b - a - 1) : B[a] + L[a] <= B[a + 1 + i]}
  <1>1. /\ \A m \in 1..11 : B[m + 1] = B[m] + L[m]
        /\ \A m \in 1..12 : B[m] \in Nat /\ L[m] \in Nat
    BY MonthLengths
  <1> HIDE DEF B, L
  <1>2. a \in 1..11 /\ b - a - 1 \in Nat
    OBVIOUS
  <1>3. 0 \in T
    <2>1. a + 1 + 0 = a + 1 /\ B[a + 1] = B[a] + L[a]
      BY <1>1, <1>2
    <2>2. B[a] + L[a] \in Nat
      BY <1>1
    <2> QED BY <2>1, <2>2, <1>2
  <1>4. ASSUME NEW i \in 0..((b - a - 1) - 1), i \in T
        PROVE  i + 1 \in T
    <2> DEFINE m == a + 1 + i
    <2>1. m \in 1..11 /\ a + 1 + (i + 1) = m + 1 /\ i + 1 \in 0..(b - a - 1)
      OBVIOUS
    <2>2. B[a] + L[a] <= B[m]
      BY <1>4
    <2> HIDE DEF m
    <2>3. B[m + 1] = B[m] + L[m]
      BY <2>1, <1>1
    <2>4. m \in 1..12
      BY <2>1
    <2>5. B[m] \in Nat /\ L[m] \in Nat
      BY <2>4, <1>1
    <2>6. B[a] \in Nat /\ L[a] \in Nat
      BY <1>1
    <2>7. B[a] + L[a] <= B[m + 1]
      BY <2>2, <2>3, <2>5, <2>6
    <2> QED BY <2>1, <2>7
  <1>5. \A i \in 0..(b - a - 1) : i \in T
    <2> HIDE DEF T
    <2> QED BY <1>2, <1>3, <1>4, SetInduction
  <1>6. b - a - 1 \in T /\ a + 1 + (b - a - 1) = b
    BY <1>2, <1>5
  <1> QED BY <1>6 DEF B, L

\* A later date of the same year is more seconds, whatever its day is.
LEMMA SecondsOrder ==
    ASSUME NEW E, IsDate(E), NEW D, D.yr = E.yr, E.yr < 80,
           D.mon \in 1..12, D.day \in Nat \ {0}, D.hr \in Nat, D.min \in Nat, D.sec \in Nat,
           \/ E.mon < D.mon
           \/ E.mon = D.mon /\ \/ E.day < D.day
                               \/ E.day = D.day /\ E.hr < D.hr
                               \/ E.day = D.day /\ E.hr = D.hr /\ E.min < D.min
                               \/ E.day = D.day /\ E.hr = D.hr /\ E.min = D.min /\ E.sec <= D.sec
    PROVE  dt2t(E) <= dt2t(D)
  <1> DEFINE B == DaysBefore(E.yr % 4 = 0)
             L == dpm(E.yr % 4 = 0)
  <1>1. /\ E.yr \in 0..79 /\ E.mon \in 1..12 /\ E.day \in 1..31 /\ E.hr \in 0..23
        /\ E.min \in 0..59 /\ E.sec \in 0..59 /\ E.day <= L[E.mon]
    BY DEF IsDate
  <1>2. /\ \A m \in 1..11 : B[m + 1] = B[m] + L[m]
        /\ \A m \in 1..12 : B[m] \in Nat /\ L[m] \in 28..31
    BY MonthLengths
  <1>3. E.mon < D.mon => B[E.mon] + L[E.mon] <= B[D.mon]
    BY <1>1, MonthsGrow
  <1>4. dt2t(E) = (B[E.mon] + E.day - 1) * 86400 + E.hr * 3600 + E.min * 60 + E.sec
    BY <1>1, Seconds
  <1>5. dt2t(D) = (B[D.mon] + D.day - 1) * 86400 + D.hr * 3600 + D.min * 60 + D.sec
    BY <1>1, Seconds
  <1>6. B[E.mon] \in Nat /\ B[D.mon] \in Nat /\ L[E.mon] \in Nat
    BY <1>1, <1>2
  <1>7. \/ (B[E.mon] + E.day - 1) < (B[D.mon] + D.day - 1)
        \/ /\ (B[E.mon] + E.day - 1) = (B[D.mon] + D.day - 1)
           /\ \/ E.hr < D.hr
              \/ E.hr = D.hr /\ E.min < D.min
              \/ E.hr = D.hr /\ E.min = D.min /\ E.sec <= D.sec
    <2> HIDE DEF B, L
    <2>1. CASE E.mon < D.mon
      BY <2>1, <1>1, <1>3, <1>6
    <2>2. CASE E.mon = D.mon
      BY <2>2, <1>1, <1>6
    <2> QED BY <2>1, <2>2
  <1>8. B[E.mon] + E.day - 1 \in Int /\ B[D.mon] + D.day - 1 \in Int
    <2> HIDE DEF B
    <2> QED BY <1>1, <1>6
  <1> DEFINE m == B[E.mon] + E.day - 1
             n == B[D.mon] + D.day - 1
             h1 == E.hr
             h2 == D.hr
             min1 == E.min
             min2 == D.min
             s1 == E.sec
             s2 == D.sec
  <1>9. /\ m \in Int /\ h1 \in 0..23 /\ min1 \in 0..59 /\ s1 \in 0..59
        /\ n \in Int /\ h2 \in Nat /\ min2 \in Nat /\ s2 \in Nat
    BY <1>1, <1>8
  <1>10. \/ m < n
         \/ /\ m = n
            /\ \/ h1 < h2
               \/ h1 = h2 /\ min1 < min2
               \/ h1 = h2 /\ min1 = min2 /\ s1 <= s2
    BY <1>7
  <1>11. dt2t(E) = m * 86400 + h1 * 3600 + min1 * 60 + s1
    BY <1>4
  <1>12. dt2t(D) = n * 86400 + h2 * 3600 + min2 * 60 + s2
    BY <1>5
  <1> HIDE DEF m, n, h1, h2, min1, min2, s1, s2
  <1>13. m * 86400 + h1 * 3600 + min1 * 60 + s1 <= n * 86400 + h2 * 3600 + min2 * 60 + s2
    BY <1>9, <1>10
  <1> QED BY <1>11, <1>12, <1>13

\* The date the clock shows, read at once, in a year that a character holds.
LEMMA ReadAtOnce ==
    ASSUME NEW d, IsDate(d)
    PROVE  /\ arch_clock(d).sec = d.sec /\ arch_clock(d).min = d.min
           /\ arch_clock(d).hr = d.hr /\ arch_clock(d).day = d.day
           /\ arch_clock(d).mon = d.mon
           /\ d.yr < 80 => arch_clock(d).yr = d.yr
  <1>1. /\ d.sec \in 0..79 /\ d.min \in 0..79 /\ d.hr \in 0..79 /\ d.day \in 0..79
        /\ d.mon \in 0..79 /\ d.yr \in 0..99
    BY DEF IsDate
  <1>2. {Fields[i] : i \in 1..6} = {"sec", "min", "hr", "day", "mon", "yr"}
    BY DEF Fields
  <1>3. \A f \in {"sec", "min", "hr", "day", "mon", "yr"} :
            arch_clock(d)[f] = from_bcd(get_realtime_reg(d[f]), get_realtime_reg(d[f]))
    BY <1>2 DEF arch_clock, Read
  <1> QED BY <1>1, <1>3, ReadBelow

\* dt2t counts the seconds since the start of the year, for every date up to
\* 2079: the tables of days agree with the number of the day (time.c:7-25).
THEOREM SecondsRight == Spec => []SecondsCount
  <1>1. IInv => SecondsCount
    <2> SUFFICES ASSUME IInv, era[now].yr < 80
                 PROVE  LET d == era[now]
                            doy == ((275 * d.mon) \div 9) + d.day - 30
                                     - (IF d.mon <= 2 THEN 0 ELSE IF d.yr % 4 = 0 THEN 1 ELSE 2)
                        IN  dt2t(arch_clock(d))
                              = (((doy - 1) * 24 + d.hr) * 60 + d.min) * 60 + d.sec
      BY DEF SecondsCount
    <2> DEFINE d == era[now]
               doy == ((275 * d.mon) \div 9) + d.day - 30
                        - (IF d.mon <= 2 THEN 0 ELSE IF d.yr % 4 = 0 THEN 1 ELSE 2)
               B == DaysBefore(d.yr % 4 = 0)
    <2>1. IsDate(d)
      BY ErasAssumption DEF IInv, Dates
    <2>2. /\ d.yr \in 0..79 /\ d.mon \in 1..12 /\ d.day \in 1..31 /\ d.hr \in 0..23
          /\ d.min \in 0..59 /\ d.sec \in 0..59
      BY <2>1 DEF IsDate
    <2>3. dt2t(arch_clock(d)) = (B[d.mon] + d.day - 1) * 86400 + d.hr * 3600 + d.min * 60 + d.sec
      <3> DEFINE D == arch_clock(d)
      <3>1. /\ D.sec = d.sec /\ D.min = d.min /\ D.hr = d.hr /\ D.day = d.day
            /\ D.mon = d.mon /\ D.yr = d.yr
        BY <2>1, <2>2, ReadAtOnce
      <3> HIDE DEF D
      <3>2. dt2t(D) = (DaysBefore(D.yr % 4 = 0)[D.mon] + D.day - 1) * 86400
                        + D.hr * 3600 + D.min * 60 + D.sec
        BY <3>1, <2>2, Seconds
      <3> QED BY <3>1, <3>2 DEF D
    <2>4. B[d.mon] \in Nat
      BY <2>2, MonthLengths
    <2>5. doy = B[d.mon] + d.day
      <3> DEFINE q == (275 * d.mon) \div 9
                 c == IF d.mon <= 2 THEN 0 ELSE IF d.yr % 4 = 0 THEN 1 ELSE 2
      <3>1. q - 30 - c = B[d.mon]
        BY <2>2, MonthStart
      <3>2. q \in Int /\ c \in Int
        <4> HIDE DEF d
        <4> QED BY <2>2
      <3>3. doy = q + d.day - 30 - c
        OBVIOUS
      <3> HIDE DEF q, c, B, doy
      <3> QED BY <3>1, <3>2, <3>3, <2>2, <2>4
    <2> DEFINE n == doy - 1
    <2>6. doy - 1 = B[d.mon] + d.day - 1 /\ doy - 1 \in Int
      <3> HIDE DEF doy, B
      <3> QED BY <2>5, <2>4, <2>2
    <2>7. ((n * 24 + d.hr) * 60 + d.min) * 60 + d.sec
             = n * 86400 + d.hr * 3600 + d.min * 60 + d.sec
      <3> DEFINE h == d.hr
                 m == d.min
                 s == d.sec
      <3>1. n \in Int /\ h \in Int /\ m \in Int /\ s \in Int
        BY <2>2, <2>6
      <3> HIDE DEF n, h, m, s
      <3>2. ((n * 24 + h) * 60 + m) * 60 + s = n * 86400 + h * 3600 + m * 60 + s
        BY <3>1
      <3> QED BY <3>2 DEF h, m, s
    <2> QED BY <2>3, <2>6, <2>7
  <1> QED BY <1>1, Invariant, PTL

-----------------------------------------------------------------------------
(* A reading of the clock *)

FieldNames == {"sec", "min", "hr", "day", "mon", "yr"}

\* A number n made of two reads of a register, of a number a and of b.
Made(n, a, b) ==
    /\ n = from_bcd(get_realtime_reg(a), get_realtime_reg(b))
    /\ ~Slips(get_realtime_reg(a), get_realtime_reg(b))

\* The registers of the reading were read one after another, each at a moment from
\* the beginning of the reading on: the tens of field i at t[i], its units at u[i].
ReadAt(t, u, r, e) ==
    /\ \A i \in 1..6 : t[i] <= u[i]
    /\ \A i, j \in 1..6 : i < j => u[i] <= t[j]
    /\ r.tens => r.half = get_realtime_reg(e[t[r.k + 1]][Fields[r.k + 1]])
    /\ \A i \in 1..r.k : Made(r.dt[Fields[i]], e[t[i]][Fields[i]], e[u[i]][Fields[i]])
ReadSince(r, n, e) ==
    r.since > 0 /\ ~r.mixed /\ ~r.slipped =>
        \E t, u \in [1..6 -> r.since..n] : ReadAt(t, u, r, e)
Form == [dt : [FieldNames -> Int], half : Int, tens : BOOLEAN, since : Nat, k : 0..6,
         mixed : BOOLEAN, slipped : BOOLEAN]
Reading ==
    /\ reading \in Form
    /\ reading.tens => reading.k < 6
    /\ reading.since <= now
    /\ ReadSince(reading, now, era)
    /\ boot_time = dt2t(arch_clock(era[1]))

LEMMA FieldsNamed ==
    /\ \A i \in 1..6 : Fields[i] \in FieldNames
    /\ \A i, j \in 1..6 : i # j => Fields[i] # Fields[j]
    /\ {Fields[i] : i \in 1..6} = FieldNames
  BY DEF Fields, FieldNames

\* What is read of a date is a number, and so is what is made of two reads.
LEMMA ReadNumber ==
    ASSUME NEW d, IsDate(d), NEW f \in FieldNames
    PROVE  get_realtime_reg(d[f]) \in Int
  <1>1. d[f] \in Nat
    BY DEF IsDate, FieldNames
  <1> DEFINE n == d[f]
  <1>2. n \div 10 \in Int /\ n % 10 \in Int
    BY <1>1
  <1> QED BY <1>2 DEF get_realtime_reg

LEMMA MadeNumber ==
    ASSUME NEW a \in Int, NEW b \in Int
    PROVE  from_bcd(a, b) \in Int
  <1>1. a \div 16 \in Int /\ (-a) \div 16 \in Int /\ b % 16 \in Int
    OBVIOUS
  <1> QED BY <1>1 DEF from_bcd

LEMMA ReadingInit == Init => Reading
  <1> SUFFICES ASSUME Init PROVE Reading
    OBVIOUS
  <1>1. reading = NewReading(0, 6) /\ now = 1 /\ boot_time = dt2t(arch_clock(era[1]))
    BY DEF Init, ClockInit
  <1>2. NoDate \in [FieldNames -> Int]
    BY DEF NoDate, FieldNames
  <1>3. reading \in Form
    BY <1>1, <1>2 DEF NewReading, Form
  <1>4. ReadSince(reading, now, era)
    BY <1>1 DEF ReadSince, NewReading
  <1> QED BY <1>1, <1>3, <1>4 DEF Reading, NewReading

\* One more read of a register keeps the moments of the reads before.
LEMMA TensStep ==
    ASSUME NEW r \in Form, NEW n \in Nat, NEW e, r.k < 6, ~r.tens, r.since <= n,
           NEW q, q.since = r.since, q.mixed = r.mixed, q.slipped = r.slipped, q.k = r.k,
           q.dt = r.dt, q.half = get_realtime_reg(e[n][Fields[r.k + 1]]),
           ReadSince(r, n, e)
    PROVE  ReadSince(q, n, e)
  <1> SUFFICES ASSUME r.since > 0, ~r.mixed, ~r.slipped
               PROVE  \E t, u \in [1..6 -> r.since..n] : ReadAt(t, u, q, e)
    BY DEF ReadSince
  <1>1. PICK t \in [1..6 -> r.since..n], u \in [1..6 -> r.since..n] : ReadAt(t, u, r, e)
    BY DEF ReadSince
  <1>2. r.since \in Nat /\ r.k \in 0..5
    BY DEF Form
  <1>3. PICK k : k = r.k
    OBVIOUS
  <1> DEFINE t2 == [i \in 1..6 |-> IF i <= k THEN t[i] ELSE n]
             u2 == [i \in 1..6 |-> IF i <= k THEN u[i] ELSE n]
  <1>4. \A i \in 1..6 : /\ t[i] \in Int /\ r.since <= t[i] /\ t[i] <= n
                        /\ u[i] \in Int /\ r.since <= u[i] /\ u[i] <= n
    <2> TAKE i \in 1..6
    <2>1. t[i] \in r.since..n /\ u[i] \in r.since..n
      OBVIOUS
    <2> QED BY <2>1, <1>2
  <1>5. t2 \in [1..6 -> r.since..n] /\ u2 \in [1..6 -> r.since..n]
    BY <1>2
  <1>6. \A i \in 1..6 : t2[i] <= u2[i]
    <2> TAKE i \in 1..6
    <2>1. t[i] <= u[i]
      BY <1>1 DEF ReadAt
    <2> QED BY <2>1
  <1>7. \A i, j \in 1..6 : i < j => u2[i] <= t2[j]
    <2> TAKE i, j \in 1..6
    <2>1. i < j => u[i] <= t[j]
      BY <1>1 DEF ReadAt
    <2>2. /\ u2[i] = (IF i <= k THEN u[i] ELSE n)
          /\ t2[j] = (IF j <= k THEN t[j] ELSE n)
          /\ u[i] \in Int /\ t[j] \in Int /\ u[i] <= n /\ k \in Int
      BY <1>4, <1>2, <1>3
    <2> HIDE DEF t2, u2
    <2> QED BY <2>1, <2>2
  <1>8. \A i \in 1..k : /\ t2[i] = t[i] /\ u2[i] = u[i]
                        /\ Made(r.dt[Fields[i]], e[t[i]][Fields[i]], e[u[i]][Fields[i]])
    <2> TAKE i \in 1..k
    <2>1. i \in 1..6 /\ i \in 1..r.k
      BY <1>2, <1>3
    <2> QED BY <2>1, <1>1 DEF ReadAt
  <1>9. k + 1 \in 1..6 /\ t2[k + 1] = n
    BY <1>2, <1>3
  <1> HIDE DEF t2, u2
  <1>10. ReadAt(t2, u2, q, e)
    BY <1>3, <1>6, <1>7, <1>8, <1>9 DEF ReadAt
  <1> QED BY <1>5, <1>10

LEMMA UnitsStep ==
    ASSUME NEW r \in Form, NEW n \in Nat, NEW e, r.k < 6, r.tens, r.since <= n,
           NEW q, q.since = r.since, q.mixed = r.mixed, q.k = r.k + 1, ~q.tens,
           NEW b, b = get_realtime_reg(e[n][Fields[r.k + 1]]),
           q.dt = [r.dt EXCEPT ![Fields[r.k + 1]] = from_bcd(r.half, b)],
           q.slipped = (r.slipped \/ Slips(r.half, b)),
           ReadSince(r, n, e)
    PROVE  ReadSince(q, n, e)
  <1> SUFFICES ASSUME r.since > 0, ~r.mixed, ~r.slipped, ~Slips(r.half, b)
               PROVE  \E t, u \in [1..6 -> r.since..n] : ReadAt(t, u, q, e)
    BY DEF ReadSince
  <1>1. PICK t \in [1..6 -> r.since..n], u \in [1..6 -> r.since..n] : ReadAt(t, u, r, e)
    BY DEF ReadSince
  <1>2. r.since \in Nat /\ r.k \in 0..5 /\ r.dt \in [FieldNames -> Int]
    BY DEF Form
  <1>3. PICK k : k = r.k
    OBVIOUS
  <1> DEFINE t2 == [i \in 1..6 |-> IF i <= k + 1 THEN t[i] ELSE n]
             u2 == [i \in 1..6 |-> IF i <= k THEN u[i] ELSE n]
  <1>4. \A i \in 1..6 : /\ t[i] \in Int /\ r.since <= t[i] /\ t[i] <= n
                        /\ u[i] \in Int /\ r.since <= u[i] /\ u[i] <= n
    <2> TAKE i \in 1..6
    <2>1. t[i] \in r.since..n /\ u[i] \in r.since..n
      OBVIOUS
    <2> QED BY <2>1, <1>2
  <1>5. t2 \in [1..6 -> r.since..n] /\ u2 \in [1..6 -> r.since..n]
    BY <1>2
  <1>6. \A i \in 1..6 : t2[i] <= u2[i]
    <2> TAKE i \in 1..6
    <2>1. t[i] <= u[i] /\ t[i] <= n
      BY <1>1, <1>4 DEF ReadAt
    <2>2. /\ u2[i] = (IF i <= k THEN u[i] ELSE n)
          /\ t2[i] = (IF i <= k + 1 THEN t[i] ELSE n) /\ k \in Int /\ n <= n
      BY <1>2, <1>3
    <2> HIDE DEF t2, u2
    <2> QED BY <2>1, <2>2
  <1>7. \A i, j \in 1..6 : i < j => u2[i] <= t2[j]
    <2> TAKE i, j \in 1..6
    <2>1. i < j => u[i] <= t[j]
      BY <1>1 DEF ReadAt
    <2>2. /\ u2[i] = (IF i <= k THEN u[i] ELSE n)
          /\ t2[j] = (IF j <= k + 1 THEN t[j] ELSE n)
          /\ u[i] \in Int /\ t[j] \in Int /\ u[i] <= n /\ k \in Int
      BY <1>4, <1>2, <1>3
    <2> HIDE DEF t2, u2
    <2> QED BY <2>1, <2>2
  <1>8. k + 1 \in 1..6 /\ t2[k + 1] = t[k + 1] /\ u2[k + 1] = n
        /\ Fields[k + 1] \in FieldNames
    BY <1>2, <1>3, FieldsNamed
  <1>9. Made(q.dt[Fields[k + 1]], e[t2[k + 1]][Fields[k + 1]], e[u2[k + 1]][Fields[k + 1]])
    <2>1. r.half = get_realtime_reg(e[t[k + 1]][Fields[k + 1]])
      BY <1>1, <1>3 DEF ReadAt
    <2>2. q.dt[Fields[k + 1]] = from_bcd(r.half, b)
      BY <1>2, <1>3, <1>8
    <2> HIDE DEF t2, u2
    <2> QED BY <2>1, <2>2, <1>3, <1>8 DEF Made
  <1>10. ASSUME NEW i \in 1..k
         PROVE  Made(q.dt[Fields[i]], e[t2[i]][Fields[i]], e[u2[i]][Fields[i]])
    <2>1. i \in 1..6 /\ i \in 1..r.k /\ i # k + 1
      BY <1>2, <1>3
    <2>2. Made(r.dt[Fields[i]], e[t[i]][Fields[i]], e[u[i]][Fields[i]])
      BY <2>1, <1>1 DEF ReadAt
    <2>3. t2[i] = t[i] /\ u2[i] = u[i]
      BY <2>1, <1>2, <1>3
    <2>4. Fields[i] \in FieldNames /\ Fields[i] # Fields[k + 1]
      BY <2>1, <1>8, FieldsNamed
    <2>5. q.dt[Fields[i]] = r.dt[Fields[i]]
      BY <2>4, <1>2, <1>3
    <2> QED BY <2>2, <2>3, <2>5
  <1> HIDE DEF t2, u2
  <1>11. \A i \in 1..q.k : Made(q.dt[Fields[i]], e[t2[i]][Fields[i]], e[u2[i]][Fields[i]])
    <2> TAKE i \in 1..q.k
    <2>1. i = k + 1 \/ i \in 1..k
      BY <1>2, <1>3
    <2> QED BY <2>1, <1>9, <1>10
  <1>12. ReadAt(t2, u2, q, e)
    BY <1>6, <1>7, <1>11 DEF ReadAt
  <1> QED BY <1>5, <1>12

\* What one read makes of a reading, field by field.
LEMMA FormFields ==
    ASSUME reading \in Form
    PROVE  reading = [dt |-> reading.dt, half |-> reading.half, tens |-> reading.tens,
                      since |-> reading.since, k |-> reading.k,
                      mixed |-> reading.mixed, slipped |-> reading.slipped]
  BY DEF Form

LEMMA TensFields ==
    ASSUME NEW val, reading \in Form
    PROVE  TensRead(val) = [dt |-> reading.dt, half |-> val, tens |-> TRUE,
                            since |-> reading.since, k |-> reading.k,
                            mixed |-> reading.mixed, slipped |-> reading.slipped]
  <1>1. PICK d, h, t, s, k, m, sl : /\ d = reading.dt /\ h = reading.half /\ t = reading.tens
                                    /\ s = reading.since /\ k = reading.k
                                    /\ m = reading.mixed /\ sl = reading.slipped
    OBVIOUS
  <1>2. reading = [dt |-> d, half |-> h, tens |-> t, since |-> s, k |-> k, mixed |-> m,
                   slipped |-> sl]
    BY <1>1, FormFields, Zenon
  <1>3. PICK b : b = TRUE
    OBVIOUS
  <1>4. PICK r1 : r1 = [reading EXCEPT !.tens = b]
    OBVIOUS
  <1>5. r1 = [dt |-> d, half |-> h, tens |-> b, since |-> s, k |-> k, mixed |-> m,
              slipped |-> sl]
    BY <1>2, <1>4
  <1>6. [r1 EXCEPT !.half = val]
          = [dt |-> d, half |-> val, tens |-> b, since |-> s, k |-> k, mixed |-> m,
             slipped |-> sl]
    BY <1>5
  <1>7. TensRead(val) = [r1 EXCEPT !.half = val]
    BY <1>3, <1>4, Zenon DEF TensRead
  <1> QED BY <1>1, <1>3, <1>6, <1>7, Zenon

LEMMA UnitsFields ==
    ASSUME NEW val, NEW f, reading \in Form
    PROVE  UnitsRead(f, val)
             = [dt |-> [reading.dt EXCEPT ![f] = from_bcd(reading.half, val)], half |-> 0,
                tens |-> FALSE, since |-> reading.since, k |-> reading.k + 1,
                mixed |-> reading.mixed, slipped |-> (reading.slipped \/ Slips(reading.half, val))]
  <1>1. PICK d, h, t, s, k, m, sl : /\ d = reading.dt /\ h = reading.half /\ t = reading.tens
                                    /\ s = reading.since /\ k = reading.k
                                    /\ m = reading.mixed /\ sl = reading.slipped
    OBVIOUS
  <1>2. reading = [dt |-> d, half |-> h, tens |-> t, since |-> s, k |-> k, mixed |-> m,
                   slipped |-> sl]
    BY <1>1, FormFields, Zenon
  <1>3. PICK b, n, z : /\ b = FALSE /\ n = from_bcd(reading.half, val)
                       /\ z = (reading.slipped \/ Slips(reading.half, val))
    OBVIOUS
  <1>4. PICK r1 : r1 = [reading EXCEPT !.tens = b]
    OBVIOUS
  <1>5. PICK r2 : r2 = [r1 EXCEPT !.half = 0]
    OBVIOUS
  <1>6. PICK r3 : r3 = [r2 EXCEPT !.k = @ + 1]
    OBVIOUS
  <1>7. PICK r4 : r4 = [r3 EXCEPT !.dt[f] = n]
    OBVIOUS
  <1>8. r1 = [dt |-> d, half |-> h, tens |-> b, since |-> s, k |-> k, mixed |-> m,
              slipped |-> sl]
    BY <1>2, <1>4
  <1>9. r2 = [dt |-> d, half |-> 0, tens |-> b, since |-> s, k |-> k, mixed |-> m,
              slipped |-> sl]
    BY <1>5, <1>8
  <1>10. r3 = [dt |-> d, half |-> 0, tens |-> b, since |-> s, k |-> k + 1, mixed |-> m,
               slipped |-> sl]
    BY <1>6, <1>9
  <1>11. r4 = [dt |-> [d EXCEPT ![f] = n], half |-> 0, tens |-> b, since |-> s, k |-> k + 1,
               mixed |-> m, slipped |-> sl]
    BY <1>7, <1>10
  <1>12. [r4 EXCEPT !.slipped = z]
            = [dt |-> [d EXCEPT ![f] = n], half |-> 0, tens |-> b, since |-> s, k |-> k + 1,
               mixed |-> m, slipped |-> z]
    BY <1>11
  <1>13. UnitsRead(f, val) = [r4 EXCEPT !.slipped = z]
    BY <1>3, <1>4, <1>5, <1>6, <1>7, Zenon DEF UnitsRead
  <1> QED BY <1>1, <1>3, <1>12, <1>13, Zenon

LEMMA ReadForm ==
    ASSUME NEW val \in Int, reading \in Form, reading.k < 6
    PROVE  /\ TensRead(val) \in Form /\ TensRead(val).k = reading.k
           /\ TensRead(val).since = reading.since
           /\ \A f \in FieldNames : /\ UnitsRead(f, val) \in Form
                                    /\ UnitsRead(f, val).since = reading.since
                                    /\ ~UnitsRead(f, val).tens
  <1>1. TensRead(val) \in Form /\ TensRead(val).k = reading.k /\ TensRead(val).since = reading.since
    <2> DEFINE q == TensRead(val)
    <2>1. q = [dt |-> reading.dt, half |-> val, tens |-> TRUE, since |-> reading.since,
               k |-> reading.k, mixed |-> reading.mixed, slipped |-> reading.slipped]
      BY TensFields
    <2>2. /\ reading.dt \in [FieldNames -> Int] /\ reading.since \in Nat /\ reading.k \in 0..6
          /\ reading.mixed \in BOOLEAN /\ reading.slipped \in BOOLEAN
      BY DEF Form
    <2> HIDE DEF q
    <2>3. q \in Form /\ q.k = reading.k /\ q.since = reading.since
      BY <2>1, <2>2 DEF Form
    <2> QED BY <2>3 DEF q
  <1>2. ASSUME NEW f \in FieldNames
        PROVE  /\ UnitsRead(f, val) \in Form /\ UnitsRead(f, val).since = reading.since
               /\ ~UnitsRead(f, val).tens
    <2> DEFINE n == from_bcd(reading.half, val)
               d == [reading.dt EXCEPT ![f] = n]
               sl == reading.slipped \/ Slips(reading.half, val)
    <2>1. n \in Int
      BY MadeNumber DEF Form
    <2> HIDE DEF n
    <2>2. d \in [FieldNames -> Int]
      BY <2>1 DEF Form
    <2>3. reading.k + 1 \in 0..6 /\ reading.since \in Nat /\ reading.mixed \in BOOLEAN
      BY DEF Form
    <2>4. sl \in BOOLEAN
      OBVIOUS
    <2>5. UnitsRead(f, val) = [dt |-> d, half |-> 0, tens |-> FALSE, since |-> reading.since,
                               k |-> reading.k + 1, mixed |-> reading.mixed, slipped |-> sl]
      BY UnitsFields DEF n
    <2> HIDE DEF d, sl
    <2> QED BY <2>2, <2>3, <2>4, <2>5 DEF Form
  <1> QED BY <1>1, <1>2

LEMMA ReadingStep ==
    ASSUME Dates, Reading, ClockSteps
    PROVE  Reading'
  <1>0. /\ reading \in Form /\ reading.since \in Nat /\ reading.k \in 0..6
        /\ reading.since <= now /\ now \in Nat \ {0} /\ era' = era
        /\ era \in Eras /\ now \in 1..Len(era) /\ IsDate(era[now])
        /\ boot_time = dt2t(arch_clock(era[1])) /\ boot_time' = boot_time
        /\ ReadSince(reading, now, era) /\ (reading.tens => reading.k < 6)
    <2>1. Len(era) \in Nat /\ \A i \in 1..Len(era) : IsDate(era[i])
      BY ErasAssumption DEF Dates
    <2>2. era' = era /\ boot_time' = boot_time
      BY DEF ClockSteps, clock_ticks, time_begin, arch_clock_reg, get_realtime_reg_preempted
    <2> QED BY <2>1, <2>2 DEF Reading, Dates, Form
  <1> DEFINE k == reading.k
             f == Fields[k + 1]
  <1>1. CASE clock_ticks
    <2>1. now' = now + 1 /\ reading' = reading
      BY <1>1 DEF clock_ticks
    <2>2. ReadSince(reading, now + 1, era)
      <3> SUFFICES ASSUME reading.since > 0, ~reading.mixed, ~reading.slipped
                   PROVE  \E t, u \in [1..6 -> reading.since..(now + 1)] : ReadAt(t, u, reading, era)
        BY DEF ReadSince
      <3>1. PICK t \in [1..6 -> reading.since..now], u \in [1..6 -> reading.since..now] :
                ReadAt(t, u, reading, era)
        BY <1>0 DEF ReadSince
      <3>2. t \in [1..6 -> reading.since..(now + 1)] /\ u \in [1..6 -> reading.since..(now + 1)]
        <4>1. \A x \in reading.since..now : x \in reading.since..(now + 1)
          BY <1>0
        <4> QED BY <4>1
      <3> QED BY <3>1, <3>2
    <2>3. reading.since <= now + 1
      BY <1>0
    <2>4. boot_time' = dt2t(arch_clock(era'[1])) /\ ReadSince(reading', now', era')
      BY <2>1, <2>2, <1>0
    <2> QED BY <2>1, <2>3, <2>4, <1>0 DEF Reading
  <1>2. CASE time_begin
    <2>1. reading' = NewReading(now, 0) /\ now' = now
      BY <1>2 DEF time_begin
    <2>2. NoDate \in [FieldNames -> Int]
      BY DEF NoDate, FieldNames
    <2>3. NewReading(now, 0) \in Form /\ NewReading(now, 0).since = now
          /\ ~NewReading(now, 0).tens
      BY <2>2, <1>0 DEF NewReading, Form
    <2>4. ReadSince(NewReading(now, 0), now, era)
      <3> DEFINE t == [i \in 1..6 |-> now]
                 r == NewReading(now, 0)
      <3>1. t \in [1..6 -> now..now]
        BY <1>0
      <3>2. ReadAt(t, t, r, era)
        BY <1>0 DEF ReadAt, NewReading
      <3> HIDE DEF t
      <3> QED BY <3>1, <3>2, <2>3 DEF ReadSince
    <2>5. ReadSince(reading', now', era')
      BY <2>1, <2>4, <1>0
    <2> HIDE DEF k, f
    <2> QED BY <2>1, <2>3, <2>5, <1>0 DEF Reading
  <1>3. CASE arch_clock_reg
    <2>1. PICK val : val = get_realtime_reg(era[now][f])
      OBVIOUS
    <2>2. reading' = (IF reading.tens THEN UnitsRead(f, val) ELSE TensRead(val)) /\ now' = now
          /\ k < 6
      BY <1>3, <2>1 DEF arch_clock_reg
    <2>3. f \in FieldNames /\ val \in Int
      <3>1. k + 1 \in 1..6
        BY <2>2, <1>0
      <3>2. f \in FieldNames
        BY <3>1, FieldsNamed
      <3> QED BY <3>2, <2>1, <1>0, ReadNumber
    <2>4. /\ reading' \in Form /\ (reading'.tens => reading'.k < 6)
          /\ reading'.since = reading.since
      <3> HIDE DEF k, f
      <3> QED BY <2>2, <2>3, <1>0, ReadForm DEF k
    <2>5. ReadSince(reading', now, era)
      <3>1. CASE reading.tens
        <4> DEFINE q == UnitsRead(f, val)
        <4>1. /\ q.since = reading.since /\ q.mixed = reading.mixed /\ q.k = reading.k + 1
              /\ ~q.tens /\ q.dt = [reading.dt EXCEPT ![f] = from_bcd(reading.half, val)]
              /\ q.slipped = (reading.slipped \/ Slips(reading.half, val))
          BY <1>0, UnitsFields
        <4> HIDE DEF q
        <4>2. ReadSince(q, now, era)
          BY <4>1, <3>1, <2>1, <2>2, <1>0, UnitsStep
        <4> QED BY <4>2, <3>1, <2>2 DEF q
      <3>2. CASE ~reading.tens
        <4> DEFINE q == TensRead(val)
        <4>1. /\ q.since = reading.since /\ q.mixed = reading.mixed /\ q.k = reading.k
              /\ q.dt = reading.dt /\ q.slipped = reading.slipped /\ q.half = val
          BY <1>0, TensFields
        <4> HIDE DEF q
        <4>2. ReadSince(q, now, era)
          BY <4>1, <3>2, <2>1, <2>2, <1>0, TensStep
        <4> QED BY <4>2, <3>2, <2>2 DEF q
      <3> QED BY <3>1, <3>2
    <2>6. ReadSince(reading', now', era')
      BY <2>2, <2>5, <1>0
    <2> HIDE DEF k, f
    <2> QED BY <2>2, <2>4, <2>6, <1>0 DEF Reading
  <1>4. CASE get_realtime_reg_preempted
    <2>1. PICK val : val = get_realtime_reg(era[now].yr)
      OBVIOUS
    <2>2. PICK q : q = IF reading.tens THEN UnitsRead(f, val) ELSE TensRead(val)
      OBVIOUS
    <2>3. reading' = [q EXCEPT !.mixed = TRUE] /\ now' = now /\ k < 6
      BY <1>4, <2>1, <2>2 DEF get_realtime_reg_preempted
    <2>4. f \in FieldNames /\ val \in Int
      <3>1. reading.k + 1 \in 1..6
        <4>1. reading.k < 6
          BY <2>3
        <4> QED BY <4>1, <1>0
      <3>2. f \in FieldNames
        BY <3>1, FieldsNamed
      <3>3. "yr" \in FieldNames
        BY DEF FieldNames
      <3> QED BY <3>2, <3>3, <2>1, <1>0, ReadNumber
    <2>5. /\ q \in Form /\ (q.tens => q.k < 6) /\ q.since = reading.since
      <3> HIDE DEF k, f
      <3> QED BY <2>2, <2>3, <2>4, <1>0, ReadForm DEF k
    <2>6. /\ reading' \in Form /\ (reading'.tens => reading'.k < 6)
          /\ reading'.since = reading.since /\ reading'.mixed
      BY <2>3, <2>5 DEF Form
    <2>7. ReadSince(reading', now', era')
      BY <2>6 DEF ReadSince
    <2> HIDE DEF k, f
    <2> QED BY <2>3, <2>6, <2>7, <1>0 DEF Reading
  <1> QED BY <1>1, <1>2, <1>3, <1>4 DEF ClockSteps

LEMMA ReadingInvariant == Spec => []Reading
  <1>1. IInv /\ Reading /\ [Next]_vars => Reading'
    <2> SUFFICES ASSUME IInv, Reading, [Next]_vars PROVE Reading'
      OBVIOUS
    <2>1. CASE ClockSteps
      BY <2>1, ReadingStep DEF IInv
    <2>2. CASE UNCHANGED clock_vars
      BY <2>2 DEF clock_vars, Reading
    <2> QED BY <2>1, <2>2 DEF Next, vars
  <1> QED BY <1>1, ReadingInit, Invariant, PTL DEF Spec

\* A date that is not after another, field by field from the year down.
DateLeq(d, e) ==
    \/ d.yr < e.yr
    \/ d.yr = e.yr /\ \/ d.mon < e.mon
                      \/ d.mon = e.mon /\ \/ d.day < e.day
                                          \/ d.day = e.day /\ \/ d.hr < e.hr
                                                              \/ d.hr = e.hr /\ \/ d.min < e.min
                                                                                \/ d.min = e.min /\ d.sec <= e.sec

LEMMA DatesOrdered ==
    ASSUME NEW d, NEW e, IsDate(d), IsDate(e), NotAfter(d, e)
    PROVE  DateLeq(d, e)
  <1>1. CASE d = e
    <2>1. d.sec \in Int
      BY DEF IsDate
    <2> QED BY <1>1, <2>1 DEF DateLeq
  <1>2. CASE d # e
    <2>1. PICK f \in 1..6 : /\ d[Fields[f]] < e[Fields[f]]
                            /\ \A g \in (f + 1)..6 : d[Fields[g]] = e[Fields[g]]
      BY <1>2 DEF NotAfter
    <2>2. /\ Fields[1] = "sec" /\ Fields[2] = "min" /\ Fields[3] = "hr"
          /\ Fields[4] = "day" /\ Fields[5] = "mon" /\ Fields[6] = "yr"
      BY DEF Fields
    <2>3. \A g \in 1..6 : f < g => d[Fields[g]] = e[Fields[g]]
      BY <2>1
    <2>4. /\ f < 2 => d.min = e.min
          /\ f < 3 => d.hr = e.hr
          /\ f < 4 => d.day = e.day
          /\ f < 5 => d.mon = e.mon
          /\ f < 6 => d.yr = e.yr
      BY <2>2, <2>3
    <2>5. CASE f = 1
      <3>1. d.sec < e.sec /\ d.sec \in Int /\ e.sec \in Int
        BY <2>5, <2>1, <2>2 DEF IsDate
      <3>2. d.sec <= e.sec
        BY <3>1
      <3> QED BY <3>2, <2>5, <2>4 DEF DateLeq
    <2>6. CASE f = 2
      BY <2>6, <2>1, <2>2, <2>4 DEF DateLeq
    <2>7. CASE f = 3
      BY <2>7, <2>1, <2>2, <2>4 DEF DateLeq
    <2>8. CASE f = 4
      BY <2>8, <2>1, <2>2, <2>4 DEF DateLeq
    <2>9. CASE f = 5
      BY <2>9, <2>1, <2>2, <2>4 DEF DateLeq
    <2>10. CASE f = 6
      BY <2>10, <2>1, <2>2, <2>4 DEF DateLeq
    <2> QED BY <2>5, <2>6, <2>7, <2>8, <2>9, <2>10
  <1> QED BY <1>1, <1>2

LEMMA SecondsInt ==
    ASSUME NEW D, D.yr \in 0..79, D.mon \in 1..12, D.day \in Int, D.hr \in Int,
           D.min \in Int, D.sec \in Int
    PROVE  dt2t(D) \in Int
  <1> DEFINE b == DaysBefore(D.yr % 4 = 0)[D.mon]
             day == D.day
             h == D.hr
             m == D.min
             s == D.sec
  <1>1. dt2t(D) = (b + day - 1) * 86400 + h * 3600 + m * 60 + s
    BY Seconds
  <1>2. b \in Int /\ day \in Int /\ h \in Int /\ m \in Int /\ s \in Int
    <2>1. DaysBefore(D.yr % 4 = 0)[D.mon] \in Nat
      BY MonthLengths
    <2> HIDE DEF b
    <2>2. b \in Nat
      BY <2>1 DEF b
    <2> QED BY <2>2
  <1> HIDE DEF b, day, h, m, s
  <1>3. (b + day - 1) * 86400 + h * 3600 + m * 60 + s \in Int
    BY <1>2
  <1> QED BY <1>1, <1>3

\* A number made of the tens of a and the units of b that has not slipped is not below
\* both.
AtLeast(n, a, b) == n \in Nat /\ (a <= n \/ b <= n)

LEMMA Digits ==
    ASSUME NEW a \in 0..79, NEW b \in 0..79
    PROVE  from_bcd(get_realtime_reg(a), get_realtime_reg(b)) = 10 * (a \div 10) + (b % 10)
  <1>1. PICK x \in 0..7, y \in 0..9 : a = 10 * x + y /\ x = a \div 10 /\ y = a % 10
    <2>1. a \div 10 \in 0..7 /\ a % 10 \in 0..9 /\ a = 10 * (a \div 10) + (a % 10)
      OBVIOUS
    <2> QED BY <2>1
  <1>2. PICK w \in 0..7, z \in 0..9 : b = 10 * w + z /\ w = b \div 10 /\ z = b % 10
    <2>1. b \div 10 \in 0..7 /\ b % 10 \in 0..9 /\ b = 10 * (b \div 10) + (b % 10)
      OBVIOUS
    <2> QED BY <2>1
  <1>3. get_realtime_reg(a) = 16 * x + y /\ get_realtime_reg(b) = 16 * w + z
    BY <1>1, <1>2 DEF get_realtime_reg
  <1>4. (16 * x + y) \div 16 = x /\ (16 * w + z) % 16 = z /\ ~(16 * x + y < 0)
    OBVIOUS
  <1> QED BY <1>1, <1>2, <1>3, <1>4 DEF from_bcd

LEMMA MadeAtLeast ==
    ASSUME NEW a \in 0..79, NEW b \in 0..79, NEW n, Made(n, a, b)
    PROVE  AtLeast(n, a, b)
  <1>1. n = 10 * (a \div 10) + (b % 10)
    BY Digits DEF Made
  <1>2. ~(n < a /\ n < b)
    BY ReadBelow DEF Made, Slips
  <1>3. n \in Nat
    BY <1>1
  <1> QED BY <1>2, <1>3 DEF AtLeast

\* A month of the same year is not before the one whose tens were read.
LEMMA MadeMonth ==
    ASSUME NEW a \in 1..12, NEW b \in 1..12, a <= b, NEW n, Made(n, a, b)
    PROVE  n \in 1..12
  <1>1. n = 10 * (a \div 10) + (b % 10) /\ AtLeast(n, a, b)
    BY Digits, MadeAtLeast DEF Made
  <1>2. CASE a <= 9
    BY <1>1, <1>2 DEF AtLeast
  <1>3. CASE a \in {10, 11, 12}
    BY <1>1, <1>3 DEF AtLeast
  <1> QED BY <1>2, <1>3

\* Fields taken from dates that are in order, the higher ones from the later, are
\* not before the first of them in a year they share; each is made of two dates.
LEMMA TornDates ==
    ASSUME NEW E, NEW A1, NEW B1, NEW A2, NEW B2, NEW A3, NEW B3, NEW A4, NEW B4,
           NEW A5, NEW B5, NEW D,
           \A d \in {E, A1, B1, A2, B2, A3, B3, A4, B4, A5, B5} : IsDate(d) /\ d.yr = E.yr,
           DateLeq(E, A1), DateLeq(A1, B1), DateLeq(B1, A2),
           DateLeq(E, A2), DateLeq(A2, B2), DateLeq(B2, A3),
           DateLeq(E, A3), DateLeq(A3, B3), DateLeq(B3, A4),
           DateLeq(E, A4), DateLeq(A4, B4), DateLeq(B4, A5),
           DateLeq(E, A5), DateLeq(A5, B5),
           AtLeast(D.sec, A1.sec, B1.sec), AtLeast(D.min, A2.min, B2.min),
           AtLeast(D.hr, A3.hr, B3.hr), AtLeast(D.day, A4.day, B4.day),
           AtLeast(D.mon, A5.mon, B5.mon)
    PROVE  \/ E.mon < D.mon
           \/ E.mon = D.mon /\ \/ E.day < D.day
                               \/ E.day = D.day /\ E.hr < D.hr
                               \/ E.day = D.day /\ E.hr = D.hr /\ E.min < D.min
                               \/ E.day = D.day /\ E.hr = D.hr /\ E.min = D.min /\ E.sec <= D.sec
  <1>1. \A d \in {E, A1, B1, A2, B2, A3, B3, A4, B4, A5, B5} :
           /\ d.yr \in Int /\ d.mon \in Int /\ d.day \in Int
           /\ d.hr \in Int /\ d.min \in Int /\ d.sec \in Int
    BY DEF IsDate
  <1>2. E.mon <= D.mon /\ (E.mon = D.mon => A5.mon = E.mon)
    <2>1. E.mon <= A5.mon /\ A5.mon <= B5.mon
      BY <1>1 DEF DateLeq
    <2> QED BY <1>1, <2>1 DEF AtLeast
  <1>3. ASSUME E.mon = D.mon
        PROVE  E.day <= D.day /\ (E.day = D.day => A4.mon = E.mon /\ A4.day = E.day)
    <2>1. A5.mon = E.mon
      BY <1>2, <1>3
    <2>2. E.mon <= A4.mon /\ A4.mon <= B4.mon /\ B4.mon <= A5.mon
      BY <1>1 DEF DateLeq
    <2>3. A4.mon = E.mon /\ B4.mon = E.mon
      BY <1>1, <2>1, <2>2
    <2>4. E.day <= A4.day /\ A4.day <= B4.day
      BY <1>1, <2>3 DEF DateLeq
    <2> QED BY <1>1, <2>3, <2>4 DEF AtLeast
  <1>4. ASSUME E.mon = D.mon, E.day = D.day
        PROVE  E.hr <= D.hr /\ (E.hr = D.hr => A3.mon = E.mon /\ A3.day = E.day /\ A3.hr = E.hr)
    <2>1. A4.mon = E.mon /\ A4.day = E.day
      BY <1>3, <1>4
    <2>2. E.mon <= A3.mon /\ A3.mon <= B3.mon /\ B3.mon <= A4.mon
      BY <1>1 DEF DateLeq
    <2>3. A3.mon = E.mon /\ B3.mon = E.mon
      BY <1>1, <2>1, <2>2
    <2>4. E.day <= A3.day /\ A3.day <= B3.day /\ B3.day <= A4.day
      BY <1>1, <2>1, <2>3 DEF DateLeq
    <2>5. A3.day = E.day /\ B3.day = E.day
      BY <1>1, <2>1, <2>4
    <2>6. E.hr <= A3.hr /\ A3.hr <= B3.hr
      BY <1>1, <2>3, <2>5 DEF DateLeq
    <2> QED BY <1>1, <2>3, <2>5, <2>6 DEF AtLeast
  <1>5. ASSUME E.mon = D.mon, E.day = D.day, E.hr = D.hr
        PROVE  /\ E.min <= D.min
               /\ E.min = D.min => /\ A2.mon = E.mon /\ A2.day = E.day
                                   /\ A2.hr = E.hr /\ A2.min = E.min
    <2>1. A3.mon = E.mon /\ A3.day = E.day /\ A3.hr = E.hr
      BY <1>4, <1>5
    <2>2. E.mon <= A2.mon /\ A2.mon <= B2.mon /\ B2.mon <= A3.mon
      BY <1>1 DEF DateLeq
    <2>3. A2.mon = E.mon /\ B2.mon = E.mon
      BY <1>1, <2>1, <2>2
    <2>4. E.day <= A2.day /\ A2.day <= B2.day /\ B2.day <= A3.day
      BY <1>1, <2>1, <2>3 DEF DateLeq
    <2>5. A2.day = E.day /\ B2.day = E.day
      BY <1>1, <2>1, <2>4
    <2>6. E.hr <= A2.hr /\ A2.hr <= B2.hr /\ B2.hr <= A3.hr
      BY <1>1, <2>1, <2>3, <2>5 DEF DateLeq
    <2>7. A2.hr = E.hr /\ B2.hr = E.hr
      BY <1>1, <2>1, <2>6
    <2>8. E.min <= A2.min /\ A2.min <= B2.min
      BY <1>1, <2>3, <2>5, <2>7 DEF DateLeq
    <2> QED BY <1>1, <2>3, <2>5, <2>7, <2>8 DEF AtLeast
  <1>6. ASSUME E.mon = D.mon, E.day = D.day, E.hr = D.hr, E.min = D.min
        PROVE  E.sec <= D.sec
    <2>1. A2.mon = E.mon /\ A2.day = E.day /\ A2.hr = E.hr /\ A2.min = E.min
      BY <1>5, <1>6
    <2>2. E.mon <= A1.mon /\ A1.mon <= B1.mon /\ B1.mon <= A2.mon
      BY <1>1 DEF DateLeq
    <2>3. A1.mon = E.mon /\ B1.mon = E.mon
      BY <1>1, <2>1, <2>2
    <2>4. E.day <= A1.day /\ A1.day <= B1.day /\ B1.day <= A2.day
      BY <1>1, <2>1, <2>3 DEF DateLeq
    <2>5. A1.day = E.day /\ B1.day = E.day
      BY <1>1, <2>1, <2>4
    <2>6. E.hr <= A1.hr /\ A1.hr <= B1.hr /\ B1.hr <= A2.hr
      BY <1>1, <2>1, <2>3, <2>5 DEF DateLeq
    <2>7. A1.hr = E.hr /\ B1.hr = E.hr
      BY <1>1, <2>1, <2>6
    <2>8. E.min <= A1.min /\ A1.min <= B1.min /\ B1.min <= A2.min
      BY <1>1, <2>1, <2>3, <2>5, <2>7 DEF DateLeq
    <2>9. A1.min = E.min /\ B1.min = E.min
      BY <1>1, <2>1, <2>8
    <2>10. E.sec <= A1.sec /\ A1.sec <= B1.sec
      BY <1>1, <2>3, <2>5, <2>7, <2>9 DEF DateLeq
    <2> QED BY <1>1, <2>10 DEF AtLeast
  <1>7. /\ E.mon \in Int /\ E.day \in Int /\ E.hr \in Int /\ E.min \in Int /\ E.sec \in Int
        /\ D.mon \in Int /\ D.day \in Int /\ D.hr \in Int /\ D.min \in Int /\ D.sec \in Int
    BY <1>1 DEF AtLeast
  <1>8. CASE E.mon = D.mon
    <2>1. CASE E.day = D.day
      <3>1. CASE E.hr = D.hr
        BY <1>7, <1>8, <2>1, <3>1, <1>5, <1>6
      <3>2. CASE E.hr # D.hr
        BY <1>7, <1>8, <2>1, <3>2, <1>4
      <3> QED BY <3>1, <3>2
    <2>2. CASE E.day # D.day
      BY <1>7, <1>8, <2>2, <1>3
    <2> QED BY <2>1, <2>2
  <1>9. CASE E.mon # D.mon
    BY <1>7, <1>9, <1>2
  <1> QED BY <1>8, <1>9

\* A date of an era and a reading that began no earlier, in the same year: the
\* reading makes no less of seconds.
LEMMA TornReading ==
    ASSUME Dates, Reading, reading.k = 6, reading.since > 0, ~reading.mixed, ~reading.slipped,
           NEW p \in 1..reading.since, era[p].yr = era[now].yr, era[p].yr < 80
    PROVE  /\ dt2t(era[p]) <= dt2t(reading.dt)
           /\ dt2t(reading.dt) \in Int
  <1>1. PICK t \in [1..6 -> reading.since..now], u \in [1..6 -> reading.since..now] :
            ReadAt(t, u, reading, era)
    BY DEF Reading, ReadSince
  <1>2. /\ era \in Eras /\ Len(era) \in Nat /\ now \in 1..Len(era)
        /\ reading.since \in Nat /\ reading.since <= now
    BY ErasAssumption DEF Dates, Reading, Form
  <1> DEFINE L == p..now
             C == {era[x] : x \in L}
             E == era[p]
             D == reading.dt
  <1>2a. PICK s, n : s = reading.since /\ n = Len(era)
    OBVIOUS
  <1>2b. /\ s \in Nat /\ n \in Nat /\ now \in 1..n /\ now \in Nat /\ s <= now /\ p \in 1..s
         /\ p \in Nat
    <2>1. s \in Nat /\ n \in Nat /\ now \in 1..n /\ s <= now /\ p \in 1..s
      BY <1>2, <1>2a
    <2> QED BY <2>1
  <1>3. \A i \in 1..6 : t[i] \in L /\ u[i] \in L
    <2>1. \A x \in s..now : x \in p..now
      BY <1>2b
    <2>1a. \A x \in reading.since..now : x \in L
      BY <2>1, <1>2a
    <2>2. \A i \in 1..6 : t[i] \in reading.since..now /\ u[i] \in reading.since..now
      OBVIOUS
    <2> QED BY <2>1a, <2>2
  <1>4. p \in L /\ now \in L /\ \A x \in L : x \in 1..Len(era) /\ x \in Int /\ p <= x /\ x <= now
    <2>1. p \in p..now /\ now \in p..now
          /\ \A x \in p..now : x \in 1..n /\ x \in Int /\ p <= x /\ x <= now
      BY <1>2b
    <2> QED BY <2>1, <1>2a
  <1>5. \A x, y \in L : x <= y => DateLeq(era[x], era[y])
    <2> TAKE x, y \in L
    <2> HAVE x <= y
    <2>1. x \in 1..Len(era) /\ y \in 1..Len(era)
      BY <1>4
    <2>2. IsDate(era[x]) /\ IsDate(era[y]) /\ NotAfter(era[x], era[y])
      BY <2>1, <1>2, ErasAssumption
    <2> QED BY <2>2, DatesOrdered
  <1> HIDE DEF L
  <1>6. \A x \in L : IsDate(era[x]) /\ era[x].yr = E.yr
    <2> TAKE x \in L
    <2>1. IsDate(era[x]) /\ IsDate(E) /\ IsDate(era[now])
      BY <1>2, <1>4, ErasAssumption
    <2>2. DateLeq(E, era[x]) /\ DateLeq(era[x], era[now])
      BY <1>4, <1>5
    <2> DEFINE X == era[x]
               N == era[now]
    <2>3. IsDate(X) /\ IsDate(E) /\ IsDate(N) /\ DateLeq(E, X) /\ DateLeq(X, N) /\ E.yr = N.yr
      BY <2>1, <2>2
    <2> HIDE DEF X, E, N
    <2>4. X.yr \in Int /\ E.yr \in Int /\ N.yr \in Int
      BY <2>3 DEF IsDate
    <2>5. E.yr <= X.yr /\ X.yr <= N.yr
      BY <2>3, <2>4 DEF DateLeq
    <2>6. X.yr = E.yr /\ IsDate(X)
      BY <2>3, <2>4, <2>5
    <2> QED BY <2>6 DEF X, E
  <1>7. E.yr \in 0..79
    <2>1. IsDate(E) /\ E.yr < 80
      BY <1>4, <1>6
    <2> HIDE DEF E
    <2>2. E.yr \in 0..99
      BY <2>1 DEF IsDate
    <2> QED BY <2>1, <2>2
  <1> DEFINE A1 == era[t[1]]
             B1 == era[u[1]]
             A2 == era[t[2]]
             B2 == era[u[2]]
             A3 == era[t[3]]
             B3 == era[u[3]]
             A4 == era[t[4]]
             B4 == era[u[4]]
             A5 == era[t[5]]
             B5 == era[u[5]]
             A6 == era[t[6]]
             B6 == era[u[6]]
  <1>8. /\ t[1] <= u[1] /\ t[2] <= u[2] /\ t[3] <= u[3] /\ t[4] <= u[4] /\ t[5] <= u[5]
        /\ t[6] <= u[6]
        /\ u[1] <= t[2] /\ u[2] <= t[3] /\ u[3] <= t[4] /\ u[4] <= t[5] /\ u[5] <= t[6]
    BY <1>1 DEF ReadAt
  <1>9. /\ t[1] \in L /\ t[2] \in L /\ t[3] \in L /\ t[4] \in L /\ t[5] \in L /\ t[6] \in L
        /\ u[1] \in L /\ u[2] \in L /\ u[3] \in L /\ u[4] \in L /\ u[5] \in L /\ u[6] \in L
    BY <1>3
  <1>10. /\ DateLeq(E, A1) /\ DateLeq(A1, B1) /\ DateLeq(B1, A2)
         /\ DateLeq(E, A2) /\ DateLeq(A2, B2) /\ DateLeq(B2, A3)
         /\ DateLeq(E, A3) /\ DateLeq(A3, B3) /\ DateLeq(B3, A4)
         /\ DateLeq(E, A4) /\ DateLeq(A4, B4) /\ DateLeq(B4, A5)
         /\ DateLeq(E, A5) /\ DateLeq(A5, B5)
    <2>1. p <= t[1] /\ p <= t[2] /\ p <= t[3] /\ p <= t[4] /\ p <= t[5] /\ p \in L
      BY <1>4, <1>9
    <2> QED BY <2>1, <1>5, <1>8, <1>9
  <1>11. \A d \in {E, A1, B1, A2, B2, A3, B3, A4, B4, A5, B5, A6, B6} :
            IsDate(d) /\ d.yr = E.yr
    <2>1. \A d \in C : IsDate(d) /\ d.yr = E.yr
      BY <1>6
    <2>2. /\ E \in C /\ A1 \in C /\ B1 \in C /\ A2 \in C /\ B2 \in C /\ A3 \in C /\ B3 \in C
          /\ A4 \in C /\ B4 \in C /\ A5 \in C /\ B5 \in C /\ A6 \in C /\ B6 \in C
      BY <1>4, <1>9
    <2> HIDE DEF C, E, A1, B1, A2, B2, A3, B3, A4, B4, A5, B5, A6, B6
    <2> QED BY <2>1, <2>2
  <1>12. /\ Made(D.sec, A1.sec, B1.sec) /\ Made(D.min, A2.min, B2.min)
         /\ Made(D.hr, A3.hr, B3.hr) /\ Made(D.day, A4.day, B4.day)
         /\ Made(D.mon, A5.mon, B5.mon) /\ Made(D.yr, A6.yr, B6.yr)
    <2>1. \A i \in 1..6 : Made(D[Fields[i]], era[t[i]][Fields[i]], era[u[i]][Fields[i]])
      BY <1>1 DEF ReadAt
    <2>2. /\ Fields[1] = "sec" /\ Fields[2] = "min" /\ Fields[3] = "hr"
          /\ Fields[4] = "day" /\ Fields[5] = "mon" /\ Fields[6] = "yr"
      BY DEF Fields
    <2> QED BY <2>1, <2>2
  <1> HIDE DEF E, A1, B1, A2, B2, A3, B3, A4, B4, A5, B5, A6, B6, D
  <1>13. \A d \in {E, A1, B1, A2, B2, A3, B3, A4, B4, A5, B5, A6, B6} :
            /\ d.sec \in 0..79 /\ d.min \in 0..79 /\ d.hr \in 0..79 /\ d.day \in 0..79
            /\ d.mon \in 1..12
    <2> SUFFICES ASSUME NEW d, IsDate(d)
                 PROVE  /\ d.sec \in 0..79 /\ d.min \in 0..79 /\ d.hr \in 0..79
                        /\ d.day \in 0..79 /\ d.mon \in 1..12
      BY <1>11
    <2>1. /\ d.sec \in 0..59 /\ d.min \in 0..59 /\ d.hr \in 0..23 /\ d.day \in 1..31
          /\ d.mon \in 1..12
      BY DEF IsDate
    <2> QED BY <2>1
  <1>14. AtLeast(D.sec, A1.sec, B1.sec) /\ AtLeast(D.min, A2.min, B2.min)
    <2>1. A1.sec \in 0..79 /\ B1.sec \in 0..79 /\ A2.min \in 0..79 /\ B2.min \in 0..79
      BY <1>13
    <2> QED BY <2>1, <1>12, MadeAtLeast
  <1>15. AtLeast(D.hr, A3.hr, B3.hr) /\ AtLeast(D.day, A4.day, B4.day)
    BY <1>12, <1>13, MadeAtLeast
  <1>16. AtLeast(D.mon, A5.mon, B5.mon)
    <2>1. A5.mon \in 0..79 /\ B5.mon \in 0..79
      BY <1>13
    <2> QED BY <2>1, <1>12, MadeAtLeast
  <1>17. D.mon \in 1..12
    <2>1. A5.yr = B5.yr /\ A5.yr \in Int
      BY <1>7, <1>11
    <2>2. A5.mon \in 1..12 /\ B5.mon \in 1..12
      BY <1>13
    <2>3. A5.mon <= B5.mon
      BY <2>1, <2>2, <1>10 DEF DateLeq
    <2> QED BY <2>2, <2>3, <1>12, MadeMonth
  <1>18. D.day \in Nat \ {0} /\ D.hr \in Nat /\ D.min \in Nat /\ D.sec \in Nat
    <2>1. A4.day >= 1 /\ B4.day >= 1 /\ A4.day \in Int /\ B4.day \in Int
      <3>1. \A d : IsDate(d) => d.day >= 1 /\ d.day \in Int
        BY DEF IsDate
      <3> QED BY <3>1, <1>11
    <2> QED BY <2>1, <1>14, <1>15 DEF AtLeast
  <1>19. D.yr = E.yr
    <2>1. A6.yr = E.yr /\ B6.yr = E.yr
      BY <1>11
    <2> QED BY <2>1, <1>7, <1>12, ReadBelow DEF Made
  <1>20. \/ E.mon < D.mon
         \/ E.mon = D.mon /\ \/ E.day < D.day
                             \/ E.day = D.day /\ E.hr < D.hr
                             \/ E.day = D.day /\ E.hr = D.hr /\ E.min < D.min
                             \/ E.day = D.day /\ E.hr = D.hr /\ E.min = D.min /\ E.sec <= D.sec
    <2>1. \A d \in {E, A1, B1, A2, B2, A3, B3, A4, B4, A5, B5} : IsDate(d) /\ d.yr = E.yr
      BY <1>11
    <2> QED BY <2>1, <1>10, <1>14, <1>15, <1>16, TornDates
  <1>21. dt2t(E) <= dt2t(D)
    <2>1. IsDate(E) /\ E.yr < 80
      BY <1>7, <1>11
    <2> QED BY <2>1, <1>17, <1>18, <1>19, <1>20, SecondsOrder
  <1>22. dt2t(D) \in Int
    BY <1>7, <1>17, <1>18, <1>19, SecondsInt
  <1> QED BY <1>21, <1>22 DEF E, D

\* A date read at once is as many seconds as the date.
LEMMA ReadWhole ==
    ASSUME NEW d, IsDate(d), d.yr < 80
    PROVE  dt2t(arch_clock(d)) = dt2t(d) /\ dt2t(d) \in Int
  <1> DEFINE D == arch_clock(d)
  <1>1. /\ d.yr \in 0..79 /\ d.mon \in 1..12 /\ d.day \in 1..31 /\ d.hr \in 0..23
        /\ d.min \in 0..59 /\ d.sec \in 0..59
    BY DEF IsDate
  <1>2. /\ D.sec = d.sec /\ D.min = d.min /\ D.hr = d.hr /\ D.day = d.day
        /\ D.mon = d.mon /\ D.yr = d.yr
    BY ReadAtOnce
  <1> HIDE DEF D
  <1>3. dt2t(D) = dt2t(d)
    BY <1>2 DEF dt2t
  <1>4. dt2t(d) \in Int
    BY <1>1, SecondsInt
  <1> QED BY <1>3, <1>4 DEF D

\* A reading of the clock that is torn by updates, between registers or between the two
\* reads of one, is not before the moment it began, nor before the boot, unless a digit
\* was carried between two such reads, a year has ended or is above 2079; one that is
\* not torn is exact: the registers are read from the seconds up (clock.c:13, 33-42).
THEOREM ClockSafe == Spec => []ClockAhead
  <1>1. IInv /\ Reading => ClockAhead
    <2> SUFFICES ASSUME IInv, Reading, reading.k = 6, reading.since > 0, ~reading.mixed,
                        ~reading.slipped
                 PROVE  LET then == era[reading.since]
                        IN  /\ then.yr = era[now].yr /\ then.yr < 80 =>
                                 time >= dt2t(arch_clock(then))
                            /\ era[1].yr = era[now].yr /\ era[1].yr < 80 => boottime >= 0
                            /\ reading.since = now => time = dt2t(arch_clock(then))
      BY DEF ClockAhead
    <2> DEFINE s == reading.since
    <2>1. Dates
      BY DEF IInv
    <2>2. /\ era \in Eras /\ Len(era) \in Nat /\ now \in 1..Len(era) /\ s \in 1..now
          /\ s \in 1..s /\ 1 \in 1..s /\ s \in 1..Len(era) /\ 1 \in 1..Len(era)
      BY <2>1, ErasAssumption DEF Dates, Reading, Form
    <2>3. \A i \in 1..Len(era) : IsDate(era[i])
      BY <2>2, ErasAssumption
    <2>4. ASSUME era[s].yr = era[now].yr, era[s].yr < 80
          PROVE  time >= dt2t(arch_clock(era[s]))
      <3>1. dt2t(era[s]) <= dt2t(reading.dt) /\ dt2t(reading.dt) \in Int
        BY <2>1, <2>2, <2>4, TornReading
      <3>2. dt2t(arch_clock(era[s])) = dt2t(era[s]) /\ dt2t(era[s]) \in Int
        BY <2>2, <2>3, <2>4, ReadWhole
      <3> QED BY <3>1, <3>2 DEF time
    <2>5. ASSUME era[1].yr = era[now].yr, era[1].yr < 80
          PROVE  boottime >= 0
      <3>1. dt2t(era[1]) <= dt2t(reading.dt) /\ dt2t(reading.dt) \in Int
        BY <2>1, <2>2, <2>5, TornReading
      <3>2. dt2t(arch_clock(era[1])) = dt2t(era[1]) /\ dt2t(era[1]) \in Int
        BY <2>2, <2>3, <2>5, ReadWhole
      <3>3. boot_time = dt2t(arch_clock(era[1]))
        BY DEF Reading
      <3> QED BY <3>1, <3>2, <3>3 DEF boottime, time
    <2>6. ASSUME s = now
          PROVE  time = dt2t(arch_clock(era[s]))
      <3>1. PICK t \in [1..6 -> s..now], u \in [1..6 -> s..now] : ReadAt(t, u, reading, era)
        BY DEF Reading, ReadSince
      <3>2. \A i \in 1..6 : t[i] = s /\ u[i] = s
        <4> TAKE i \in 1..6
        <4>1. t[i] \in s..now /\ u[i] \in s..now
          OBVIOUS
        <4> QED BY <4>1, <2>2, <2>6
      <3>3. \A i \in 1..6 : reading.dt[Fields[i]] = Read(era[s], Fields[i])
        BY <3>1, <3>2 DEF ReadAt, Made, Read
      <3>4. \A f \in FieldNames : reading.dt[f] = Read(era[s], f)
        <4>1. \A f \in FieldNames : \E i \in 1..6 : f = Fields[i]
          BY FieldsNamed
        <4> QED BY <3>3, <4>1
      <3>5. arch_clock(era[s]) = [f \in FieldNames |-> Read(era[s], f)]
        BY FieldsNamed DEF arch_clock
      <3>6. reading.dt \in [FieldNames -> Int]
        BY DEF Reading, Form
      <3>7. reading.dt = arch_clock(era[s])
        BY <3>4, <3>5, <3>6
      <3> QED BY <3>7 DEF time
    <2> QED BY <2>4, <2>5, <2>6
  <1> QED BY <1>1, Invariant, ReadingInvariant, PTL
=============================================================================
