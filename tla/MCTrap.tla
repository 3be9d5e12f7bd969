------------------------------- MODULE MCTrap -------------------------------
(***************************************************************************)
(* Two threads, the timer and a line of each controller, a log that three  *)
(* messages do not fit in; and the clock around the end of every month of  *)
(* a leap year and of another, at ends of minutes, hours and years, and    *)
(* where the tens of a field change.                                       *)
(***************************************************************************)
EXTENDS Trap

At(yr, mon, day, hr, min, sec) ==
    [yr |-> yr, mon |-> mon, day |-> day, hr |-> hr, min |-> min, sec |-> sec]

MonthEnds ==
    {<<At(yr, mon, dpm(yr % 4 = 0)[mon], 23, 59, 59), At(yr, mon + 1, 1, 0, 0, 0)>> :
        yr \in {23, 24}, mon \in 1..11}
MCEras ==
    MonthEnds
      \cup {<<At(23, 5, 9, 12, 58, 59), At(23, 5, 9, 12, 59, 0), At(23, 5, 9, 19, 59, 59)>>,
            <<At(23, 5, 9, 19, 59, 59), At(23, 5, 10, 0, 0, 0)>>,
            <<At(0, 9, 30, 23, 59, 9), At(0, 9, 30, 23, 59, 10), At(0, 10, 1, 0, 9, 59)>>,
            <<At(23, 12, 31, 23, 59, 59), At(24, 1, 1, 0, 0, 0)>>,
            <<At(23, 1, 1, 0, 0, 0)>>,
            <<At(84, 2, 29, 23, 59, 59), At(84, 3, 1, 0, 0, 0)>>}
=============================================================================
