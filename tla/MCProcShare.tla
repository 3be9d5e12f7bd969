---------------------------- MODULE MCProcShare ----------------------------
(***************************************************************************)
(* The scheduler over time: Proc with two history variables, the ticks     *)
(* since a process was last created or destroyed, and for each process the *)
(* others that had a turn since it was created or last had its own.        *)
(***************************************************************************)
EXTENDS Proc

VARIABLES steady, passed

\* The ticks are needed up to one full record only.
ShareInit == Init /\ steady = 0 /\ passed = [p \in Pid |-> {}]
ShareNext ==
    /\ Next
    /\ steady' = IF processes' # processes THEN 0
                 ELSE IF schedule /\ steady < SCHED_RECCOUNT THEN steady + 1
                 ELSE steady
    /\ passed' = IF schedule
                 THEN [p \in Pid |-> IF p \in Live \ {curr_pid'} THEN passed[p] \cup {curr_pid'} ELSE {}]
                 ELSE passed

ShareSpec == ShareInit /\ [][ShareNext]_<<vars, steady, passed>> /\ Fairness

\* Once the process list has stood still for a whole record, the usages of any
\* two processes differ by one tick at most, and together they account for
\* every tick of the record (proc.c:51-58, 199-200, 276-282).
FairShare ==
    (steady = SCHED_RECCOUNT /\ curr_pid \in Live) =>
        /\ \A p, q \in Live : sched_getusage(p) <= sched_getusage(q) + 1
        /\ \A i \in 0..(SCHED_RECCOUNT - 1) : sched_rec[i] \in Live

\* While a process waits nobody has two turns: new processes go in front of the
\* list, which schedule starts again at its head, and are still not served before a
\* process that waits a second time round (proc.c:51-58, 114, 193-207).
NoOvertaking ==
    [][schedule => \A p \in Live \ {curr_pid'} : curr_pid' \notin passed[p]]_<<vars, steady, passed>>
=============================================================================
