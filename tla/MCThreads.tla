----------------------------- MODULE MCThreads -----------------------------
(* Instances of Threads for TLC: three stacks for the order of the list,    *)
(* two for the runs with fairness; the two mutexes of usb.c and usb-hub.c.  *)
EXTENDS Threads

CONSTANTS t1, t2, t3, resetlock, hublock

MCThread2 == {t1, t2}
MCThread3 == {t1, t2, t3}
MCMutex1 == {resetlock}
MCMutex2 == {resetlock, hublock}
MCLevel1 == [m \in MCMutex1 |-> 0]
MCLevel2 == [m \in MCMutex2 |-> IF m = resetlock THEN 0 ELSE 1]
=============================================================================
