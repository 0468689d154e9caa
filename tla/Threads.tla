------------------------------ MODULE Threads ------------------------------
(***************************************************************************)
(* The cooperative threads of stacks.c: the circular doubly linked list of *)
(* thread_info, the context switch, run_thread with its out-of-memory      *)
(* fallback, mutexes, wait_threads, and the preemption of option roms      *)
(* (start_preempt, finish_preempt, wait_preempt, check_preempt) together   *)
(* with the two users that depend on it: the EBDA move of pmm.c and the    *)
(* PMM entry point an option rom calls.                                    *)
(*                                                                         *)
(* There is one CPU.  Between two context switches the running thread      *)
(* cannot be interleaved with another one, so an action is a piece of code *)
(* of thread cur up to its next call into stacks.c.  What a thread function*)
(* does in between is arbitrary, within the discipline every caller in the *)
(* sources follows: mutexes are taken in the order of Level (usb.c takes   *)
(* cntl->resetlock, and usb-hub.c takes hub->lock inside it), run_thread is*)
(* called with no mutex held, and a thread function returns with none.     *)
(***************************************************************************)
EXTENDS Naturals, FiniteSets

CONSTANTS Thread,            (* pages memalign_tmphigh can hand out as stacks *)
          Main,              (* MainThread *)
          NoThread,          (* contents of a link field of a freed stack *)
          Mutex,             (* the struct mutex_s instances *)
          Level,             (* the order mutexes are taken in *)
          MaxJobs,           (* bound on the run_thread calls of one POST *)
          ThreadOptionRoms   (* CONFIG_THREAD_OPTIONROMS *)

ASSUME ThreadsAssumption ==
  /\ Main \notin Thread
  /\ NoThread \notin Thread \cup {Main}
  /\ Level \in [Mutex -> Nat]
  /\ MaxJobs \in Nat
  /\ ThreadOptionRoms \in BOOLEAN

VARIABLES
  next, pprev,  (* thread_info.next; the thread whose next field pprev points to *)
  live,         (* threads whose stack is allocated and linked *)
  cur,          (* getCurThread(): the stack %esp is on *)
  pc,           (* what each thread does when it has the CPU *)
  frames,       (* thread functions run by the fail: path of run_thread *)
  isLocked,     (* mutex_s.isLocked *)
  want,         (* the mutex a thread in mutex_lock wants *)
  holds,        (* mutexes a thread has locked and not unlocked *)
  CanPreempt,
  rom,          (* is an option rom on the main stack, and is it calling PMM *)
  oldpreempt,   (* CanPreempt saved by handle_pmm *)
  jobs          (* run_thread calls so far *)

ringVars == <<next, pprev, live>>
lockVars == <<isLocked, want, holds>>
romVars  == <<CanPreempt, rom, oldpreempt>>
vars == <<ringVars, cur, pc, frames, lockVars, romVars, jobs>>

Threads == Thread \cup {Main}

Init ==
  /\ next  = [t \in Threads |-> IF t = Main THEN Main ELSE NoThread]
  /\ pprev = [t \in Threads |-> IF t = Main THEN Main ELSE NoThread]
  /\ live = {Main}
  /\ cur = Main
  /\ pc = [t \in Threads |-> "run"]
  /\ frames = [t \in Threads |-> 0]
  /\ isLocked = [m \in Mutex |-> FALSE]
  /\ want = [t \in Threads |-> {}]
  /\ holds = [t \in Threads |-> {}]
  /\ CanPreempt = FALSE
  /\ rom = "none"
  /\ oldpreempt = FALSE
  /\ jobs = 0

-----------------------------------------------------------------------------
(* The running thread executes its own code at "run"; the main thread also *)
(* sits at "rom" while 16bit option rom code runs on its stack.            *)
Running(t) == cur = t /\ pc[t] = "run"
Goto(t, l) == pc' = [pc EXCEPT ![t] = l]

(* switch_next(): resume the stack of the next thread in the list. *)
switch_next(t) == cur' = next[t]

(* yield() with no other effect on the caller: a delay, or a poll of a     *)
(* device.  The irqs yield() lets in on the main thread find CanPreempt    *)
(* clear (or the list empty) and change nothing here.                      *)
yield(t) == /\ Running(t)
            /\ switch_next(t)
            /\ UNCHANGED <<ringVars, pc, frames, lockVars, romVars, jobs>>

-----------------------------------------------------------------------------
(* Creating and ending threads.                                            *)

LinkAfter(t, n) ==  \* a wrong link: the new thread would run after its creator's successor
  /\ next'  = [next  EXCEPT ![n] = next[t], ![t] = n]
  /\ pprev' = [pprev EXCEPT ![n] = t, ![next[t]] = n]

LinkNoBack(t, n) ==  \* a wrong link: the creator's pprev is left alone
  /\ next'  = [next  EXCEPT ![n] = t, ![pprev[t]] = n]
  /\ pprev' = [pprev EXCEPT ![n] = pprev[t]]

(* The four pointer assignments of run_thread: n goes just before t. *)
Link(t, n) ==
  /\ next'  = [next  EXCEPT ![n] = t, ![pprev[t]] = n]
  /\ pprev' = [pprev EXCEPT ![n] = pprev[t], ![t] = n]

(* run_thread(): link a new stack and call the function on it at once. *)
run_thread(t, n) ==
  /\ Running(t) /\ holds[t] = {} /\ jobs < MaxJobs
  /\ n \notin live
  /\ Link(t, n)
  /\ live' = live \cup {n}
  /\ cur' = n
  /\ jobs' = jobs + 1
  /\ UNCHANGED <<pc, frames, lockVars, romVars>>

(* run_thread() when memalign_tmphigh fails: func(data) on the own stack. *)
run_inline(t) ==
  /\ Running(t) /\ holds[t] = {} /\ jobs < MaxJobs
  /\ frames' = [frames EXCEPT ![t] = @ + 1]
  /\ jobs' = jobs + 1
  /\ UNCHANGED <<ringVars, cur, pc, lockVars, romVars>>

return_inline(t) ==
  /\ Running(t) /\ holds[t] = {} /\ frames[t] > 0
  /\ frames' = [frames EXCEPT ![t] = @ - 1]
  /\ UNCHANGED <<ringVars, cur, pc, lockVars, romVars, jobs>>

UnlinkNoBack(t) ==  \* a wrong unlink: the successor keeps pointing at the freed stack
  /\ pprev' = [pprev EXCEPT ![t] = NoThread]
  /\ next'  = [next  EXCEPT ![pprev[t]] = next[t], ![t] = NoThread]

Unlink(t) ==
  /\ pprev' = [pprev EXCEPT ![next[t]] = pprev[t], ![t] = NoThread]
  /\ next'  = [next  EXCEPT ![pprev[t]] = next[t], ![t] = NoThread]

(* The function of run_thread returns: __end_thread() on the next stack. *)
end_thread(t) ==
  /\ Running(t) /\ t # Main /\ holds[t] = {} /\ frames[t] = 0
  /\ Unlink(t)
  /\ live' = live \ {t}
  /\ cur' = next[t]
  /\ UNCHANGED <<pc, frames, lockVars, romVars, jobs>>

(* wait_threads(), called by POST and the boot menu on the main stack. *)
wait_threads_enter ==
  /\ Running(Main) /\ frames[Main] = 0 /\ holds[Main] = {}
  /\ Goto(Main, "waitthreads")
  /\ UNCHANGED <<ringVars, cur, frames, lockVars, romVars, jobs>>

wait_threads_loop ==
  /\ cur = Main /\ pc[Main] = "waitthreads"
  /\ IF next[Main] # Main
     THEN switch_next(Main) /\ UNCHANGED pc
     ELSE Goto(Main, "run") /\ UNCHANGED cur
  /\ UNCHANGED <<ringVars, frames, lockVars, romVars, jobs>>

-----------------------------------------------------------------------------
(* Mutexes.                                                                *)

(* mutex_lock() is only ever called by a function given to run_thread: the *)
(* main thread gets there by the fail: path alone.                         *)
mutex_lock_enter(t, m) ==
  /\ Running(t) /\ (t = Main => frames[t] > 0)
  /\ \A h \in holds[t] : Level[h] < Level[m]
  /\ want' = [want EXCEPT ![t] = {m}]
  /\ Goto(t, "lock")
  /\ UNCHANGED <<ringVars, cur, frames, isLocked, holds, romVars, jobs>>

Take(t, m) ==
  /\ isLocked' = [isLocked EXCEPT ![m] = TRUE]
  /\ holds' = [holds EXCEPT ![t] = @ \cup {m}]
  /\ want' = [want EXCEPT ![t] = {}]
  /\ Goto(t, "run")

lock_once(t) ==  \* a wrong loop: the flag is not tested again after the yield
  /\ cur = t /\ pc[t] = "lock"
  /\ \E m \in want[t] :
       /\ Take(t, m)
       /\ IF isLocked[m] THEN switch_next(t) ELSE UNCHANGED cur
  /\ UNCHANGED <<ringVars, frames, romVars, jobs>>

(* One round of the loop of mutex_lock(). *)
mutex_lock_loop(t) ==
  /\ cur = t /\ pc[t] = "lock"
  /\ \E m \in want[t] :
       IF isLocked[m]
       THEN switch_next(t) /\ UNCHANGED <<lockVars, pc>>
       ELSE Take(t, m) /\ UNCHANGED cur
  /\ UNCHANGED <<ringVars, frames, romVars, jobs>>

mutex_unlock(t, m) ==
  /\ Running(t) /\ m \in holds[t]
  /\ isLocked' = [isLocked EXCEPT ![m] = FALSE]
  /\ holds' = [holds EXCEPT ![t] = @ \ {m}]
  /\ UNCHANGED <<ringVars, cur, pc, frames, want, romVars, jobs>>

-----------------------------------------------------------------------------
(* Preemption of option roms.                                              *)

(* __callrom(): start_preempt() and call16big() into the rom. *)
start_preempt ==
  /\ Running(Main) /\ frames[Main] = 0 /\ holds[Main] = {}
  /\ CanPreempt' = ThreadOptionRoms
  /\ rom' = "run"
  /\ Goto(Main, "rom")
  /\ UNCHANGED <<ringVars, cur, frames, lockVars, oldpreempt, jobs>>

(* The RTC irq: handle_70() -> check_preempt() -> yield_preempt(). *)
check_preempt ==
  /\ cur = Main /\ pc[Main] = "rom"
  /\ CanPreempt /\ next[Main] # Main
  /\ switch_next(Main)
  /\ UNCHANGED <<ringVars, pc, frames, lockVars, romVars, jobs>>

(* The rom returns; finish_preempt() clears the flag and yields. *)
finish_preempt ==
  /\ cur = Main /\ pc[Main] = "rom"
  /\ CanPreempt' = FALSE
  /\ rom' = "none"
  /\ Goto(Main, "run")
  /\ switch_next(Main)
  /\ UNCHANGED <<ringVars, frames, lockVars, oldpreempt, jobs>>

(* A thread that has to move the EBDA (allocExpandSpace) or to start the   *)
(* companion controllers (ehci_note_port) calls wait_preempt() first.      *)
wait_preempt_enter(t) ==
  /\ Running(t)
  /\ Goto(t, "waitpreempt")
  /\ UNCHANGED <<ringVars, cur, frames, lockVars, romVars, jobs>>

wait_preempt_once(t) ==  \* a wrong loop: one yield is taken to be enough
  /\ cur = t /\ pc[t] = "waitpreempt"
  /\ Goto(t, "move")
  /\ IF CanPreempt THEN switch_next(t) ELSE UNCHANGED cur
  /\ UNCHANGED <<ringVars, frames, lockVars, romVars, jobs>>

wait_preempt_loop(t) ==
  /\ cur = t /\ pc[t] = "waitpreempt"
  /\ IF CanPreempt
     THEN switch_next(t) /\ UNCHANGED pc
     ELSE Goto(t, "move") /\ UNCHANGED cur
  /\ UNCHANGED <<ringVars, frames, lockVars, romVars, jobs>>

(* zonelow_expand() / relocate_ebda(), with no yield since wait_preempt(); *)
(* when it was the rom's own PMM call, handle_pmm() then restores the flag.*)
move_ebda(t) ==
  /\ cur = t /\ pc[t] = "move"
  /\ IF t = Main /\ rom = "pmm"
     THEN /\ CanPreempt' = oldpreempt
          /\ rom' = "run"
          /\ Goto(t, "rom")
     ELSE /\ Goto(t, "run")
          /\ UNCHANGED <<CanPreempt, rom>>
  /\ UNCHANGED <<ringVars, cur, frames, lockVars, oldpreempt, jobs>>

handle_pmm_keep ==  \* a wrong entry: CanPreempt is left set
  /\ cur = Main /\ pc[Main] = "rom"
  /\ oldpreempt' = CanPreempt
  /\ rom' = "pmm"
  /\ Goto(Main, "waitpreempt")
  /\ UNCHANGED <<ringVars, cur, frames, lockVars, CanPreempt, jobs>>

(* The rom asks PMM for low memory: handle_pmm() -> allocExpandSpace(). *)
handle_pmm ==
  /\ cur = Main /\ pc[Main] = "rom"
  /\ oldpreempt' = CanPreempt
  /\ CanPreempt' = FALSE
  /\ rom' = "pmm"
  /\ Goto(Main, "waitpreempt")
  /\ UNCHANGED <<ringVars, cur, frames, lockVars, jobs>>

-----------------------------------------------------------------------------
Step(t) ==
  \/ yield(t)
  \/ \E n \in Thread : run_thread(t, n)
  \/ run_inline(t)
  \/ return_inline(t)
  \/ end_thread(t)
  \/ \E m \in Mutex : mutex_lock_enter(t, m) \/ mutex_unlock(t, m)
  \/ mutex_lock_loop(t)
  \/ wait_preempt_enter(t)
  \/ wait_preempt_loop(t)
  \/ move_ebda(t)

Next ==
  \/ \E t \in Threads : Step(t)
  \/ wait_threads_enter
  \/ wait_threads_loop
  \/ start_preempt
  \/ check_preempt
  \/ finish_preempt
  \/ handle_pmm

Spec == Init /\ [][Next]_vars

(***************************************************************************)
(* Fairness.  CpuRuns: the CPU does not stop in the code of stacks.c; the  *)
(* code between two yields is finite, so a thread that can yield again and *)
(* again does; and the periodic RTC irq that start_preempt() turned on     *)
(* keeps coming (the PIC latches it while irqs are off, hence SF).         *)
(* CodeReturns: the code outside stacks.c is finite; every delay and device*)
(* poll in a thread function is bounded by a timeout, so a function that   *)
(* can release its mutex or return over and over does so in the end, and   *)
(* so does an option rom.                                                  *)
(***************************************************************************)
CpuRuns ==
  /\ WF_vars(wait_threads_loop)
  /\ SF_vars(check_preempt)
  /\ \A t \in Threads :
       /\ SF_vars(yield(t))
       /\ WF_vars(mutex_lock_loop(t))
       /\ WF_vars(wait_preempt_loop(t))
       /\ WF_vars(move_ebda(t))

CodeReturns ==
  /\ SF_vars(finish_preempt)
  /\ \A t \in Threads :
       /\ SF_vars(return_inline(t))
       /\ SF_vars(end_thread(t))
       /\ \A m \in Mutex : SF_vars(mutex_unlock(t, m))

FairSpec == Spec /\ CpuRuns

-----------------------------------------------------------------------------
(* Type correctness of the scheduler's state (struct thread_info, mutex_s, *)
(* CanPreempt).                                                            *)
TypeOK ==
  /\ next \in [Threads -> Threads \cup {NoThread}]
  /\ pprev \in [Threads -> Threads \cup {NoThread}]
  /\ live \in SUBSET Threads
  /\ cur \in Threads
  /\ pc \in [Threads -> {"run", "lock", "waitthreads", "rom",
                         "waitpreempt", "move"}]
  /\ frames \in [Threads -> Nat]
  /\ isLocked \in [Mutex -> BOOLEAN]
  /\ want \in [Threads -> SUBSET Mutex]
  /\ holds \in [Threads -> SUBSET Mutex]
  /\ CanPreempt \in BOOLEAN
  /\ rom \in {"none", "run", "pmm"}
  /\ oldpreempt \in BOOLEAN
  /\ jobs \in Nat

(* No link leads to a freed stack, and next and pprev undo each other.     *)
LinksOK ==
  /\ Main \in live /\ cur \in live
  /\ \A t \in live : /\ next[t] \in live /\ pprev[next[t]] = t
                     /\ pprev[t] \in live /\ next[pprev[t]] = t
(* The list is one circle.                                                 *)
AllReached ==
  \A S \in SUBSET live :
    Main \in S /\ (\A t \in S : next[t] \in S) => S = live

(* The list is a consistent circle of exactly the allocated stacks, and    *)
(* the CPU is never on a freed one.  (A stack cut off in a circle of its   *)
(* own has consistent links, but yield() would not come to it and          *)
(* wait_threads() on the main thread would not wait for it.)               *)
RingOK == LinksOK /\ AllReached

(* Two threads are never between mutex_lock and mutex_unlock of one mutex, *)
(* and the flag is set exactly while someone is.                           *)
MutexOK ==
  \A m \in Mutex :
    /\ \A s, t \in Threads : m \in holds[s] /\ m \in holds[t] => s = t
    /\ isLocked[m] <=> \E t \in Threads : m \in holds[t]

(* pmm.c:319: "Make sure to not move ebda while an optionrom is running":  *)
(* a thread that got through wait_preempt() finds no rom on the main stack.*)
NoMoveUnderRom ==
  \A t \in live \ {Main} : pc[t] = "move" => rom = "none"

(* The list implements the queue of RoundRobin: whatever the pointers do,  *)
(* threads run in turn, none is lost and none is entered twice.            *)
RingOrder ==
  LET nth[i \in 1..Cardinality(live)] == IF i = 1 THEN cur ELSE next[nth[i - 1]]
  IN nth
Queue == INSTANCE RoundRobin WITH queue <- RingOrder
RunsInTurn == Queue!Spec

(* wait_threads() returns, provided that the code outside stacks.c is      *)
(* finite: POST goes on once hardware init is done.                        *)
WaitThreadsReturns ==
  CodeReturns => (pc[Main] = "waitthreads" ~> pc[Main] # "waitthreads")

(* Under the same proviso a thread that waits for a mutex gets it, however *)
(* often others take it between the unlock and its next turn.              *)
LockGranted == CodeReturns => \A t \in Thread : pc[t] = "lock" ~> pc[t] # "lock"

(* A PMM request of an option rom is answered, although handle_pmm() runs  *)
(* into the wait_preempt() that waits for that very rom.                   *)
PmmAnswered == rom = "pmm" ~> rom = "run"

(* CONFIG_THREAD_OPTIONROMS: hardware init goes on while a rom runs; every *)
(* thread keeps getting the CPU, even under a rom that never returns.      *)
RunsDuringRom ==
  \A t \in Thread : t \in live ~> cur = t \/ t \notin live

(* The four together: nobody who waits in stacks.c waits for ever, and     *)
(* POST and the init threads go on under option roms.                      *)
ThreadsProgress == WaitThreadsReturns /\ LockGranted /\ PmmAnswered /\ RunsDuringRom
=============================================================================
