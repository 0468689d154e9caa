---------------------------- MODULE ThreadsProofs ----------------------------
(***************************************************************************)
(* Proofs about Threads, for any number of stacks, mutexes and run_thread  *)
(* calls.  RingInv is the inductive invariant of the linked list: links    *)
(* that undo each other (LinksOK) are not enough, because removing a thread *)
(* that points to itself would leave the CPU on a freed stack; that the    *)
(* list is one circle (AllReached) excludes it.  PreemptInv says who can be*)
(* on the CPU while an option rom is on the main stack: nobody else, unless*)
(* CanPreempt is set.  WalkInv says that the links list the threads once   *)
(* each, which is the queue of RoundRobin.                                 *)
(***************************************************************************)
EXTENDS Threads, Integers, Sequences, FiniteSetTheorems, SequenceTheorems, TLAPS

USE ThreadsAssumption DEF Threads, ThreadsAssumption

Ring == LinksOK /\ AllReached

-----------------------------------------------------------------------------
(* The four assignments of run_thread insert n into the circle before t.   *)
LEMMA LinkKeepsRing ==
  ASSUME TypeOK, Ring, cur' \in live',
         NEW t \in live, NEW n \in Thread, n \notin live,
         Link(t, n), live' = live \cup {n}
  PROVE  Ring'
<1>1. LinksOK'
  <2>1. /\ next' \in [Threads -> Threads \cup {NoThread}]
        /\ pprev' \in [Threads -> Threads \cup {NoThread}]
        /\ live \subseteq Threads /\ t \in Threads /\ n \in Threads
    BY DEF TypeOK, Link
  <2>2. pprev[t] \in live /\ next[pprev[t]] = t /\ Main \in live
    BY DEF Ring, LinksOK
  <2>3. /\ next'[n] = t /\ next'[pprev[t]] = n
        /\ \A s \in live \ {pprev[t]} : next'[s] = next[s]
        /\ pprev'[n] = pprev[t] /\ pprev'[t] = n
        /\ \A s \in live \ {t} : pprev'[s] = pprev[s]
    BY <2>1, <2>2 DEF TypeOK, Link
  <2>4. ASSUME NEW s \in live'
        PROVE  /\ next'[s] \in live' /\ pprev'[next'[s]] = s
               /\ pprev'[s] \in live' /\ next'[pprev'[s]] = s
    <3>1. CASE s = n
      BY <3>1, <2>2, <2>3
    <3>2. CASE s \in live
      <4>1. next[s] \in live /\ pprev[next[s]] = s /\ pprev[s] \in live /\ next[pprev[s]] = s
        BY <3>2 DEF Ring, LinksOK
      <4>2. next'[s] \in live' /\ pprev'[next'[s]] = s
        BY <4>1, <3>2, <2>2, <2>3
      <4>3. pprev'[s] \in live' /\ next'[pprev'[s]] = s
        BY <4>1, <3>2, <2>2, <2>3
      <4> QED BY <4>2, <4>3
    <3> QED BY <3>1, <3>2
  <2> QED BY <2>2, <2>4 DEF LinksOK
<1>2. AllReached'
  <2> SUFFICES ASSUME NEW S \in SUBSET live', Main \in S, \A s \in S : next'[s] \in S
               PROVE  S = live'
    BY DEF AllReached
  <2> DEFINE S0 == S \ {n}
  <2>1. live \subseteq Threads /\ n \in Threads /\ Main \in live
        /\ pprev[t] \in live /\ next[pprev[t]] = t
    BY DEF TypeOK, Ring, LinksOK
  <2>2. /\ next'[n] = t /\ next'[pprev[t]] = n
        /\ \A s \in live \ {pprev[t]} : next'[s] = next[s]
    BY <2>1 DEF TypeOK, Link
  <2>3. S0 \in SUBSET live /\ Main \in S0
    BY <2>1
  <2>4. \A s \in S0 : next[s] \in S0
    <3> SUFFICES ASSUME NEW s \in S0 PROVE next[s] \in S0
      OBVIOUS
    <3>1. next[s] \in live
      BY <2>3 DEF Ring, LinksOK
    <3>2. CASE s = pprev[t]
      BY <3>2, <2>1, <2>2
    <3>3. CASE s # pprev[t]
      BY <3>3, <3>1, <2>2, <2>3
    <3> QED BY <3>2, <3>3
  <2>5. S0 = live
    BY <2>3, <2>4 DEF Ring, AllReached
  <2>6. n \in S
    BY <2>1, <2>2, <2>5
  <2> QED BY <2>5, <2>6
<1> QED BY <1>1, <1>2 DEF Ring

(* __end_thread takes t out of the circle; the thread resumed is another.  *)
LEMMA UnlinkKeepsRing ==
  ASSUME TypeOK, Ring,
         NEW t \in live, t # Main,
         Unlink(t), live' = live \ {t}, cur' = next[t]
  PROVE  Ring'
<1>1. /\ live \subseteq Threads /\ Main \in live
      /\ \A s \in live : /\ next[s] \in live /\ pprev[next[s]] = s
                         /\ pprev[s] \in live /\ next[pprev[s]] = s
  BY DEF TypeOK, Ring, LinksOK
<1>2. next[t] # t
  <2> SUFFICES ASSUME next[t] = t PROVE FALSE
    OBVIOUS
  <2>1. \A s \in live \ {t} : next[s] \in live \ {t}
    BY <1>1
  <2> QED BY <2>1, <1>1 DEF Ring, AllReached
<1>3. pprev[t] # t
  BY <1>1, <1>2
<1>4. /\ next'[pprev[t]] = next[t]
      /\ \A s \in live \ {t, pprev[t]} : next'[s] = next[s]
      /\ pprev'[next[t]] = pprev[t]
      /\ \A s \in live \ {t, next[t]} : pprev'[s] = pprev[s]
  BY <1>1, <1>2, <1>3 DEF TypeOK, Unlink
<1>5. LinksOK'
  <2>1. ASSUME NEW s \in live'
        PROVE  /\ next'[s] \in live' /\ pprev'[next'[s]] = s
               /\ pprev'[s] \in live' /\ next'[pprev'[s]] = s
    <3>1. s \in live /\ s # t
      OBVIOUS
    <3>2. next'[s] \in live' /\ pprev'[next'[s]] = s
      BY <3>1, <1>1, <1>2, <1>3, <1>4
    <3>3. pprev'[s] \in live' /\ next'[pprev'[s]] = s
      BY <3>1, <1>1, <1>2, <1>3, <1>4
    <3> QED BY <3>2, <3>3
  <2>2. cur' \in live' /\ Main \in live'
    BY <1>1, <1>2
  <2> QED BY <2>1, <2>2 DEF LinksOK
<1>6. AllReached'
  <2> SUFFICES ASSUME NEW S \in SUBSET live', Main \in S, \A s \in S : next'[s] \in S
               PROVE  S = live'
    BY DEF AllReached
  <2>1. CASE pprev[t] \in S
    <3>1. next[t] \in S
      BY <2>1, <1>4
    <3>2. \A s \in S \cup {t} : next[s] \in S \cup {t}
      BY <3>1, <1>1, <1>4
    <3>3. S \cup {t} = live
      BY <3>2 DEF Ring, AllReached
    <3> QED BY <3>3
  <2>2. CASE pprev[t] \notin S
    <3>1. \A s \in S : next[s] \in S
      BY <2>2, <1>4
    <3>2. S = live
      BY <3>1 DEF Ring, AllReached
    <3> QED BY <3>2
  <2> QED BY <2>1, <2>2
<1> QED BY <1>5, <1>6 DEF Ring

-----------------------------------------------------------------------------
RingInv == TypeOK /\ Ring

(* The actions that only move the CPU along the list, or not at all.       *)
LEMMA MovesKeepRing ==
  ASSUME Ring, UNCHANGED ringVars, cur' = cur \/ cur' = next[cur]
  PROVE  Ring' /\ cur' \in live
BY DEF Ring, LinksOK, AllReached, ringVars

(* Every step of a thread keeps the ring. *)
LEMMA RingInvInductive ==
  ASSUME RingInv, [Next]_vars PROVE RingInv'
<1> USE DEF RingInv
<1>1. /\ cur \in live /\ Main \in live /\ live \subseteq Threads
      /\ next[cur] \in live /\ pprev[cur] \in live
  BY DEF TypeOK, Ring, LinksOK
<1>2. ASSUME NEW t \in Threads, yield(t) PROVE RingInv'
  <2>1. UNCHANGED ringVars /\ cur' = next[cur]
    BY <1>2 DEF yield, Running, switch_next
  <2>2. Ring' /\ cur' \in live
    BY <2>1, MovesKeepRing
  <2>3. TypeOK'
    BY <1>1, <1>2, <2>2 DEF TypeOK, yield, ringVars, lockVars, romVars
  <2> QED BY <2>2, <2>3
<1>3. ASSUME NEW t \in Threads, NEW n \in Thread, run_thread(t, n) PROVE RingInv'
  <2>1. t = cur /\ n \notin live /\ Link(t, n) /\ live' = live \cup {n} /\ cur' = n
    BY <1>3 DEF run_thread, Running
  <2>2. Ring'
    BY <1>1, <2>1, LinkKeepsRing
  <2>3. TypeOK'
    BY <1>1, <1>3, <2>1 DEF TypeOK, run_thread, Link, lockVars, romVars
  <2> QED BY <2>2, <2>3
<1>4. ASSUME NEW t \in Threads, end_thread(t) PROVE RingInv'
  <2>1. t = cur /\ t # Main /\ Unlink(t) /\ live' = live \ {t} /\ cur' = next[t]
    BY <1>4 DEF end_thread, Running
  <2>2. Ring'
    BY <1>1, <2>1, UnlinkKeepsRing
  <2>3. TypeOK'
    BY <1>1, <1>4, <2>1 DEF TypeOK, end_thread, Unlink, lockVars, romVars
  <2> QED BY <2>2, <2>3
<1>5. ASSUME NEW t \in Threads,
             \/ run_inline(t) \/ return_inline(t) \/ mutex_lock_loop(t)
             \/ wait_preempt_enter(t) \/ wait_preempt_loop(t) \/ move_ebda(t)
             \/ \E m \in Mutex : mutex_lock_enter(t, m) \/ mutex_unlock(t, m)
      PROVE  RingInv'
  <2>1. UNCHANGED ringVars /\ cur' \in {cur, next[cur]}
    BY <1>5 DEF run_inline, return_inline, mutex_lock_loop, wait_preempt_enter,
                wait_preempt_loop, move_ebda, mutex_lock_enter, mutex_unlock,
                switch_next, Running, ringVars
  <2>2. Ring' /\ cur' \in live
    BY <2>1, MovesKeepRing
  <2> USE DEF TypeOK, ringVars, lockVars, romVars, Goto
  <2>3. CASE run_inline(t)
    BY <1>1, <2>2, <2>3 DEF run_inline
  <2>4. CASE return_inline(t)
    BY <1>1, <2>2, <2>4 DEF return_inline
  <2>5. CASE mutex_lock_loop(t)
    <3>1. PICK m \in want[t] : (UNCHANGED lockVars /\ UNCHANGED pc) \/ Take(t, m)
      BY <2>5 DEF mutex_lock_loop
    <3>2. m \in Mutex
      BY <3>1
    <3>3. /\ isLocked' \in [Mutex -> BOOLEAN] /\ want' \in [Threads -> SUBSET Mutex]
          /\ holds' \in [Threads -> SUBSET Mutex]
      <4>1. CASE UNCHANGED lockVars
        BY <4>1
      <4>2. CASE Take(t, m)
        <5>1. isLocked' = [isLocked EXCEPT ![m] = TRUE]
          BY <4>2 DEF Take
        <5>2. holds' = [holds EXCEPT ![t] = @ \cup {m}] /\ want' = [want EXCEPT ![t] = {}]
          BY <4>2 DEF Take
        <5> QED BY <3>2, <5>1, <5>2
      <4> QED BY <3>1, <4>1, <4>2
    <3>4. pc' = pc \/ pc' = [pc EXCEPT ![t] = "run"]
      BY <3>1 DEF Take
    <3>5. UNCHANGED <<ringVars, frames, romVars, jobs>>
      BY <2>5 DEF mutex_lock_loop
    <3> QED BY <1>1, <2>2, <3>3, <3>4, <3>5
  <2>6. CASE wait_preempt_enter(t) \/ wait_preempt_loop(t)
    BY <1>1, <2>2, <2>6 DEF wait_preempt_enter, wait_preempt_loop
  <2>7. CASE move_ebda(t)
    BY <1>1, <2>2, <2>7 DEF move_ebda
  <2>8. ASSUME NEW m \in Mutex, mutex_lock_enter(t, m) \/ mutex_unlock(t, m)
        PROVE  RingInv'
    <3>1. CASE mutex_lock_enter(t, m)
      <4>1. UNCHANGED <<ringVars, cur, frames, isLocked, holds, romVars, jobs>>
        BY <3>1 DEF mutex_lock_enter
      <4>2. want' \in [Threads -> SUBSET Mutex] /\ pc' = [pc EXCEPT ![t] = "lock"]
        BY <3>1 DEF mutex_lock_enter
      <4> QED BY <2>2, <4>1, <4>2
    <3>2. CASE mutex_unlock(t, m)
      <4>1. UNCHANGED <<ringVars, cur, pc, frames, want, romVars, jobs>>
        BY <3>2 DEF mutex_unlock
      <4>2. isLocked' \in [Mutex -> BOOLEAN] /\ holds' \in [Threads -> SUBSET Mutex]
        BY <3>2 DEF mutex_unlock
      <4> QED BY <2>2, <4>1, <4>2
    <3> QED BY <2>8, <3>1, <3>2
  <2> QED BY <1>5, <2>3, <2>4, <2>5, <2>6, <2>7, <2>8
<1>6. ASSUME \/ wait_threads_enter \/ wait_threads_loop \/ start_preempt
             \/ check_preempt \/ finish_preempt \/ handle_pmm
      PROVE  RingInv'
  <2>1. UNCHANGED ringVars /\ cur' \in {cur, next[cur]}
    BY <1>6 DEF wait_threads_enter, wait_threads_loop, start_preempt, check_preempt,
                finish_preempt, handle_pmm, switch_next, Running, ringVars
  <2>2. Ring' /\ cur' \in live
    BY <2>1, MovesKeepRing
  <2>3. TypeOK'
    BY <1>1, <1>6, <2>2
    DEF TypeOK, ringVars, lockVars, romVars, Goto, wait_threads_enter,
        wait_threads_loop, start_preempt, check_preempt, finish_preempt, handle_pmm
  <2> QED BY <2>2, <2>3
<1>7. CASE UNCHANGED vars
  BY <1>7 DEF vars, ringVars, lockVars, romVars, TypeOK, Ring, LinksOK, AllReached
<1> QED BY <1>2, <1>3, <1>4, <1>5, <1>6, <1>7 DEF Next, Step

(* The main thread alone in the ring. *)
LEMMA RingInvInit == Init => RingInv
<1> SUFFICES ASSUME Init PROVE RingInv
  OBVIOUS
<1> USE DEF Init
<1>1. next \in [Threads -> Threads \cup {NoThread}] /\ pprev \in [Threads -> Threads \cup {NoThread}]
  OBVIOUS
<1>2. TypeOK
  BY <1>1 DEF TypeOK
<1>3. LinksOK /\ AllReached
  BY DEF LinksOK, AllReached
<1> QED BY <1>2, <1>3 DEF RingInv, Ring

(* It holds throughout. *)
LEMMA RingInvariant == Spec => []RingInv
BY RingInvInit, RingInvInductive, PTL DEF Spec

(* Whatever the threads do, every variable keeps its type; in particular   *)
(* the CPU always has a thread to run.                                     *)
THEOREM Typing == Spec => []TypeOK
BY RingInvariant, PTL DEF RingInv

(* run_thread and __end_thread keep the list a consistent circle of exactly*)
(* the allocated stacks: no live stack is ever cut off the circle that     *)
(* yield() walks, and no link leads to a freed one.                        *)
THEOREM RingCorrect == Spec => []RingOK
<1>1. RingInv => RingOK
  BY DEF RingInv, Ring, RingOK
<1> QED BY <1>1, RingInvariant, PTL

-----------------------------------------------------------------------------
(* A thread takes a mutex only when its flag is clear, so nobody holds it. *)
LEMMA MutexInductive ==
  ASSUME RingInv, MutexOK, [Next]_vars PROVE MutexOK'
<1> USE DEF RingInv, TypeOK, MutexOK
<1>1. ASSUME NEW t \in Threads, mutex_lock_loop(t) PROVE MutexOK'
  <2>1. PICK m \in want[t] : IF isLocked[m] THEN UNCHANGED lockVars ELSE Take(t, m)
    BY <1>1 DEF mutex_lock_loop
  <2>2. CASE isLocked[m]
    BY <2>1, <2>2 DEF lockVars
  <2>3. CASE ~isLocked[m]
    <3>1. m \in Mutex /\ \A s \in Threads : m \notin holds[s]
      BY <2>3
    <3>2. /\ isLocked' = [isLocked EXCEPT ![m] = TRUE]
          /\ holds' = [holds EXCEPT ![t] = @ \cup {m}]
      BY <2>1, <2>3 DEF Take
    <3> QED BY <3>1, <3>2
  <2> QED BY <2>2, <2>3
<1>2. ASSUME NEW t \in Threads, NEW m \in Mutex, mutex_unlock(t, m) PROVE MutexOK'
  BY <1>2 DEF mutex_unlock
<1>3. ASSUME UNCHANGED <<isLocked, holds>> PROVE MutexOK'
  BY <1>3
<1>4. ASSUME NEW t \in Threads, Step(t) PROVE MutexOK'
  <2>1. CASE \E m \in Mutex : mutex_unlock(t, m)
    BY <1>2, <2>1
  <2>2. CASE mutex_lock_loop(t)
    BY <1>1, <2>2
  <2>3. CASE \/ yield(t) \/ (\E n \in Thread : run_thread(t, n)) \/ run_inline(t)
             \/ return_inline(t) \/ end_thread(t)
             \/ (\E m \in Mutex : mutex_lock_enter(t, m))
             \/ wait_preempt_enter(t) \/ wait_preempt_loop(t) \/ move_ebda(t)
    BY <1>3, <2>3 DEF yield, run_thread, run_inline, return_inline, end_thread,
         mutex_lock_enter, wait_preempt_enter, wait_preempt_loop, move_ebda, lockVars
  <2> QED BY <1>4, <2>1, <2>2, <2>3 DEF Step
<1>5. ASSUME \/ wait_threads_enter \/ wait_threads_loop \/ start_preempt
             \/ check_preempt \/ finish_preempt \/ handle_pmm \/ UNCHANGED vars
      PROVE  MutexOK'
  BY <1>3, <1>5 DEF wait_threads_enter, wait_threads_loop, start_preempt,
       check_preempt, finish_preempt, handle_pmm, vars, lockVars
<1> QED BY <1>4, <1>5 DEF Next

(* mutex_lock and mutex_unlock exclude each other, for any number of       *)
(* threads and mutexes.                                                    *)
THEOREM MutualExclusion == Spec => []MutexOK
<1>1. Init => MutexOK
  BY DEF Init, MutexOK
<1> QED BY <1>1, MutexInductive, RingInvariant, PTL DEF Spec

-----------------------------------------------------------------------------
(* While a rom is on the main stack and CanPreempt is clear, the main      *)
(* thread keeps the CPU; a thread past wait_preempt() keeps it too, and    *)
(* found CanPreempt clear.                                                 *)
PreemptInv ==
  /\ rom = "run" <=> pc[Main] = "rom"
  /\ rom = "pmm" => pc[Main] \in {"waitpreempt", "move"} /\ ~CanPreempt
  /\ rom # "none" /\ ~CanPreempt => cur = Main
  /\ \A t \in Threads : pc[t] = "move" => cur = t /\ ~CanPreempt

(* Every step keeps the preemption counters. *)
LEMMA PreemptInvInductive ==
  ASSUME RingInv, PreemptInv, [Next]_vars PROVE PreemptInv'
<1> USE DEF RingInv, TypeOK, PreemptInv, Goto
<1>1. Main \in Threads /\ cur \in Threads
  OBVIOUS
<1>2. ASSUME NEW t \in Threads,
             \/ yield(t) \/ (\E n \in Thread : run_thread(t, n)) \/ run_inline(t)
             \/ return_inline(t) \/ end_thread(t)
             \/ \E m \in Mutex : mutex_unlock(t, m)
      PROVE  PreemptInv'
  <2>1. pc[t] = "run" /\ cur = t /\ UNCHANGED <<pc, romVars>>
    BY <1>2 DEF yield, run_thread, run_inline, return_inline, end_thread,
                mutex_unlock, Running
  <2>2. rom # "none" => CanPreempt
    BY <2>1
  <2>3. \A s \in Threads : pc[s] # "move"
    BY <2>1
  <2> QED BY <2>1, <2>2, <2>3 DEF romVars
<1>3. ASSUME NEW t \in Threads, NEW m \in Mutex, mutex_lock_enter(t, m) PROVE PreemptInv'
  BY <1>1, <1>3 DEF mutex_lock_enter, Running, romVars
<1>4. ASSUME NEW t \in Threads, mutex_lock_loop(t) PROVE PreemptInv'
  <2>1. /\ pc[t] = "lock" /\ cur = t /\ UNCHANGED romVars
        /\ pc' = pc \/ pc' = [pc EXCEPT ![t] = "run"]
    BY <1>4 DEF mutex_lock_loop, Take
  <2>2. (rom # "none" => CanPreempt) /\ \A s \in Threads : pc[s] # "move"
    BY <2>1
  <2> QED BY <1>1, <2>1, <2>2 DEF romVars
<1>5. ASSUME NEW t \in Threads, wait_preempt_enter(t) PROVE PreemptInv'
  BY <1>1, <1>5 DEF wait_preempt_enter, Running, romVars
<1>6. ASSUME NEW t \in Threads, wait_preempt_loop(t) PROVE PreemptInv'
  BY <1>1, <1>6 DEF wait_preempt_loop, romVars
<1>7. ASSUME NEW t \in Threads, move_ebda(t) PROVE PreemptInv'
  BY <1>1, <1>7 DEF move_ebda
<1>8. ASSUME wait_threads_enter \/ start_preempt \/ handle_pmm PROVE PreemptInv'
  BY <1>1, <1>8 DEF wait_threads_enter, start_preempt, handle_pmm, Running, romVars
<1>9. ASSUME wait_threads_loop \/ check_preempt \/ finish_preempt PROVE PreemptInv'
  BY <1>1, <1>9 DEF wait_threads_loop, check_preempt, finish_preempt, romVars
<1>10. CASE UNCHANGED vars
  BY <1>10 DEF vars, romVars
<1> QED BY <1>2, <1>3, <1>4, <1>5, <1>6, <1>7, <1>8, <1>9, <1>10 DEF Next, Step

(* wait_preempt() keeps every other thread from moving the EBDA under a    *)
(* running option rom, for any number of threads.                          *)
THEOREM NoMove == Spec => []NoMoveUnderRom
<1>1. Init => PreemptInv
  BY DEF Init, PreemptInv
<1>2. RingInv /\ PreemptInv => NoMoveUnderRom
  BY DEF RingInv, TypeOK, PreemptInv, NoMoveUnderRom
<1> QED BY <1>1, <1>2, PreemptInvInductive, RingInvariant, PTL DEF Spec

-----------------------------------------------------------------------------
(* The least number principle, from the fact that the finite sets of       *)
(* numbers are well founded under inclusion.                               *)
LEMMA LeastNatural ==
  ASSUME NEW T \in SUBSET Nat, T # {}
  PROVE  \E m \in T : \A k \in T : m <= k
<1> DEFINE F == {0..k : k \in T}
           R == StrictSubsetOrdering(Nat)
<1>1. F \subseteq FiniteSubsetsOf(Nat)
  <2>1. ASSUME NEW k \in T PROVE IsFiniteSet(0..k) /\ 0..k \in SUBSET Nat
    BY FS_Interval
  <2> QED BY <2>1 DEF FiniteSubsetsOf
<1>2. IsWellFoundedOn(R, FiniteSubsetsOf(Nat))
  BY FS_StrictSubsetOrderingWellFounded
<1>3. \E x \in F : \A y \in F : <<y, x>> \notin R
  <2>1. F # {}
    OBVIOUS
  <2> HIDE DEF F, R
  <2> QED BY <1>1, <1>2, <2>1, WFMin
<1>4. PICK m \in T : \A k \in T : <<0..k, 0..m>> \notin R
  BY <1>3
<1>5. ASSUME NEW k \in T, k < m PROVE FALSE
  <2>1. 0..k \subseteq 0..m /\ 0..k # 0..m /\ 0..k \in SUBSET Nat /\ 0..m \in SUBSET Nat
    BY <1>5
  <2> QED BY <2>1, <1>4 DEF StrictSubsetOrdering
<1> QED BY <1>4, <1>5

(* q lists the n elements of l once each, in the order of a walk from c    *)
(* along the links nx, which ends where it began.                          *)
Walk(q, n, l, c, nx) ==
  /\ n \in Nat \ {0} /\ q \in [1..n -> l]
  /\ \A i, j \in 1..n : q[i] = q[j] => i = j
  /\ \A t \in l : \E i \in 1..n : q[i] = t
  /\ q[1] = c
  /\ \A i \in 1..(n - 1) : nx[q[i]] = q[i + 1]
  /\ nx[q[n]] = c

(* RingOrder with its variables as parameters.                             *)
Order(l, c, nx) ==
  LET nth[i \in 1..Cardinality(l)] == IF i = 1 THEN c ELSE nx[nth[i - 1]]
  IN nth

(* The order of the ring is that of its links, before and after a step. *)
LEMMA RingOrderIsOrder == RingOrder = Order(live, cur, next) /\ RingOrder' = Order(live', cur', next')
BY DEF RingOrder, Order

(* There is no other walk than the one RingOrder computes link by link.    *)
LEMMA WalkIsOrder ==
  ASSUME NEW l, NEW c, NEW nx, NEW n, NEW q, Walk(q, n, l, c, nx)
  PROVE  Order(l, c, nx) = q
<1> USE DEF Walk
<1>1. n = Cardinality(l)
  <2>1. q \in Bijection(1..n, l)
    BY DEF Bijection, Injection, Surjection, IsInjective
  <2> QED BY <2>1, FS_CountingElements DEF ExistsBijection
<1> DEFINE Body(f) == [i \in 1..n |-> IF i = 1 THEN c ELSE nx[f[i - 1]]]
<1>2. q = Body(q)
  <2>1. \A i \in 1..n : q[i] = Body(q)[i]
    <3>1. ASSUME NEW i \in 1..n, i # 1 PROVE q[i] = nx[q[i - 1]]
      <4>1. i - 1 \in 1..(n - 1) /\ (i - 1) + 1 = i
        BY <3>1
      <4> QED BY <4>1
    <3> QED BY <3>1
  <2> QED BY <2>1
<1>3. ASSUME NEW f, f = Body(f) PROVE f = q
  <2> DEFINE Bad == {i \in 1..n : f[i] # q[i]}
  <2>1. SUFFICES ASSUME Bad # {} PROVE FALSE
    <3>1. f = [i \in 1..n |-> f[i]] /\ q = [i \in 1..n |-> q[i]]
      BY <1>3
    <3> QED BY <3>1
  <2>2. PICK m \in Bad : \A k \in Bad : m <= k
    <3>1. Bad \in SUBSET Nat
      OBVIOUS
    <3> HIDE DEF Bad
    <3> QED BY <2>1, <3>1, LeastNatural
  <2>3. f[m] = (IF m = 1 THEN c ELSE nx[f[m - 1]]) /\ q[m] = (IF m = 1 THEN c ELSE nx[q[m - 1]])
    BY <1>2, <1>3
  <2>4. m # 1
    BY <2>3
  <2>5. m - 1 \in 1..n /\ m - 1 \notin Bad
    BY <2>2, <2>4
  <2> QED BY <2>3, <2>4, <2>5
<1>4. Order(l, c, nx) = CHOOSE f : f = Body(f)
  BY <1>1 DEF Order
<1>5. \A f : f = Body(f) => f = q
  BY <1>3
<1> HIDE DEF Body
<1>6. (CHOOSE f : f = Body(f)) = q
  BY <1>2, <1>5
<1> QED BY <1>4, <1>6

-----------------------------------------------------------------------------
(* The walk exists, which is how the pointers make a queue: what happens   *)
(* to it when the CPU moves on, a thread starts and a thread ends.         *)
WalkInv == \E n, q : Walk(q, n, live, cur, next)

(* One thread, one in the queue. *)
LEMMA WalkInvInit == Init => WalkInv /\ Queue!Init
<1> SUFFICES ASSUME Init PROVE WalkInv /\ Queue!Init
  OBVIOUS
<1>0. live = {Main} /\ next[Main] = Main /\ cur = Main
  BY DEF Init
<1>1. Walk(<<Main>>, 1, live, cur, next)
  <2>1. <<Main>> \in [1..1 -> {Main}] /\ <<Main>>[1] = Main
    OBVIOUS
  <2> QED BY <1>0, <2>1 DEF Walk
<1>2. RingOrder = <<Main>>
  BY <1>1, WalkIsOrder, RingOrderIsOrder
<1>3. WalkInv
  BY <1>1 DEF WalkInv, Walk
<1> QED BY <1>2, <1>3 DEF Queue!Init

(* A step that leaves the links leaves the queue. *)
LEMMA WalkStays ==
  ASSUME UNCHANGED <<live, next, cur>>, WalkInv
  PROVE  WalkInv' /\ RingOrder' = RingOrder
BY RingOrderIsOrder DEF WalkInv

(* A switch to the next thread rotates the queue. *)
LEMMA WalkRotates ==
  ASSUME UNCHANGED <<live, next>>, cur' = next[cur], WalkInv
  PROVE  WalkInv' /\ Queue!Rotate
<1>1. PICK n, q : Walk(q, n, live, cur, next)
  BY DEF WalkInv
<1>0. n \in Nat \ {0} /\ q \in [1..n -> live]
  BY <1>1 DEF Walk
<1> USE <1>0
<1> DEFINE r == [i \in 1..n |-> IF i = n THEN q[1] ELSE q[i + 1]]
<1> USE DEF Walk
<1>2. r \in [1..n -> live]
  BY <1>1
<1>3. \A i, j \in 1..n : r[i] = r[j] => i = j
  BY <1>1
<1>4. \A t \in live : \E i \in 1..n : r[i] = t
  <2> SUFFICES ASSUME NEW t \in live PROVE \E i \in 1..n : r[i] = t
    OBVIOUS
  <2>1. PICK i \in 1..n : q[i] = t
    BY <1>1
  <2>2. CASE i = 1
    BY <2>1, <2>2
  <2>3. CASE i # 1
    <3>1. i - 1 \in 1..n /\ r[i - 1] = t
      BY <2>1, <2>3
    <3> QED BY <3>1
  <2> QED BY <2>2, <2>3
<1>5. r[1] = next[cur]
  BY <1>1
<1>6. \A i \in 1..(n - 1) : next[r[i]] = r[i + 1]
  <2> SUFFICES ASSUME NEW i \in 1..(n - 1) PROVE next[r[i]] = r[i + 1]
    OBVIOUS
  <2>1. r[i] = q[i + 1] /\ i + 1 \in 1..n
    OBVIOUS
  <2>2. CASE i + 1 = n
    BY <1>1, <2>1, <2>2
  <2>3. CASE i + 1 # n
    BY <1>1, <2>1, <2>3
  <2> QED BY <2>2, <2>3
<1>7. next[r[n]] = r[1]
  BY <1>1
<1>8. Walk(r, n, live', cur', next')
  BY <1>1, <1>2, <1>3, <1>4, <1>5, <1>6, <1>7
<1>9. WalkInv'
  BY <1>2, <1>8 DEF WalkInv
<1>10. RingOrder = q /\ RingOrder' = r
  <2> HIDE DEF r, Walk
  <2> QED BY <1>1, <1>8, WalkIsOrder, RingOrderIsOrder
<1>11. r = Append(Tail(q), Head(q))
  <2>1. q \in Seq(live) /\ Len(q) = n
    BY <1>1
  <2>2. Len(Append(Tail(q), Head(q))) = n /\ Append(Tail(q), Head(q)) \in Seq(live)
    BY <2>1
  <2>3. \A i \in 1..n : Append(Tail(q), Head(q))[i] = r[i]
    BY <2>1
  <2> QED BY <1>2, <2>2, <2>3
<1> QED BY <1>9, <1>10, <1>11 DEF Queue!Rotate

(* A new thread goes where the queue has it. *)
LEMMA WalkStarts ==
  ASSUME RingInv, WalkInv, NEW t \in Threads, NEW m \in Thread, run_thread(t, m)
  PROVE  WalkInv' /\ Queue!Start(m)
<1>1. PICK n, q : Walk(q, n, live, cur, next)
  BY DEF WalkInv
<1>0. n \in Nat \ {0} /\ q \in [1..n -> live]
  BY <1>1 DEF Walk
<1> USE <1>0
<1> DEFINE r == [i \in 1..(n + 1) |-> IF i = 1 THEN m ELSE q[i - 1]]
<1>2. /\ cur = t /\ cur' = m /\ m \notin live /\ live' = live \cup {m}
      /\ next' = [next EXCEPT ![m] = t, ![pprev[t]] = m]
  BY DEF run_thread, Running, Link
<1>3. /\ next \in [Threads -> Threads \cup {NoThread}] /\ live \subseteq Threads
      /\ t \in live /\ next[q[n]] = t /\ q[n] \in live /\ pprev[t] = q[n]
  <2>1. next[q[n]] = t /\ q[n] \in live
    BY <1>1, <1>2 DEF Walk
  <2> QED BY <1>2, <2>1 DEF RingInv, TypeOK, Ring, LinksOK
<1>4. /\ next'[m] = t /\ next'[q[n]] = m
      /\ \A s \in live : s # q[n] => next'[s] = next[s]
  <2>1. next' = [next EXCEPT ![m] = t, ![q[n]] = m] /\ m # q[n] /\ m \in Threads
    BY <1>2, <1>3
  <2>2. \A s \in live : s # m /\ s \in Threads
    BY <1>2, <1>3
  <2> QED BY <1>3, <2>1, <2>2
<1>5. Walk(r, n + 1, live', cur', next')
  <2> USE DEF Walk
  <2>1. r \in [1..(n + 1) -> live']
    BY <1>1, <1>2
  <2>2. \A i, j \in 1..(n + 1) : r[i] = r[j] => i = j
    <3> SUFFICES ASSUME NEW i \in 1..(n + 1), NEW j \in 1..(n + 1), r[i] = r[j] PROVE i = j
      OBVIOUS
    <3>1. (i = 1 \/ i - 1 \in 1..n) /\ (j = 1 \/ j - 1 \in 1..n)
      OBVIOUS
    <3> QED BY <1>1, <1>2, <3>1
  <2>3. \A s \in live' : \E i \in 1..(n + 1) : r[i] = s
    <3> SUFFICES ASSUME NEW s \in live' PROVE \E i \in 1..(n + 1) : r[i] = s
      OBVIOUS
    <3>1. CASE s = m
      BY <3>1
    <3>2. CASE s \in live
      <4>1. PICK i \in 1..n : q[i] = s
        BY <1>1, <3>2
      <4>2. i + 1 \in 1..(n + 1) /\ r[i + 1] = s
        BY <4>1
      <4> QED BY <4>2
    <3> QED BY <1>2, <3>1, <3>2
  <2>4. ASSUME NEW i \in 1..n PROVE next'[r[i]] = r[i + 1]
    <3>1. CASE i = 1
      BY <1>1, <1>2, <1>4, <3>1
    <3>2. CASE i # 1
      <4>1. i - 1 \in 1..(n - 1) /\ i - 1 \in 1..n /\ r[i] = q[i - 1] /\ r[i + 1] = q[i] /\ (i - 1) + 1 = i
        BY <3>2
      <4>2. q[i - 1] # q[n] /\ next[q[i - 1]] = q[i]
        BY <1>1, <4>1
      <4> QED BY <1>4, <4>1, <4>2
    <3> QED BY <3>1, <3>2
  <2>5. next'[r[n + 1]] = m
    BY <1>4
  <2>6. \A i \in 1..((n + 1) - 1) : next'[r[i]] = r[i + 1]
    <3>1. 1..((n + 1) - 1) = 1..n
      OBVIOUS
    <3> HIDE DEF r
    <3> QED BY <2>4, <3>1
  <2> HIDE DEF r
  <2>7. r[1] = cur'
    BY <1>2 DEF r
  <2>8. n + 1 \in Nat \ {0}
    OBVIOUS
  <2> QED BY <1>2, <2>1, <2>2, <2>3, <2>5, <2>6, <2>7, <2>8
<1>6. WalkInv'
  <2>1. n + 1 \in Nat \ {0} /\ r \in [1..(n + 1) -> live']
    BY <1>1, <1>2
  <2> HIDE DEF r
  <2> QED BY <1>5, <2>1 DEF WalkInv
<1>7. RingOrder = q /\ RingOrder' = r
  <2> HIDE DEF r
  <2> QED BY <1>1, <1>5, WalkIsOrder, RingOrderIsOrder
<1>8. r = <<m>> \o q
  <2>1. q \in Seq(live') /\ Len(q) = n /\ <<m>> \in Seq(live')
    BY <1>1, <1>2
  <2>2. <<m>> \o q \in Seq(live') /\ Len(<<m>> \o q) = n + 1
    BY <2>1
  <2>3. \A i \in 1..(n + 1) : (<<m>> \o q)[i] = r[i]
    BY <2>1
  <2> QED BY <1>2, <2>2, <2>3
<1>9. m \notin {q[i] : i \in DOMAIN q}
  BY <1>1, <1>2
<1> QED BY <1>6, <1>7, <1>8, <1>9 DEF Queue!Start, Queue!Queued

(* A thread that ends leaves the queue. *)
LEMMA WalkEnds ==
  ASSUME RingInv, WalkInv, NEW t \in Threads, end_thread(t)
  PROVE  WalkInv' /\ Queue!End
<1>1. PICK n, q : Walk(q, n, live, cur, next)
  BY DEF WalkInv
<1>0. n \in Nat \ {0} /\ q \in [1..n -> live]
  BY <1>1 DEF Walk
<1> USE <1>0
<1> DEFINE r == [i \in 1..(n - 1) |-> q[i + 1]]
<1>2. /\ cur = t /\ t # Main /\ cur' = next[t] /\ live' = live \ {t}
      /\ next' = [next EXCEPT ![pprev[t]] = next[t], ![t] = NoThread]
  BY DEF end_thread, Running, Unlink
<1>3. /\ next \in [Threads -> Threads \cup {NoThread}] /\ live \subseteq Threads
      /\ t \in live /\ Main \in live /\ next[q[n]] = t /\ q[n] \in live /\ pprev[t] = q[n]
  <2>1. next[q[n]] = t /\ q[n] \in live
    BY <1>1, <1>2 DEF Walk
  <2> QED BY <1>2, <2>1 DEF RingInv, TypeOK, Ring, LinksOK
<1>4. n > 1 /\ n - 1 \in Nat \ {0}
  BY <1>1, <1>2, <1>3 DEF Walk
<1>5. q[n] # t /\ next[t] = q[2]
  BY <1>1, <1>2, <1>4 DEF Walk
<1>6. /\ next'[q[n]] = q[2]
      /\ \A s \in live \ {t, q[n]} : next'[s] = next[s]
  BY <1>2, <1>3, <1>5
<1>7. Walk(r, n - 1, live', cur', next')
  <2> USE DEF Walk
  <2>1. \A i \in 2..n : q[i] # t
    BY <1>1, <1>2
  <2>2. r \in [1..(n - 1) -> live']
    BY <1>1, <1>2, <2>1
  <2>3. \A i, j \in 1..(n - 1) : r[i] = r[j] => i = j
    BY <1>1
  <2>4. \A s \in live' : \E i \in 1..(n - 1) : r[i] = s
    <3> SUFFICES ASSUME NEW s \in live' PROVE \E i \in 1..(n - 1) : r[i] = s
      OBVIOUS
    <3>1. PICK i \in 1..n : q[i] = s
      BY <1>1, <1>2
    <3>2. i # 1
      BY <1>1, <1>2, <3>1
    <3>3. i - 1 \in 1..(n - 1) /\ r[i - 1] = s
      BY <3>1, <3>2
    <3> QED BY <3>3
  <2>5. r[1] = cur'
    BY <1>2, <1>4, <1>5
  <2>6. \A i \in 1..((n - 1) - 1) : next'[r[i]] = r[i + 1]
    <3> SUFFICES ASSUME NEW i \in 1..((n - 1) - 1) PROVE next'[r[i]] = r[i + 1]
      OBVIOUS
    <3>1. i + 1 \in 1..(n - 1) /\ i + 1 \in 1..n /\ i + 1 # n /\ r[i] = q[i + 1] /\ r[i + 1] = q[(i + 1) + 1]
      BY <1>4
    <3>2. q[i + 1] # q[n] /\ q[i + 1] # t /\ next[q[i + 1]] = q[(i + 1) + 1] /\ q[i + 1] \in live
      BY <1>1, <2>1, <3>1
    <3> QED BY <1>6, <3>1, <3>2
  <2>7. next'[r[n - 1]] = cur'
    BY <1>2, <1>4, <1>5, <1>6
  <2> HIDE DEF r
  <2> QED BY <1>4, <2>2, <2>3, <2>4, <2>5, <2>6, <2>7
<1>8. WalkInv'
  <2>1. r \in [1..(n - 1) -> live']
    BY <1>7 DEF Walk
  <2> HIDE DEF r
  <2> QED BY <1>4, <1>7, <2>1 DEF WalkInv
<1>9. RingOrder = q /\ RingOrder' = r
  <2> HIDE DEF r
  <2> QED BY <1>1, <1>7, WalkIsOrder, RingOrderIsOrder
<1>10. r = Tail(q) /\ Head(q) # Main
  <2>1. q \in Seq(live) /\ Len(q) = n
    BY <1>1
  <2>2. Tail(q) \in Seq(live) /\ Len(Tail(q)) = n - 1
    BY <1>4, <2>1
  <2>3. \A i \in 1..(n - 1) : Tail(q)[i] = r[i]
    BY <1>4, <2>1
  <2>4. Head(q) = t
    BY <1>1, <1>2, <2>1 DEF Walk
  <2>5. r = Tail(q)
    <3>1. r \in [1..(n - 1) -> live]
      OBVIOUS
    <3> HIDE DEF r
    <3>2. Tail(q) \in [1..Len(Tail(q)) -> live]
      BY <2>2, LenProperties
    <3>3. Tail(q) \in [1..(n - 1) -> live]
      BY <2>2, <3>2
    <3> QED BY <2>3, <3>1, <3>3
  <2> QED BY <1>2, <2>4, <2>5
<1> QED BY <1>8, <1>9, <1>10 DEF Queue!End

(* Every step of the scheduler is one of the queue, or none.               *)
LEMMA WalkStep ==
  ASSUME RingInv, WalkInv, [Next]_vars
  PROVE  WalkInv' /\ [Queue!Next]_RingOrder
<1>1. SUFFICES ASSUME UNCHANGED <<live, next>> /\ cur' \in {cur, next[cur]}
               PROVE  WalkInv' /\ [Queue!Next]_RingOrder
  <2>1. CASE UNCHANGED vars
    BY <2>1, <1>1 DEF vars, ringVars
  <2>2. ASSUME NEW t \in Threads, NEW n \in Thread, run_thread(t, n)
        PROVE  WalkInv' /\ [Queue!Next]_RingOrder
    BY <2>2, WalkStarts DEF Queue!Next
  <2>3. ASSUME NEW t \in Threads, end_thread(t)
        PROVE  WalkInv' /\ [Queue!Next]_RingOrder
    BY <2>3, WalkEnds DEF Queue!Next
  <2>4. ASSUME NEW t \in Threads,
               \/ yield(t) \/ run_inline(t) \/ return_inline(t) \/ mutex_lock_loop(t)
               \/ wait_preempt_enter(t) \/ wait_preempt_loop(t) \/ move_ebda(t)
               \/ \E m \in Mutex : mutex_lock_enter(t, m) \/ mutex_unlock(t, m)
        PROVE  WalkInv' /\ [Queue!Next]_RingOrder
    BY <1>1, <2>4
    DEF yield, run_inline, return_inline, mutex_lock_loop, wait_preempt_enter, wait_preempt_loop,
        move_ebda, mutex_lock_enter, mutex_unlock, switch_next, Running, ringVars
  <2>5. ASSUME \/ wait_threads_enter \/ wait_threads_loop \/ start_preempt
               \/ check_preempt \/ finish_preempt \/ handle_pmm
        PROVE  WalkInv' /\ [Queue!Next]_RingOrder
    BY <1>1, <2>5
    DEF wait_threads_enter, wait_threads_loop, start_preempt, check_preempt, finish_preempt,
        handle_pmm, switch_next, Running, ringVars
  <2> QED BY <2>1, <2>2, <2>3, <2>4, <2>5 DEF Next, Step
<1>2. CASE cur' = cur
  BY <1>1, <1>2, WalkStays
<1>3. CASE cur' = next[cur]
  BY <1>1, <1>3, WalkRotates DEF Queue!Next
<1> QED BY <1>1, <1>2, <1>3

(* The linked list of stacks.c implements the queue of RoundRobin: whatever *)
(* run_thread, yield and __end_thread do to the pointers, the threads run in*)
(* turn, none is lost and none is entered twice.                           *)
THEOREM RoundRobinImplemented == Spec => RunsInTurn
<1>1. Spec => []WalkInv
  BY RingInvariant, WalkInvInit, WalkStep, PTL DEF Spec
<1>2. RingInv /\ WalkInv /\ [Next]_vars => [Queue!Next]_RingOrder
  BY WalkStep
<1>3. Init => Queue!Init
  BY WalkInvInit
<1> QED BY <1>1, <1>2, <1>3, RingInvariant, PTL DEF Spec, RunsInTurn, Queue!Spec
=============================================================================
