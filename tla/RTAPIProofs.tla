----------------------------- MODULE RTAPIProofs -----------------------------
(***************************************************************************)
(* Proofs about RTAPI for every length of the queue, every number of calls *)
(* and of timers, and every choice of the messages the caller sends.       *)
(***************************************************************************)
EXTENDS RTAPI, SequenceTheorems, FiniteSetTheorems, TLAPS

AppLabel == {"user", "increment_timeouts", "add", "is_empty", "check_timeouts",
             "wait_hzero", "relock", "is_empty_again", "cancel", "join", "gone"}
DispatcherLabel == {"get", "woken", "parse_msg", "dead"}
TimerLabel == {"none", "sleep", "add", "decrement_timeouts", "write", "unlock", "done"}

(* Every thread is somewhere in its own code, and a timer exists only for a
   call that was made. *)
PcOK ==
  /\ pc \in [Thread -> AppLabel \cup DispatcherLabel \cup TimerLabel]
  /\ pc[App] \in AppLabel
  /\ pc[Dispatcher] \in DispatcherLabel
  /\ \A n \in 1..MaxCalls :
       /\ pc[Timer(n)] \in TimerLabel
       /\ n > calls => pc[Timer(n)] = "none"

(* A thread that is about to queue or to handle a message has it in its hands,
   and the dispatcher has none while it asks for one. *)
HeldOK ==
  /\ pc[App] \in {"increment_timeouts", "add"} =>
       held[App] \in Message /\ held[App].from = App /\ held[App].call = calls
  /\ \A n \in 1..MaxCalls :
       pc[Timer(n)] = "add" =>
         held[Timer(n)] \in Message /\ held[Timer(n)].from = Timer(n)
  /\ pc[Dispatcher] \in {"get", "woken"} => held[Dispatcher] = NoMessage
  /\ pc[Dispatcher] = "parse_msg" => held[Dispatcher] \in Message

(* The caller has not entered the destructor. *)
InUse == pc[App] \in {"user", "increment_timeouts", "add"}

(* Until the destructor waits on it, the mutex of timeout_handlers excludes. *)
MutexOK ==
  InUse =>
    \A n \in 1..MaxCalls :
      /\ pc[Timer(n)] \in {"write", "unlock"} => timeout_handlers_mutex = Timer(n)
      /\ pc[Timer(n)] = "write" => seen[n] = timeout_handlers

(* The timers that have not yet taken themselves off timeout_handlers *)
Running ==
  {n \in 1..MaxCalls : pc[Timer(n)] \in {"sleep", "add", "decrement_timeouts", "write"}}

(* how many of them were counted, and how many calls were *)
Uncounted == IF pc[App] = "increment_timeouts" THEN 1 ELSE 0
Owed == Cardinality(Running) - Uncounted

(* Once the destructor waits the mutex no longer excludes and decrements are
   lost; but a lost decrement errs to the safe side: neither the counter nor
   what a timer is about to write to it is ever below the timers that run. *)
CountOK ==
  /\ Owed <= timeout_handlers /\ timeout_handlers <= calls - Uncounted
  /\ \A n \in 1..MaxCalls :
       pc[Timer(n)] = "write" => Owed <= seen[n] /\ seen[n] <= calls

(* Past the check of timeout_handlers no timer runs, and past the second look
   at the queue nothing is queued either. *)
DrainedOK ==
  /\ pc[App] \in {"is_empty_again", "cancel", "join", "gone"} => Running = {}
  /\ pc[App] \in {"cancel", "join", "gone"} => messages = <<>>

IInv == TypeOK /\ PcOK /\ HeldOK /\ MutexOK /\ CountOK /\ DrainedOK

-----------------------------------------------------------------------------
(* The threads are distinct, and none of them is "no one". *)
LEMMA Threads ==
  /\ App \in Thread /\ Dispatcher \in Thread /\ App # Dispatcher
  /\ \A n \in 1..MaxCalls : Timer(n) \in Thread /\ Timer(n) # App /\ Timer(n) # Dispatcher
  /\ \A n, k \in 1..MaxCalls : Timer(n) = Timer(k) => n = k
  /\ NoOne \notin Thread
  /\ \A t \in Thread : t \in {App, Dispatcher} \/ \E n \in 1..MaxCalls : t = Timer(n)
BY DEF Thread, Timers, App, Dispatcher, Timer, NoOne

(* No message is mistaken for the absence of one. *)
LEMMA AMessageIsThere == \A m \in Message : m # NoMessage
BY DEF Message, NoMessage

(* What a thread that sends, and the call it sends for, are. *)
LEMMA MessageFields ==
  \A m \in Message : m.call \in 1..MaxCalls /\ m.from \in Thread
BY DEF Message

(* A set of timers is finite. *)
LEMMA TimersAreFinite ==
  \A S \in SUBSET (1..MaxCalls) :
    IsFiniteSet(S) /\ Cardinality(S) \in Nat /\ (Cardinality(S) = 0 <=> S = {})
<1> SUFFICES ASSUME NEW S \in SUBSET (1..MaxCalls)
             PROVE  IsFiniteSet(S) /\ Cardinality(S) \in Nat /\ (Cardinality(S) = 0 <=> S = {})
  OBVIOUS
<1>1. IsFiniteSet(1..MaxCalls)
  BY BoundAssumption, FS_Interval
<1>2. IsFiniteSet(S)
  BY <1>1, FS_Subset
<1> QED
  BY <1>2, FS_CardinalityType, FS_EmptySet

(* The timers that run are finitely many. *)
LEMMA RunningIsFinite ==
  /\ IsFiniteSet(Running) /\ Cardinality(Running) \in Nat
  /\ Cardinality(Running) = 0 <=> Running = {}
BY TimersAreFinite DEF Running

-----------------------------------------------------------------------------
(* The initial state satisfies the invariant. *)
LEMMA InitIInv == Init => IInv
<1> SUFFICES ASSUME Init PROVE IInv
  OBVIOUS
<1>1. TypeOK
  <2>1. messages \in Seq(Message) /\ applied \in Seq(Message) /\ Len(messages) = 0
    BY EmptySeq DEF Init
  <2>2. held \in [Thread -> Message \cup {NoMessage}]
    BY DEF Init
  <2>3. 0 \in -MaxCalls..MaxCalls
    BY BoundAssumption
  <2>4. seen \in [1..MaxCalls -> -MaxCalls..MaxCalls]
    BY <2>3 DEF Init
  <2>5. cancelled \in BOOLEAN /\ waiting \in [Condition -> SUBSET Thread]
    BY DEF Init
  <2>6. /\ timeout_handlers \in -MaxCalls..MaxCalls /\ calls \in 0..MaxCalls
        /\ timeout_handlers_mutex \in Thread \cup {NoOne}
    BY BoundAssumption, <2>3 DEF Init
  <2> QED
    BY <2>1, <2>2, <2>4, <2>5, <2>6, BoundAssumption DEF TypeOK
<1>2. PcOK
  BY Threads DEF Init, PcOK, AppLabel, DispatcherLabel, TimerLabel
<1>3. HeldOK
  BY Threads DEF Init, HeldOK
<1>4. MutexOK
  BY Threads DEF Init, MutexOK
<1>5. Running = {}
  BY Threads DEF Init, Running
<1>6. CountOK
  BY <1>5, RunningIsFinite, Threads DEF Init, CountOK, Owed, Uncounted
<1>7. DrainedOK
  BY <1>5 DEF Init, DrainedOK
<1> QED
  BY <1>1, <1>2, <1>3, <1>4, <1>6, <1>7 DEF IInv

-----------------------------------------------------------------------------
(* Every step leaves each thread at a label of its own code. *)
LEMMA PcStep == TypeOK /\ PcOK /\ [Next]_vars => PcOK'
<1> SUFFICES ASSUME TypeOK, PcOK, [Next]_vars PROVE PcOK'
  OBVIOUS
<1> USE Threads DEF PcOK, AppLabel, DispatcherLabel, TimerLabel, goto, At
<1>1. ASSUME NEW fcn \in Fcn, NEW timed \in Timed, queue_message(fcn, timed) PROVE PcOK'
  <2>1. calls \in Nat /\ calls + 1 \in 1..MaxCalls
    BY <1>1, BoundAssumption DEF queue_message, TypeOK
  <2>2. CASE timed
    BY <1>1, <2>1, <2>2 DEF queue_message
  <2>3. CASE ~timed
    BY <1>1, <2>1, <2>3 DEF queue_message
  <2> QED
    BY <2>2, <2>3
<1>2. CASE destroy
  BY <1>2 DEF destroy
<1>3. CASE increment_timeouts
  BY <1>3 DEF increment_timeouts
<1>4. CASE app_add
  BY <1>4 DEF app_add, add_message_to_queue
<1>5. CASE is_done_empty
  BY <1>5 DEF is_done_empty, is_empty, check_timeouts, wait_hzero, relock
<1>6. CASE wait_for_exit
  BY <1>6 DEF wait_for_exit
<1>7. CASE dispatcher_step
  BY <1>7 DEF dispatcher_step, get_message_from_queue, parse_msg
<1>8. CASE exit
  BY <1>8 DEF exit
<1>9. ASSUME NEW n \in 1..MaxCalls, timer_step(n) PROVE PcOK'
  <2>1. CASE rti_timer(n)
    BY <2>1 DEF rti_timer
  <2>2. CASE timer_add(n)
    BY <2>2 DEF timer_add, add_message_to_queue
  <2>3. CASE decrement_timeouts(n)
    BY <2>3 DEF decrement_timeouts
  <2> QED
    BY <1>9, <2>1, <2>2, <2>3 DEF timer_step
<1>10. CASE (\E t \in Thread : spurious_wakeup(t)) \/ Terminated \/ UNCHANGED vars
  BY <1>10 DEF spurious_wakeup, Terminated, vars
<1> QED
  BY <1>1, <1>2, <1>3, <1>4, <1>5, <1>6, <1>7, <1>8, <1>9, <1>10 DEF Next, app_step

(* What a thread holds is what it is about to queue or to handle. *)
LEMMA HeldStep == TypeOK /\ PcOK /\ HeldOK /\ [Next]_vars => HeldOK'
<1> SUFFICES ASSUME TypeOK, PcOK, HeldOK, [Next]_vars PROVE HeldOK'
  OBVIOUS
<1> USE Threads DEF HeldOK, PcOK, goto, At
<1>h. held \in [Thread -> Message \cup {NoMessage}]
  BY DEF TypeOK
<1>1. ASSUME NEW fcn \in Fcn, NEW timed \in Timed, queue_message(fcn, timed) PROVE HeldOK'
  <2>1. calls \in Nat /\ calls + 1 \in 1..MaxCalls
    BY <1>1, BoundAssumption DEF queue_message, TypeOK
  <2> DEFINE m == [fcn |-> fcn, call |-> calls + 1, from |-> App]
  <2>2. m \in Message /\ m.from = App /\ m.call = calls + 1
    BY <2>1 DEF Message
  <2>3. calls' = calls + 1 /\ held' = [held EXCEPT ![App] = m]
    BY <1>1 DEF queue_message
  <2> HIDE DEF m
  <2>4. /\ held'[App] = m /\ \A t \in Thread \ {App} : held'[t] = held[t]
    BY <2>3, <1>h
  <2>5. CASE timed
    BY <1>1, <2>1, <2>2, <2>3, <2>4, <2>5 DEF queue_message
  <2>6. CASE ~timed
    BY <1>1, <2>1, <2>2, <2>3, <2>4, <2>6 DEF queue_message
  <2> QED
    BY <2>5, <2>6
<1>2. CASE destroy
  BY <1>2 DEF destroy
<1>3. CASE increment_timeouts
  BY <1>3 DEF increment_timeouts
<1>4. CASE app_add
  BY <1>4, <1>h DEF app_add, add_message_to_queue
<1>5. CASE is_done_empty
  BY <1>5 DEF is_done_empty, is_empty, check_timeouts, wait_hzero, relock
<1>6. CASE wait_for_exit
  BY <1>6 DEF wait_for_exit
<1>7. CASE get_message_from_queue
  <2>1. CASE messages = <<>>
    BY <1>7, <2>1 DEF get_message_from_queue
  <2>2. CASE messages # <<>>
    <3>1. Head(messages) \in Message
      BY <2>2, HeadTailProperties DEF TypeOK
    <3> QED
      BY <1>7, <1>h, <2>2, <3>1 DEF get_message_from_queue, NextMessage
  <2> QED
    BY <2>1, <2>2
<1>8. CASE parse_msg
  BY <1>8, <1>h DEF parse_msg
<1>9. CASE exit
  BY <1>9 DEF exit
<1>10. ASSUME NEW n \in 1..MaxCalls, timer_step(n) PROVE HeldOK'
  <2>1. CASE rti_timer(n)
    <3> DEFINE m == [fcn |-> "FIND_CANDIDATES", call |-> n, from |-> Timer(n)]
    <3>1. m \in Message /\ m.from = Timer(n)
      BY DEF Message
    <3>2. held' = [held EXCEPT ![Timer(n)] = m]
      BY <2>1 DEF rti_timer
    <3> HIDE DEF m
    <3> QED
      BY <1>h, <2>1, <3>1, <3>2 DEF rti_timer
  <2>2. CASE timer_add(n)
    BY <2>2, <1>h DEF timer_add, add_message_to_queue
  <2>3. CASE decrement_timeouts(n)
    BY <2>3 DEF decrement_timeouts
  <2> QED
    BY <1>10, <2>1, <2>2, <2>3 DEF timer_step
<1>11. CASE (\E t \in Thread : spurious_wakeup(t)) \/ Terminated \/ UNCHANGED vars
  BY <1>11 DEF spurious_wakeup, Terminated, vars
<1> QED
  BY <1>1, <1>2, <1>3, <1>4, <1>5, <1>6, <1>7, <1>8, <1>9, <1>10, <1>11
  DEF Next, app_step, dispatcher_step

(* Nothing disturbs a decrement while the interface is in use: the mutex is
   taken away only by the destructor. *)
LEMMA MutexStep == TypeOK /\ PcOK /\ MutexOK /\ [Next]_vars => MutexOK'
<1> SUFFICES ASSUME TypeOK, PcOK, MutexOK, [Next]_vars PROVE MutexOK'
  OBVIOUS
<1> USE Threads DEF MutexOK, InUse, PcOK, AppLabel, goto, At
<1>s. seen \in [1..MaxCalls -> -MaxCalls..MaxCalls]
  BY DEF TypeOK
<1>1. ASSUME NEW fcn \in Fcn, NEW timed \in Timed, queue_message(fcn, timed) PROVE MutexOK'
  <2>1. calls \in Nat /\ calls + 1 \in 1..MaxCalls
    BY <1>1, BoundAssumption DEF queue_message, TypeOK
  <2>2. CASE timed
    BY <1>1, <2>1, <2>2 DEF queue_message
  <2>3. CASE ~timed
    BY <1>1, <2>1, <2>3 DEF queue_message
  <2> QED
    BY <2>2, <2>3
<1>2. CASE destroy
  BY <1>2 DEF destroy
<1>3. CASE increment_timeouts
  BY <1>3 DEF increment_timeouts
<1>4. CASE app_add
  BY <1>4 DEF app_add, add_message_to_queue
<1>5. CASE is_done_empty
  BY <1>5 DEF is_done_empty, is_empty, check_timeouts, wait_hzero, relock
<1>6. CASE wait_for_exit
  BY <1>6 DEF wait_for_exit
<1>7. CASE dispatcher_step
  BY <1>7 DEF dispatcher_step, get_message_from_queue, parse_msg
<1>8. CASE exit
  BY <1>8 DEF exit
<1>9. ASSUME NEW n \in 1..MaxCalls, timer_step(n) PROVE MutexOK'
  <2>1. CASE rti_timer(n)
    BY <2>1 DEF rti_timer
  <2>2. CASE timer_add(n)
    BY <2>2 DEF timer_add, add_message_to_queue
  <2>3. CASE decrement_timeouts(n)
    <3>1. CASE At(Timer(n), "decrement_timeouts")
      BY <2>3, <3>1, <1>s DEF decrement_timeouts
    <3>2. CASE At(Timer(n), "write")
      BY <2>3, <3>2 DEF decrement_timeouts
    <3>3. CASE At(Timer(n), "unlock")
      BY <2>3, <3>3 DEF decrement_timeouts
    <3> QED
      BY <2>3, <3>1, <3>2, <3>3 DEF decrement_timeouts
  <2> QED
    BY <1>9, <2>1, <2>2, <2>3 DEF timer_step
<1>10. CASE (\E t \in Thread : spurious_wakeup(t)) \/ Terminated \/ UNCHANGED vars
  BY <1>10 DEF spurious_wakeup, Terminated, vars
<1> QED
  BY <1>1, <1>2, <1>3, <1>4, <1>5, <1>6, <1>7, <1>8, <1>9, <1>10 DEF Next, app_step

(* The steps that neither start a timer, nor count one, nor are a timer's *)
Quiet ==
  destroy \/ app_add \/ is_done_empty \/ wait_for_exit \/ dispatcher_step \/ exit

(* ... leave alone all that the counting of timers depends on. *)
LEMMA QuietStep ==
  ASSUME TypeOK, PcOK, Quiet
  PROVE  /\ UNCHANGED <<timeout_handlers, seen, calls>>
         /\ \A n \in 1..MaxCalls : pc'[Timer(n)] = pc[Timer(n)]
         /\ pc'[App] = "increment_timeouts" <=> pc[App] = "increment_timeouts"
<1> USE Threads DEF PcOK, goto, At
<1>1. CASE destroy \/ exit
  BY <1>1 DEF destroy, exit
<1>2. CASE app_add \/ wait_for_exit
  BY <1>2 DEF app_add, add_message_to_queue, wait_for_exit
<1>3. CASE is_done_empty
  BY <1>3 DEF is_done_empty, is_empty, check_timeouts, wait_hzero, relock
<1>4. CASE dispatcher_step
  BY <1>4 DEF dispatcher_step, get_message_from_queue, parse_msg
<1> QED
  BY <1>1, <1>2, <1>3, <1>4 DEF Quiet

(* What a step does to the timers that run: a timed call adds one, the write
   of a decrement takes one away, and nothing else changes them. *)
LEMMA RunningStep ==
  ASSUME TypeOK, PcOK
  PROVE  /\ \A fcn \in Fcn, timed \in Timed :
              queue_message(fcn, timed) =>
                IF timed
                THEN calls + 1 \in (1..MaxCalls) \ Running /\ Running' = Running \cup {calls + 1}
                ELSE Running' = Running
         /\ \A n \in 1..MaxCalls :
              timer_step(n) =>
                IF pc[Timer(n)] = "write" THEN n \in Running /\ Running' = Running \ {n}
                                          ELSE Running' = Running
         /\ Quiet \/ increment_timeouts => Running' = Running
<1> USE Threads DEF PcOK, Running, goto, At
<1>1. ASSUME NEW fcn \in Fcn, NEW timed \in Timed, queue_message(fcn, timed)
      PROVE  IF timed
             THEN calls + 1 \in (1..MaxCalls) \ Running /\ Running' = Running \cup {calls + 1}
             ELSE Running' = Running
  <2>1. calls \in Nat /\ calls + 1 \in 1..MaxCalls
    BY <1>1, BoundAssumption DEF queue_message, TypeOK
  <2>2. pc[Timer(calls + 1)] = "none"
    BY <2>1
  <2> QED
    BY <1>1, <2>1, <2>2 DEF queue_message
<1>2. ASSUME NEW n \in 1..MaxCalls, timer_step(n)
      PROVE  IF pc[Timer(n)] = "write" THEN n \in Running /\ Running' = Running \ {n}
                                       ELSE Running' = Running
  <2>1. CASE rti_timer(n)
    BY <2>1 DEF rti_timer
  <2>2. CASE timer_add(n)
    BY <2>2 DEF timer_add, add_message_to_queue
  <2>3. CASE decrement_timeouts(n)
    <3>1. CASE At(Timer(n), "decrement_timeouts")
      BY <2>3, <3>1 DEF decrement_timeouts
    <3>2. CASE At(Timer(n), "write")
      BY <2>3, <3>2 DEF decrement_timeouts
    <3>3. CASE At(Timer(n), "unlock")
      BY <2>3, <3>3 DEF decrement_timeouts
    <3> QED
      BY <2>3, <3>1, <3>2, <3>3 DEF decrement_timeouts
  <2> QED
    BY <1>2, <2>1, <2>2, <2>3 DEF timer_step
<1>3. ASSUME Quiet \/ increment_timeouts PROVE Running' = Running
  <2>1. \A n \in 1..MaxCalls : pc'[Timer(n)] = pc[Timer(n)]
    BY <1>3, QuietStep DEF increment_timeouts
  <2> QED
    BY <2>1
<1> QED
  BY <1>1, <1>2, <1>3

(* The counter never falls below the timers that run, although decrements may
   be lost. *)
LEMMA CountStep == TypeOK /\ PcOK /\ MutexOK /\ CountOK /\ [Next]_vars => CountOK'
<1> SUFFICES ASSUME TypeOK, PcOK, MutexOK, CountOK, [Next]_vars PROVE CountOK'
  OBVIOUS
<1> USE Threads DEF CountOK, Owed, Uncounted, goto, At
<1>s. /\ DOMAIN pc = Thread /\ seen \in [1..MaxCalls -> Int]
      /\ timeout_handlers \in Int /\ calls \in Nat
  BY BoundAssumption DEF TypeOK, PcOK
<1>c. IsFiniteSet(Running) /\ Cardinality(Running) \in Nat
  BY RunningIsFinite
<1>1. ASSUME NEW fcn \in Fcn, NEW timed \in Timed, queue_message(fcn, timed) PROVE CountOK'
  <2>1. calls + 1 \in 1..MaxCalls /\ pc[Timer(calls + 1)] = "none" /\ calls' = calls + 1
    BY <1>1, <1>s, BoundAssumption DEF queue_message, TypeOK, PcOK
  <2>2. UNCHANGED <<timeout_handlers, seen>>
    BY <1>1 DEF queue_message
  <2>3. CASE timed
    <3>1. calls + 1 \notin Running /\ Running' = Running \cup {calls + 1}
      BY <1>1, <2>3, RunningStep
    <3>2. Cardinality(Running') = Cardinality(Running) + 1
      BY <3>1, <1>c, FS_AddElement
    <3> QED
      BY <1>1, <1>s, <1>c, <2>1, <2>2, <2>3, <3>2, SMTT(30) DEF queue_message
  <2>4. CASE ~timed
    <3>1. Running' = Running
      BY <1>1, <2>4, RunningStep
    <3> QED
      BY <1>1, <1>s, <1>c, <2>1, <2>2, <2>4, <3>1 DEF queue_message
  <2> QED
    BY <2>3, <2>4
<1>2. CASE increment_timeouts
  <2>1. Running' = Running
    BY <1>2, RunningStep
  <2>2. \A n \in 1..MaxCalls : pc[Timer(n)] # "write"
    BY <1>2 DEF increment_timeouts, MutexOK, InUse
  <2> QED
    BY <1>2, <1>s, <1>c, <2>1, <2>2 DEF increment_timeouts
<1>3. CASE Quiet
  BY <1>3, <1>s, <1>c, RunningStep, QuietStep
<1>4. ASSUME NEW n \in 1..MaxCalls, timer_step(n) PROVE CountOK'
  <2>1. calls' = calls /\ pc'[App] = pc[App] /\ Uncounted' = Uncounted
    BY <1>4, <1>s
    DEF timer_step, rti_timer, timer_add, add_message_to_queue, decrement_timeouts
  <2>2. CASE rti_timer(n) \/ timer_add(n)
    BY <1>4, <1>s, <1>c, <2>1, <2>2, RunningStep
    DEF rti_timer, timer_add, add_message_to_queue
  <2>3. CASE decrement_timeouts(n) /\ pc[Timer(n)] # "write"
    <3>1. Running' = Running /\ timeout_handlers' = timeout_handlers
      BY <1>4, <2>3, RunningStep DEF decrement_timeouts
    <3>2. \A k \in 1..MaxCalls : pc'[Timer(k)] = "write" =>
            \/ k = n /\ seen'[k] = timeout_handlers
            \/ pc[Timer(k)] = "write" /\ seen'[k] = seen[k]
      BY <1>s, <2>3, ZenonT(60) DEF decrement_timeouts
    <3> QED
      BY <1>s, <1>c, <2>1, <3>1, <3>2
  <2>4. CASE decrement_timeouts(n) /\ pc[Timer(n)] = "write"
    <3>1. n \in Running /\ Running' = Running \ {n}
      BY <1>4, <2>4, RunningStep
    <3>2. Cardinality(Running') = Cardinality(Running) - 1
      BY <3>1, <1>c, FS_RemoveElement
    <3>3. timeout_handlers' = seen[n] - 1 /\ seen' = seen
      BY <2>4 DEF decrement_timeouts
    <3>4. \A k \in 1..MaxCalls : pc'[Timer(k)] = "write" => pc[Timer(k)] = "write"
      BY <1>s, <2>4 DEF decrement_timeouts
    <3>5. /\ Owed' = Owed - 1 /\ Owed <= seen[n] /\ seen[n] <= calls
          /\ Owed \in Int /\ seen[n] \in Int /\ calls \in Int
      BY <1>s, <1>c, <1>4, <2>1, <2>4, <3>2
    <3>6. Owed' <= timeout_handlers' /\ timeout_handlers' <= calls' - Uncounted'
      BY <1>s, <1>c, <2>1, <2>4, <3>3, <3>5, SMTT(30)
    <3>7. \A k \in 1..MaxCalls :
            pc'[Timer(k)] = "write" => Owed' <= seen'[k] /\ seen'[k] <= calls'
      BY <1>s, <1>c, <2>1, <3>3, <3>4, <3>5, SMTT(30)
    <3> QED
      BY <3>6, <3>7
  <2> QED
    BY <1>4, <2>2, <2>3, <2>4 DEF timer_step
<1>5. CASE (\E t \in Thread : spurious_wakeup(t)) \/ Terminated \/ UNCHANGED vars
  <2>1. UNCHANGED <<pc, seen, timeout_handlers, calls>> /\ Running' = Running
    BY <1>5 DEF spurious_wakeup, Terminated, vars, Running
  <2> QED
    BY <2>1
<1> QED
  BY <1>1, <1>2, <1>3, <1>4, <1>5 DEF Next, app_step, Quiet

(* What add_message_to_queue does to the queue, for whoever calls it with a
   message in hand. *)
LEMMA AddType ==
  ASSUME TypeOK, NEW t \in Thread, held[t] \in Message, NEW next, add_message_to_queue(t, next)
  PROVE  /\ messages' \in Seq(Message) /\ Len(messages') <= MAX_MSGS
         /\ held' \in [Thread -> Message \cup {NoMessage}]
         /\ waiting' \in [Condition -> SUBSET Thread]
<1> USE DEF TypeOK, add_message_to_queue
<1>1. CASE Len(messages) = MAX_MSGS
  BY <1>1, SMTT(30) DEF wait
<1>2. CASE Len(messages) # MAX_MSGS
  <2>1. /\ Append(messages, held[t]) \in Seq(Message)
        /\ Len(Append(messages, held[t])) = Len(messages) + 1
    BY AppendProperties
  <2>2. Len(messages) \in Nat /\ Len(messages) + 1 <= MAX_MSGS
    BY <1>2, LenProperties, BoundAssumption
  <2>3. held' = [held EXCEPT ![t] = NoMessage] /\ waiting' = [waiting EXCEPT !["notEmpty"] = {}]
    BY <1>2 DEF broadcast
  <2> QED
    BY <1>2, <2>1, <2>2, <2>3
<1> QED
  BY <1>1, <1>2

(* What get_message_from_queue does to the queue. *)
LEMMA GetType ==
  ASSUME TypeOK, get_message_from_queue
  PROVE  /\ messages' \in Seq(Message) /\ Len(messages') <= MAX_MSGS
         /\ held' \in [Thread -> Message \cup {NoMessage}]
         /\ waiting' \in [Condition -> SUBSET Thread]
<1> USE Threads DEF TypeOK, get_message_from_queue
<1>1. CASE messages = <<>>
  <2>1. EmptyWaiters \in SUBSET Thread
    BY DEF EmptyWaiters, Condition
  <2> QED
    BY <1>1, <2>1 DEF Condition
<1>2. CASE messages # <<>>
  <2>1. /\ Head(messages) \in Message /\ Tail(messages) \in Seq(Message)
        /\ Len(Tail(messages)) = Len(messages) - 1 /\ Len(messages) \in Nat
    BY <1>2, HeadTailProperties, LenProperties
  <2>2. /\ held' = [held EXCEPT ![Dispatcher] = Head(messages)]
        /\ messages' = Tail(messages)
        /\ waiting' = [waiting EXCEPT !["notFull"] = {}]
    BY <1>2 DEF NextMessage, broadcast
  <2>3. Len(messages') <= MAX_MSGS
    BY <2>1, <2>2, BoundAssumption
  <2> QED
    BY <2>1, <2>2, <2>3
<1> QED
  BY <1>1, <1>2

(* The counters keep their range. *)
LEMMA CounterType ==
  ASSUME TypeOK, CountOK', HeldOK', calls' \in 0..MaxCalls, timeout_handlers' \in Int
  PROVE  timeout_handlers' \in -MaxCalls..MaxCalls
<1>1. Cardinality(Running') \in Nat
  BY TimersAreFinite DEF Running
<1>2. pc'[App] = "increment_timeouts" => calls' >= 1
  BY MessageFields, BoundAssumption DEF HeldOK
<1>3. Uncounted' \in {0, 1} /\ (Uncounted' = 1 => calls' >= 1)
  BY <1>2 DEF Uncounted
<1>4. /\ Cardinality(Running') - Uncounted' <= timeout_handlers'
      /\ timeout_handlers' <= calls' - Uncounted'
  BY DEF CountOK, Owed
<1>5. \A running \in Nat, u \in {0, 1}, n \in 0..MaxCalls, h \in Int :
        /\ u = 1 => n >= 1
        /\ running - u <= h /\ h <= n - u
        => h \in -MaxCalls..MaxCalls
  BY BoundAssumption
<1> QED
  BY <1>1, <1>3, <1>4, <1>5

(* Every step keeps the state of its type. *)
LEMMA TypeStep ==
  ASSUME TypeOK, PcOK, HeldOK, HeldOK', CountOK', [Next]_vars
  PROVE  TypeOK'
<1> USE Threads DEF PcOK, goto, At
<1>t. /\ messages \in Seq(Message) /\ Len(messages) <= MAX_MSGS /\ applied \in Seq(Message)
      /\ timeout_handlers \in -MaxCalls..MaxCalls /\ timeout_handlers \in Int
      /\ timeout_handlers_mutex \in Thread \cup {NoOne}
      /\ waiting \in [Condition -> SUBSET Thread]
      /\ held \in [Thread -> Message \cup {NoMessage}]
      /\ seen \in [1..MaxCalls -> -MaxCalls..MaxCalls]
      /\ calls \in 0..MaxCalls /\ cancelled \in BOOLEAN
  BY BoundAssumption DEF TypeOK
<1>1. ASSUME NEW fcn \in Fcn, NEW timed \in Timed, queue_message(fcn, timed) PROVE TypeOK'
  <2>1. calls + 1 \in 1..MaxCalls /\ calls + 1 \in 0..MaxCalls
    BY <1>1, <1>t, BoundAssumption DEF queue_message
  <2>2. [fcn |-> fcn, call |-> calls + 1, from |-> App] \in Message
    BY <2>1 DEF Message
  <2>3. held' \in [Thread -> Message \cup {NoMessage}] /\ calls' \in 0..MaxCalls
    BY <1>1, <1>t, <2>1, <2>2 DEF queue_message
  <2> QED
    BY <1>1, <1>t, <2>3 DEF queue_message, TypeOK
<1>2. CASE destroy
  BY <1>2, <1>t DEF destroy, TypeOK
<1>3. CASE increment_timeouts
  <2>1. timeout_handlers' \in -MaxCalls..MaxCalls
    BY <1>3, <1>t, CounterType DEF increment_timeouts
  <2> QED
    BY <1>3, <1>t, <2>1 DEF increment_timeouts, TypeOK
<1>4. CASE app_add
  <2>1. held[App] \in Message
    BY <1>4 DEF app_add, HeldOK
  <2> QED
    BY <1>4, <1>t, <2>1, AddType DEF app_add, TypeOK
<1>5. CASE is_done_empty
  BY <1>5, <1>t, SMTT(30)
  DEF is_done_empty, is_empty, check_timeouts, wait_hzero, relock, wait, TypeOK
<1>6. CASE wait_for_exit
  BY <1>6, <1>t DEF wait_for_exit, TypeOK
<1>7. CASE get_message_from_queue
  BY <1>7, <1>t, GetType DEF get_message_from_queue, TypeOK
<1>8. CASE parse_msg
  <2>1. Append(applied, held[Dispatcher]) \in Seq(Message)
    BY <1>8, <1>t, AppendProperties DEF parse_msg, HeldOK
  <2> QED
    BY <1>8, <1>t, <2>1 DEF parse_msg, TypeOK
<1>9. CASE exit
  BY <1>9, <1>t DEF exit, TypeOK
<1>10. ASSUME NEW n \in 1..MaxCalls, timer_step(n) PROVE TypeOK'
  <2>1. CASE rti_timer(n)
    <3>1. [fcn |-> "FIND_CANDIDATES", call |-> n, from |-> Timer(n)] \in Message
      BY DEF Message
    <3>2. held' \in [Thread -> Message \cup {NoMessage}]
      BY <2>1, <3>1, <1>t DEF rti_timer
    <3> QED
      BY <2>1, <1>t, <3>2 DEF rti_timer, TypeOK
  <2>2. CASE timer_add(n)
    <3>1. held[Timer(n)] \in Message
      BY <2>2 DEF timer_add, HeldOK
    <3> QED
      BY <2>2, <1>t, <3>1, AddType DEF timer_add, TypeOK
  <2>3. CASE decrement_timeouts(n)
    <3>1. timeout_handlers' \in Int /\ seen' \in [1..MaxCalls -> -MaxCalls..MaxCalls]
      <4>1. seen[n] \in Int /\ seen[n] - 1 \in Int
        BY <1>t, BoundAssumption
      <4>2. timeout_handlers' \in {timeout_handlers, seen[n] - 1}
        BY <2>3 DEF decrement_timeouts
      <4>3. seen' \in {seen, [seen EXCEPT ![n] = timeout_handlers]}
        BY <2>3 DEF decrement_timeouts
      <4> QED
        BY <4>1, <4>2, <4>3, <1>t
    <3>2. calls' \in 0..MaxCalls
      BY <2>3, <1>t DEF decrement_timeouts
    <3>3. timeout_handlers' \in -MaxCalls..MaxCalls
      BY <3>1, <3>2, CounterType
    <3>4. /\ waiting' \in [Condition -> SUBSET Thread]
          /\ timeout_handlers_mutex' \in Thread \cup {NoOne}
      <4>1. waiting' \in {waiting, [waiting EXCEPT !["hzero_event"] = {}]}
        BY <2>3 DEF decrement_timeouts, broadcast
      <4>2. timeout_handlers_mutex' \in {timeout_handlers_mutex, Timer(n), NoOne}
        BY <2>3 DEF decrement_timeouts
      <4> QED
        BY <4>1, <4>2, <1>t
    <3>5. UNCHANGED <<messages, held, cancelled, applied>>
      BY <2>3 DEF decrement_timeouts
    <3> QED
      BY <1>t, <3>1, <3>2, <3>3, <3>4, <3>5 DEF TypeOK
  <2> QED
    BY <1>10, <2>1, <2>2, <2>3 DEF timer_step
<1>11. CASE (\E t \in Thread : spurious_wakeup(t)) \/ Terminated \/ UNCHANGED vars
  BY <1>11, <1>t DEF spurious_wakeup, Terminated, vars, TypeOK
<1> QED
  BY <1>1, <1>2, <1>3, <1>4, <1>5, <1>6, <1>7, <1>8, <1>9, <1>10, <1>11
  DEF Next, app_step, dispatcher_step

(* A drained interface stays drained. *)
LEMMA DrainedStep ==
  TypeOK /\ PcOK /\ CountOK /\ DrainedOK /\ [Next]_vars => DrainedOK'
<1> SUFFICES ASSUME TypeOK, PcOK, CountOK, DrainedOK, [Next]_vars PROVE DrainedOK'
  OBVIOUS
<1> USE Threads DEF PcOK, DrainedOK, goto, At
<1>1. ASSUME NEW fcn \in Fcn, NEW timed \in Timed, queue_message(fcn, timed) PROVE DrainedOK'
  BY <1>1 DEF queue_message
<1>2. CASE increment_timeouts
  BY <1>2, RunningStep DEF increment_timeouts
<1>3. CASE Quiet
  <2>1. Running' = Running
    BY <1>3, RunningStep
  <2>2. CASE destroy \/ exit
    BY <2>1, <2>2 DEF destroy, exit
  <2>3. CASE app_add
    BY <2>1, <2>3 DEF app_add, add_message_to_queue
  <2>4. CASE check_timeouts
    <3>1. timeout_handlers = 0 => Running = {}
      BY <2>4, RunningIsFinite DEF check_timeouts, CountOK, Owed, Uncounted
    <3> QED
      BY <2>1, <2>4, <3>1 DEF check_timeouts
  <2>5. CASE is_done_empty /\ ~check_timeouts
    BY <2>1, <2>5 DEF is_done_empty, is_empty, wait_hzero, relock
  <2>6. CASE wait_for_exit
    BY <2>1, <2>6 DEF wait_for_exit
  <2>7. CASE dispatcher_step
    BY <2>1, <2>7 DEF dispatcher_step, get_message_from_queue, parse_msg
  <2> QED
    BY <1>3, <2>2, <2>3, <2>4, <2>5, <2>6, <2>7 DEF Quiet
<1>4. ASSUME NEW n \in 1..MaxCalls, timer_step(n) PROVE DrainedOK'
  <2>1. pc'[App] = pc[App]
    BY <1>4
    DEF timer_step, rti_timer, timer_add, add_message_to_queue, decrement_timeouts
  <2>2. Running = {} => Running' = {}
    BY <1>4, RunningStep
  <2>3. Running = {} => messages' = messages
    BY <1>4 DEF timer_step, rti_timer, timer_add, decrement_timeouts, Running
  <2> QED
    BY <2>1, <2>2, <2>3
<1>5. CASE (\E t \in Thread : spurious_wakeup(t)) \/ Terminated \/ UNCHANGED vars
  <2>1. UNCHANGED <<pc, messages>> /\ Running' = Running
    BY <1>5 DEF spurious_wakeup, Terminated, vars, Running
  <2> QED
    BY <2>1
<1> QED
  BY <1>1, <1>2, <1>3, <1>4, <1>5 DEF Next, app_step, Quiet

-----------------------------------------------------------------------------
(* The invariant is inductive. *)
LEMMA IInvStep == IInv /\ [Next]_vars => IInv'
<1> SUFFICES ASSUME IInv, [Next]_vars PROVE IInv'
  OBVIOUS
<1>1. PcOK' /\ HeldOK' /\ MutexOK' /\ CountOK' /\ DrainedOK'
  BY PcStep, HeldStep, MutexStep, CountStep, DrainedStep DEF IInv
<1>2. TypeOK'
  BY <1>1, TypeStep DEF IInv
<1> QED
  BY <1>1, <1>2 DEF IInv

LEMMA IInvHolds == Spec => []IInv
BY InitIInv, IInvStep, PTL DEF Spec

(* The queue never outgrows MAX_MSGS, no message is mixed up, and
   timeout_handlers stays within the calls made although decrements of it may
   be lost. *)
THEOREM TypeCorrect == Spec => []TypeOK
<1>1. IInv => TypeOK
  BY DEF IInv
<1> QED
  BY <1>1, IInvHolds, PTL

(* When is_done_empty has answered, nothing is queued and no timer can queue
   anything any more: the counter it reads without the mutex may be too high,
   never too low. *)
THEOREM DoneAlwaysDrained == Spec => []DoneMeansDrained
<1>1. IInv => DoneMeansDrained
  BY DEF IInv, DrainedOK, DoneMeansDrained, Running
<1> QED
  BY <1>1, IInvHolds, PTL

-----------------------------------------------------------------------------
(* A message of a timer does not disturb the order of the calls ... *)
LEMMA TimerMessageInOrder ==
  ASSUME NEW s \in Seq(Message), NEW m \in Message, m.from # App,
         NEW n \in Nat, CallsInOrder(s, n)
  PROVE  CallsInOrder(Append(s, m), n)
<1> DEFINE t == Append(s, m)
           F(q) == {i \in DOMAIN q : q[i].from = App}
<1>1. /\ Len(s) \in Nat /\ DOMAIN s = 1..Len(s) /\ DOMAIN t = 1..(Len(s) + 1)
      /\ \A i \in 1..Len(s) : t[i] = s[i]
      /\ t[Len(s) + 1] = m
  BY AppendProperties, LenProperties
<1> HIDE DEF t
<1>2. F(t) = F(s)
  BY <1>1
<1>3. \A i \in F(s) : t[i] = s[i]
  BY <1>1
<1>4. {t[i].call : i \in F(t)} = {s[i].call : i \in F(s)}
  BY <1>2, <1>3
<1>5. CallsInOrder(t, n)
  BY <1>2, <1>3, <1>4 DEF CallsInOrder
<1> QED
  BY <1>5 DEF t

(* ... and the message of the next call continues it. *)
LEMMA CallMessageInOrder ==
  ASSUME NEW s \in Seq(Message), NEW n \in Nat, CallsInOrder(s, n),
         NEW m \in Message, m.from = App, m.call = n + 1
  PROVE  CallsInOrder(Append(s, m), n + 1)
<1> DEFINE t == Append(s, m)
           F(q) == {i \in DOMAIN q : q[i].from = App}
<1>1. /\ Len(s) \in Nat /\ DOMAIN s = 1..Len(s) /\ DOMAIN t = 1..(Len(s) + 1)
      /\ \A i \in 1..Len(s) : t[i] = s[i]
      /\ t[Len(s) + 1] = m
  BY AppendProperties, LenProperties
<1> HIDE DEF t
<1>2. F(t) = F(s) \cup {Len(s) + 1}
  BY <1>1
<1>3. \A i \in F(s) : t[i] = s[i] /\ i < Len(s) + 1 /\ i # Len(s) + 1
  BY <1>1
<1>4. {s[i].call : i \in F(s)} = 1..n
  BY DEF CallsInOrder
<1>5. {t[i].call : i \in F(t)} = 1..(n + 1)
  <2>1. {t[i].call : i \in F(t)} = {s[i].call : i \in F(s)} \cup {n + 1}
    BY <1>1, <1>2, <1>3
  <2>2. (1..n) \cup {n + 1} = 1..(n + 1)
    OBVIOUS
  <2> QED
    BY <1>4, <2>1, <2>2
<1>6. ASSUME NEW i \in F(t), NEW j \in F(t), i < j PROVE t[i].call < t[j].call
  <2>1. i \in F(s)
    BY <1>1, <1>2, <1>3, <1>6
  <2>2. CASE j \in F(s)
    BY <1>3, <1>6, <2>1, <2>2 DEF CallsInOrder
  <2>3. CASE j = Len(s) + 1
    <3>1. t[i].call \in 1..n
      BY <1>3, <1>4, <2>1
    <3> QED
      BY <1>1, <2>3, <3>1
  <2> QED
    BY <1>2, <1>6, <2>2, <2>3
<1>7. CallsInOrder(t, n + 1)
  BY <1>5, <1>6 DEF CallsInOrder
<1> QED
  BY <1>7 DEF t

(* Concatenation of messages is associative. *)
LEMMA ConcatMessages ==
  \A a, b, c \in Seq(Message) : a \o (b \o c) = (a \o b) \o c
<1> SUFFICES ASSUME NEW a \in Seq(Message), NEW b \in Seq(Message), NEW c \in Seq(Message)
             PROVE  a \o (b \o c) = (a \o b) \o c
  OBVIOUS
<1>1. (a \o b) \o c = a \o (b \o c)
  BY ConcatAssociative
<1> QED
  BY <1>1

(* The sequences that Received is made of *)
LEMMA ReceivedType ==
  ASSUME TypeOK
  PROVE  /\ InHand \in Seq(Message) /\ applied \in Seq(Message) /\ messages \in Seq(Message)
         /\ applied \o InHand \in Seq(Message)
         /\ Received \in Seq(Message)
<1>1. applied \in Seq(Message) /\ messages \in Seq(Message)
  BY DEF TypeOK
<1>2. InHand \in Seq(Message)
  BY Threads DEF TypeOK, InHand
<1>3. applied \o InHand \in Seq(Message)
  BY <1>1, <1>2, ConcatProperties
<1> QED
  BY <1>1, <1>2, <1>3, ConcatProperties DEF Received

(* Who calls add_message_to_queue appends to what the queue received, if it
   does anything. *)
LEMMA ReceivedAdd ==
  ASSUME TypeOK, NEW t \in Thread \ {Dispatcher}, held[t] \in Message, applied' = applied,
         NEW next, add_message_to_queue(t, next)
  PROVE  \/ Received' = Received /\ UNCHANGED pc
         \/ Received' = Append(Received, held[t]) /\ pc' = [pc EXCEPT ![t] = next]
<1>1. CASE Len(messages) = MAX_MSGS
  BY <1>1 DEF Received, InHand, add_message_to_queue
<1>2. CASE Len(messages) # MAX_MSGS
  <2>1. /\ messages' = Append(messages, held[t]) /\ held'[Dispatcher] = held[Dispatcher]
        /\ pc' = [pc EXCEPT ![t] = next]
    BY <1>2, Threads DEF TypeOK, goto, add_message_to_queue
  <2>2. messages' = messages \o <<held[t]>>
    BY <2>1, ReceivedType, AppendIsConcat
  <2>3. InHand' = InHand
    BY <2>1 DEF InHand
  <2>4. Received' = (applied \o InHand) \o (messages \o <<held[t]>>)
    BY <2>2, <2>3 DEF Received
  <2>5. <<held[t]>> \in Seq(Message)
    OBVIOUS
  <2>6. Received' = ((applied \o InHand) \o messages) \o <<held[t]>>
    <3> DEFINE x == applied \o InHand
    <3>1. x \in Seq(Message) /\ messages \in Seq(Message)
      BY ReceivedType
    <3> HIDE DEF x
    <3>2. x \o (messages \o <<held[t]>>) = (x \o messages) \o <<held[t]>>
      BY <2>5, <3>1, ConcatMessages
    <3> QED
      BY <2>4, <3>2 DEF x
  <2>7. Received' = Append(Received, held[t])
    BY <2>6, ReceivedType, AppendIsConcat DEF Received
  <2> QED
    BY <2>1, <2>7
<1> QED
  BY <1>1, <1>2

(* Handing a message to the dispatcher, or applying it, moves it from one part
   of Received to the next. *)
LEMMA ReceivedMoves ==
  ASSUME TypeOK, HeldOK, dispatcher_step
  PROVE  Received' = Received
<1>1. CASE get_message_from_queue
  <2>1. InHand = <<>> /\ applied' = applied
    BY <1>1 DEF get_message_from_queue, HeldOK, InHand
  <2>2. CASE messages = <<>>
    BY <1>1, <2>2 DEF get_message_from_queue, Received, InHand
  <2>3. CASE messages # <<>>
    <3>1. Head(messages) \in Message /\ messages = <<Head(messages)>> \o Tail(messages)
      BY <2>3, ReceivedType
    <3>2. held'[Dispatcher] = Head(messages) /\ messages' = Tail(messages)
      BY <1>1, <2>3, Threads DEF get_message_from_queue, NextMessage, TypeOK
    <3>3. InHand' = <<Head(messages)>>
      BY <3>1, <3>2, AMessageIsThere DEF InHand
    <3>4. Received' = (applied \o <<Head(messages)>>) \o Tail(messages)
      BY <2>1, <3>2, <3>3 DEF Received
    <3>5. Tail(messages) \in Seq(Message) /\ <<Head(messages)>> \in Seq(Message)
      BY <2>3, <3>1, ReceivedType, HeadTailProperties
    <3>6. (applied \o <<Head(messages)>>) \o Tail(messages)
            = applied \o (<<Head(messages)>> \o Tail(messages))
      BY <3>5, ReceivedType, ConcatMessages, SMTT(30)
    <3>7. Received = applied \o messages
      BY <2>1, ReceivedType, ConcatEmptySeq DEF Received
    <3> QED
      BY <3>1, <3>4, <3>6, <3>7
  <2> QED
    BY <2>2, <2>3
<1>2. CASE parse_msg
  <2>1. held[Dispatcher] \in Message /\ held[Dispatcher] # NoMessage
    BY <1>2, AMessageIsThere DEF parse_msg, At, HeldOK
  <2>2. applied' = applied \o InHand /\ messages' = messages
    BY <1>2, <2>1, ReceivedType, AppendIsConcat DEF parse_msg, InHand
  <2>3. InHand' = <<>>
    BY <1>2, Threads DEF parse_msg, InHand, TypeOK
  <2>4. (applied \o InHand) \o <<>> = applied \o InHand
    BY ReceivedType, ConcatEmptySeq
  <2> QED
    BY <2>2, <2>3, <2>4 DEF Received
<1> QED
  BY <1>1, <1>2 DEF dispatcher_step

(* What the queue received stays in the order of the calls. *)
LEMMA OrderStep == IInv /\ HeardInOrder /\ [Next]_vars => HeardInOrder'
<1> SUFFICES ASSUME IInv, HeardInOrder, [Next]_vars PROVE HeardInOrder'
  OBVIOUS
<1> USE Threads DEF goto, At
<1>i. TypeOK /\ PcOK /\ HeldOK
  BY DEF IInv
<1>t. /\ Received \in Seq(Message) /\ calls \in Nat
      /\ DOMAIN pc = Thread /\ held \in [Thread -> Message \cup {NoMessage}]
  BY <1>i, ReceivedType, BoundAssumption DEF TypeOK, PcOK
<1>m. made \in Nat
  BY <1>i, <1>t, MessageFields, BoundAssumption DEF made, HeldOK
<1>0. ASSUME Received' = Received, made' = made PROVE HeardInOrder'
  BY <1>0 DEF HeardInOrder, CallsInOrder
<1>1. ASSUME NEW fcn \in Fcn, NEW timed \in Timed, queue_message(fcn, timed)
      PROVE  HeardInOrder'
  <2>1. held'[Dispatcher] = held[Dispatcher] /\ Received' = Received
    BY <1>1, <1>t DEF queue_message, Received, InHand
  <2>2. calls' = calls + 1 /\ pc[App] = "user" /\ pc'[App] \in {"increment_timeouts", "add"}
    BY <1>1, <1>t DEF queue_message
  <2>3. made' = made
    BY <1>t, <2>2 DEF made
  <2> QED
    BY <1>0, <2>1, <2>3
<1>2. CASE increment_timeouts \/ destroy \/ is_done_empty \/ wait_for_exit
  <2>1. Received' = Received
    BY <1>2 DEF increment_timeouts, destroy, is_done_empty, is_empty, check_timeouts,
                wait_hzero, relock, wait_for_exit, Received, InHand
  <2>2. calls' = calls
    BY <1>2 DEF increment_timeouts, destroy, is_done_empty, is_empty, check_timeouts,
                wait_hzero, relock, wait_for_exit
  <2>3. (pc'[App] \in {"increment_timeouts", "add"}) = (pc[App] \in {"increment_timeouts", "add"})
    BY <1>2, <1>t
    DEF increment_timeouts, destroy, is_done_empty, is_empty, check_timeouts,
        wait_hzero, relock, wait_for_exit
  <2> QED
    BY <1>0, <2>1, <2>2, <2>3 DEF made
<1>3. CASE app_add
  <2>1. /\ held[App] \in Message /\ held[App].from = App /\ held[App].call = calls
        /\ made = calls - 1 /\ calls' = calls /\ applied' = applied
        /\ add_message_to_queue(App, "user")
    BY <1>3, <1>i DEF app_add, HeldOK, made
  <2>2. CASE Received' = Received /\ UNCHANGED pc
    BY <1>0, <2>1, <2>2 DEF made
  <2>3. CASE Received' = Append(Received, held[App]) /\ pc' = [pc EXCEPT ![App] = "user"]
    <3>1. made' = made + 1 /\ held[App].call = made + 1
      BY <1>t, <2>1, <2>3 DEF made
    <3>2. CallsInOrder(Append(Received, held[App]), made + 1)
      BY <1>t, <1>m, <2>1, <3>1, CallMessageInOrder DEF HeardInOrder
    <3>3. CallsInOrder(Received', made')
      BY <2>3, <3>1, <3>2
    <3> QED
      BY <3>3 DEF HeardInOrder, CallsInOrder
  <2> QED
    BY <1>i, <2>1, <2>2, <2>3, ReceivedAdd
<1>4. CASE dispatcher_step
  <2>1. Received' = Received
    BY <1>4, <1>i, ReceivedMoves
  <2>2. calls' = calls /\ pc'[App] = pc[App]
    BY <1>4, <1>t DEF dispatcher_step, get_message_from_queue, parse_msg
  <2> QED
    BY <1>0, <2>1, <2>2 DEF made
<1>5. CASE exit
  BY <1>0, <1>5, <1>t DEF exit, Received, InHand, made
<1>6. ASSUME NEW n \in 1..MaxCalls, timer_step(n) PROVE HeardInOrder'
  <2>1. calls' = calls /\ pc'[App] = pc[App] /\ made' = made /\ applied' = applied
    BY <1>6, <1>t
    DEF timer_step, rti_timer, timer_add, add_message_to_queue, decrement_timeouts, made
  <2>2. CASE rti_timer(n) \/ decrement_timeouts(n)
    <3>1. messages' = messages /\ held'[Dispatcher] = held[Dispatcher]
      BY <1>t, <2>2 DEF rti_timer, decrement_timeouts
    <3> QED
      BY <1>0, <2>1, <3>1 DEF Received, InHand
  <2>3. CASE timer_add(n)
    <3>1. /\ held[Timer(n)] \in Message /\ held[Timer(n)].from # App
          /\ add_message_to_queue(Timer(n), "decrement_timeouts")
      BY <1>i, <2>3 DEF timer_add, HeldOK
    <3>2. CASE Received' = Received
      BY <1>0, <2>1, <3>2
    <3>3. CASE Received' = Append(Received, held[Timer(n)])
      <4>1. CallsInOrder(Append(Received, held[Timer(n)]), made)
        BY <1>t, <1>m, <3>1, TimerMessageInOrder DEF HeardInOrder
      <4>2. CallsInOrder(Received', made')
        BY <2>1, <3>3, <4>1
      <4> QED
        BY <4>2 DEF HeardInOrder, CallsInOrder
    <3> QED
      BY <1>i, <2>1, <3>1, <3>2, <3>3, ReceivedAdd
  <2> QED
    BY <1>6, <2>2, <2>3 DEF timer_step
<1>7. CASE (\E t \in Thread : spurious_wakeup(t)) \/ Terminated \/ UNCHANGED vars
  BY <1>0, <1>7 DEF spurious_wakeup, Terminated, vars, Received, InHand, made
<1> QED
  BY <1>1, <1>2, <1>3, <1>4, <1>5, <1>6, <1>7 DEF Next, app_step

(* The Tracker hears the caller's messages once each and in the order of the
   calls, whatever the timers and the shutdown interleave with them. *)
THEOREM AlwaysHeardInOrder == Spec => []HeardInOrder
<1>1. Init => HeardInOrder
  <2> SUFFICES ASSUME Init PROVE HeardInOrder
    OBVIOUS
  <2>1. applied = <<>> /\ messages = <<>> /\ held[Dispatcher] = NoMessage /\ calls = 0
        /\ pc[App] = "user"
    BY Threads DEF Init
  <2>2. Received = <<>> /\ made = 0
    BY <2>1 DEF Received, InHand, made
  <2> QED
    BY <2>2 DEF HeardInOrder, CallsInOrder
<1>2. IInv /\ HeardInOrder /\ [Next]_vars => HeardInOrder'
  BY OrderStep
<1> QED
  BY <1>1, <1>2, IInvHolds, PTL DEF Spec

=============================================================================
