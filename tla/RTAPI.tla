-------------------------------- MODULE RTAPI --------------------------------
(***************************************************************************)
(* The real-time interface of Livingstone2 for POSIX threads               *)
(* (mba/cpp/src/realtime_api/posix): a bounded queue between the caller's  *)
(* thread (which also runs the destructor), one dispatcher thread that     *)
(* hands messages to the Tracker, and one timer thread per timed call that *)
(* asks for a diagnosis when it expires.                                   *)
(*                                                                         *)
(* A critical section of queue_items_mutex is one step.  The mutex of      *)
(* timeout_handlers has an owner, because is_done_empty waits on it        *)
(* without holding it: pthread_cond_wait then releases it for whoever      *)
(* does.  A wait is membership of a condition's wait set; a thread leaves  *)
(* it by a broadcast or, as POSIX allows, spuriously.                      *)
(*                                                                         *)
(* An operator named X_Y is the mutated form Y of the definition X, for    *)
(* the mutation runs; no specification uses it.                            *)
(***************************************************************************)
EXTENDS Integers, Sequences, SequencesExt, FiniteSets

CONSTANTS
  MAX_MSGS,   \* GuardedQueue::MAX_MSGS
  MaxCalls,   \* how many queue_... calls the caller makes at most
  Fcn,        \* the message kinds the caller sends
  Timed       \* may the caller start timers?  a subset of BOOLEAN

ASSUME BoundAssumption == MAX_MSGS \in Nat \ {0} /\ MaxCalls \in Nat

ASSUME InputAssumption ==
  /\ Fcn \subseteq {"COMMAND", "OBSERVATION", "FIND_CANDIDATES", "REPORT_FULL_STATE"}
  /\ Timed \subseteq BOOLEAN

App == <<"app", 0>>
Dispatcher == <<"dispatcher", 0>>
Timer(n) == <<"timer", n>>
Timers == {Timer(n) : n \in 1..MaxCalls}
Thread == {App, Dispatcher} \cup Timers

NoOne == <<"no one", 0>>

(* A LivingstoneMessage: what to do, and the call (by its number) that sent it
   or started the timer that sent it. *)
Message == [fcn : Fcn \cup {"FIND_CANDIDATES"}, call : 1..MaxCalls, from : Thread]

VARIABLES
  messages,               \* GuardedQueue::messages (messages_in_queue is its length)
  timeout_handlers,       \* GuardedQueue::timeout_handlers
  timeout_handlers_mutex, \* who holds it
  waiting,                \* for every condition, the threads waiting on it
  pc,                     \* where every thread is
  held,                   \* the message a thread is about to queue or to handle
  seen,                   \* a timer's copy of timeout_handlers while it decrements
  calls,                  \* calls made so far
  cancelled,              \* pthread_cancel was called on the dispatcher
  applied                 \* what the Tracker was told, in order

vars == <<messages, timeout_handlers, timeout_handlers_mutex, waiting, pc, held,
          seen, calls, cancelled, applied>>

NoMessage == <<>>

Condition == {"notEmpty", "notFull", "isEmpty", "hzero_event"}

(* pthread_cond_wait and pthread_cond_broadcast, on the wait sets *)
Blocked(t) == \E cv \in Condition : t \in waiting[cv]
wait(t, cv) == waiting' = [waiting EXCEPT ![cv] = @ \cup {t}]
broadcast(cv) == waiting' = [waiting EXCEPT ![cv] = {}]

At(t, label) == pc[t] = label /\ ~Blocked(t)
goto(t, label) == pc' = [pc EXCEPT ![t] = label]

-----------------------------------------------------------------------------
(* The queue *)

add_message_to_queue_NoSignal(t, next) ==
  IF Len(messages) = MAX_MSGS
    THEN /\ wait(t, "notFull")
         /\ UNCHANGED <<messages, pc, held>>
    ELSE /\ messages' = Append(messages, held[t])
         /\ held' = [held EXCEPT ![t] = NoMessage]
         /\ goto(t, next)
         /\ UNCHANGED waiting

add_message_to_queue_Unbounded(t, next) ==
  /\ messages' = Append(messages, held[t])
  /\ held' = [held EXCEPT ![t] = NoMessage]
  /\ broadcast("notEmpty")
  /\ goto(t, next)

(* GuardedQueue::add_message_to_queue: wait while full, then append. *)
add_message_to_queue(t, next) ==
  IF Len(messages) = MAX_MSGS
    THEN /\ wait(t, "notFull")
         /\ UNCHANGED <<messages, pc, held>>
    ELSE /\ messages' = Append(messages, held[t])
         /\ held' = [held EXCEPT ![t] = NoMessage]
         /\ broadcast("notEmpty")
         /\ goto(t, next)

NextMessage_Newest == Last(messages)

(* Slist::front on the queue's list. *)
NextMessage == Head(messages)

EmptyWaiters_Kept == waiting["isEmpty"]

(* Who still waits for isEmpty after the dispatcher found the queue empty: it
   announces isEmpty when it comes and finds nothing, not when it wakes. *)
EmptyWaiters == IF pc[Dispatcher] = "get" THEN {} ELSE waiting["isEmpty"]

(* GuardedQueue::get_message_from_queue, called by the dispatcher alone. *)
get_message_from_queue ==
  /\ pc[Dispatcher] \in {"get", "woken"} /\ ~Blocked(Dispatcher)
  /\ IF messages = <<>>
       THEN /\ waiting' = [waiting EXCEPT !["notEmpty"] = @ \cup {Dispatcher},
                                       !["isEmpty"] = EmptyWaiters]
            /\ goto(Dispatcher, "woken")
            /\ UNCHANGED <<messages, held>>
       ELSE /\ held' = [held EXCEPT ![Dispatcher] = NextMessage]
            /\ messages' = Tail(messages)
            /\ broadcast("notFull")
            /\ goto(Dispatcher, "parse_msg")
  /\ UNCHANGED <<timeout_handlers, timeout_handlers_mutex, seen, calls, cancelled,
                 applied>>

(* GuardedQueue::is_empty *)
is_empty(label, next) ==
  /\ At(App, label)
  /\ IF messages = <<>>
       THEN goto(App, next) /\ UNCHANGED waiting
       ELSE wait(App, "isEmpty") /\ UNCHANGED pc
  /\ UNCHANGED <<messages, timeout_handlers, timeout_handlers_mutex, held, seen, calls,
                 cancelled, applied>>

-----------------------------------------------------------------------------
(* The caller's thread *)

(* L2_rtapi::queue_command, queue_observation, queue_find_candidates,
   queue_report_full_state, queue_start_command_and_time and
   queue_observations_and_time, up to add_message_to_queue.  A timed call
   starts its timer first and counts it afterwards. *)
queue_message(fcn, timed) ==
  LET n == calls + 1
  IN  /\ At(App, "user")
      /\ calls < MaxCalls
      /\ timed => fcn \in {"COMMAND", "OBSERVATION"}
      /\ calls' = n
      /\ held' = [held EXCEPT ![App] = [fcn |-> fcn, call |-> n, from |-> App]]
      /\ pc' = IF timed
                 THEN [pc EXCEPT ![App] = "increment_timeouts", ![Timer(n)] = "sleep"]
                 ELSE [pc EXCEPT ![App] = "add"]
      /\ UNCHANGED <<messages, timeout_handlers, timeout_handlers_mutex, waiting, seen,
                     cancelled, applied>>

(* GuardedQueue::increment_timeouts *)
increment_timeouts ==
  /\ At(App, "increment_timeouts")
  /\ timeout_handlers_mutex = NoOne
  /\ timeout_handlers' = timeout_handlers + 1
  /\ goto(App, "add")
  /\ UNCHANGED <<messages, timeout_handlers_mutex, waiting, held, seen, calls, cancelled,
                 applied>>

app_add ==
  /\ At(App, "add")
  /\ add_message_to_queue(App, "user")
  /\ UNCHANGED <<timeout_handlers, timeout_handlers_mutex, seen, calls, cancelled, applied>>

(* L2_rtapi::~L2_rtapi, which enters GuardedQueue::is_done_empty. *)
destroy ==
  /\ At(App, "user")
  /\ goto(App, "is_empty")
  /\ UNCHANGED <<messages, timeout_handlers, timeout_handlers_mutex, waiting, held, seen,
                 calls, cancelled, applied>>

check_timeouts_NoSecondLook ==
  /\ At(App, "check_timeouts")
  /\ goto(App, IF timeout_handlers # 0 THEN "wait_hzero" ELSE "cancel")
  /\ UNCHANGED <<messages, timeout_handlers, timeout_handlers_mutex, waiting, held, seen,
                 calls, cancelled, applied>>

(* The while of is_done_empty reads timeout_handlers without its mutex ... *)
check_timeouts ==
  /\ At(App, "check_timeouts")
  /\ goto(App, IF timeout_handlers # 0 THEN "wait_hzero" ELSE "is_empty_again")
  /\ UNCHANGED <<messages, timeout_handlers, timeout_handlers_mutex, waiting, held, seen,
                 calls, cancelled, applied>>

(* ... waits, releasing a mutex it may not hold ... *)
wait_hzero ==
  /\ At(App, "wait_hzero")
  /\ timeout_handlers_mutex' = NoOne
  /\ wait(App, "hzero_event")
  /\ goto(App, "relock")
  /\ UNCHANGED <<messages, timeout_handlers, held, seen, calls, cancelled, applied>>

(* ... and once woken holds it, when it leaves the loop too. *)
relock ==
  /\ At(App, "relock")
  /\ timeout_handlers_mutex = NoOne
  /\ timeout_handlers_mutex' = App
  /\ goto(App, "check_timeouts")
  /\ UNCHANGED <<messages, timeout_handlers, waiting, held, seen, calls, cancelled, applied>>

is_done_empty ==
  \/ is_empty("is_empty", "check_timeouts")
  \/ check_timeouts
  \/ wait_hzero
  \/ relock
  \/ is_empty("is_empty_again", "cancel")

(* ThreadObject::wait_for_exit: pthread_cancel, then pthread_join. *)
wait_for_exit ==
  \/ /\ At(App, "cancel")
     /\ cancelled' = TRUE
     /\ goto(App, "join")
     /\ UNCHANGED <<messages, timeout_handlers, timeout_handlers_mutex, waiting, held,
                    seen, calls, applied>>
  \/ /\ At(App, "join")
     /\ pc[Dispatcher] = "dead"
     /\ goto(App, "gone")
     /\ UNCHANGED <<messages, timeout_handlers, timeout_handlers_mutex, waiting, held,
                    seen, calls, cancelled, applied>>

-----------------------------------------------------------------------------
(* The dispatcher's thread *)

(* LivingstoneDispatcher::parse_msg, outside the queue's mutex *)
parse_msg ==
  /\ At(Dispatcher, "parse_msg")
  /\ applied' = Append(applied, held[Dispatcher])
  /\ held' = [held EXCEPT ![Dispatcher] = NoMessage]
  /\ goto(Dispatcher, "get")
  /\ UNCHANGED <<messages, timeout_handlers, timeout_handlers_mutex, waiting, seen, calls,
                 cancelled>>

(* The dispatcher's cancel type is asynchronous: it may go anywhere. *)
exit ==
  /\ cancelled
  /\ pc[Dispatcher] # "dead"
  /\ goto(Dispatcher, "dead")
  /\ waiting' = [waiting EXCEPT !["notEmpty"] = @ \ {Dispatcher}]
  /\ UNCHANGED <<messages, timeout_handlers, timeout_handlers_mutex, held, seen, calls,
                 cancelled, applied>>

-----------------------------------------------------------------------------
(* A timer's thread: rti_timer and the default timeout handler *)

(* The sleep is over; default_command_timeout or default_observation_timeout
   calls queue_find_candidates. *)
rti_timer(n) ==
  /\ At(Timer(n), "sleep")
  /\ held' = [held EXCEPT ![Timer(n)] =
                [fcn |-> "FIND_CANDIDATES", call |-> n, from |-> Timer(n)]]
  /\ goto(Timer(n), "add")
  /\ UNCHANGED <<messages, timeout_handlers, timeout_handlers_mutex, waiting, seen, calls,
                 cancelled, applied>>

timer_add(n) ==
  /\ At(Timer(n), "add")
  /\ add_message_to_queue(Timer(n), "decrement_timeouts")
  /\ UNCHANGED <<timeout_handlers, timeout_handlers_mutex, seen, calls, cancelled, applied>>

(* GuardedQueue::decrement_timeouts: lock and read, write and broadcast,
   unlock.  The steps are apart because the mutex may be taken away. *)
decrement_timeouts(n) ==
  \/ /\ At(Timer(n), "decrement_timeouts")
     /\ timeout_handlers_mutex = NoOne
     /\ timeout_handlers_mutex' = Timer(n)
     /\ seen' = [seen EXCEPT ![n] = timeout_handlers]
     /\ goto(Timer(n), "write")
     /\ UNCHANGED <<messages, timeout_handlers, waiting, held, calls, cancelled, applied>>
  \/ /\ At(Timer(n), "write")
     /\ timeout_handlers' = seen[n] - 1
     /\ broadcast("hzero_event")
     /\ goto(Timer(n), "unlock")
     /\ UNCHANGED <<messages, timeout_handlers_mutex, held, seen, calls, cancelled, applied>>
  \/ /\ At(Timer(n), "unlock")
     /\ timeout_handlers_mutex' = NoOne
     /\ goto(Timer(n), "done")
     /\ UNCHANGED <<messages, timeout_handlers, waiting, held, seen, calls, cancelled,
                    applied>>

-----------------------------------------------------------------------------
(* A spurious return from pthread_cond_wait. *)
spurious_wakeup(t) ==
  /\ Blocked(t)
  /\ waiting' = [cv \in Condition |-> waiting[cv] \ {t}]
  /\ UNCHANGED <<messages, timeout_handlers, timeout_handlers_mutex, pc, held, seen, calls,
                 cancelled, applied>>

(* The interface is gone and so are its threads. *)
Terminated == pc[App] = "gone" /\ UNCHANGED vars

(* L2_rtapi::L2_rtapi has returned: the dispatcher runs, nothing is queued. *)
Init ==
  /\ messages = <<>>
  /\ timeout_handlers = 0
  /\ timeout_handlers_mutex = NoOne
  /\ waiting = [cv \in Condition |-> {}]
  /\ pc = [t \in Thread |->
             IF t = App THEN "user" ELSE IF t = Dispatcher THEN "get" ELSE "none"]
  /\ held = [t \in Thread |-> NoMessage]
  /\ seen = [n \in 1..MaxCalls |-> 0]
  /\ calls = 0
  /\ cancelled = FALSE
  /\ applied = <<>>

(* A thread inside the interface; entering it is the caller's choice. *)
app_step == increment_timeouts \/ app_add \/ is_done_empty \/ wait_for_exit
dispatcher_step == get_message_from_queue \/ parse_msg
timer_step(n) == rti_timer(n) \/ timer_add(n) \/ decrement_timeouts(n)

Next ==
  \/ \E fcn \in Fcn, timed \in Timed : queue_message(fcn, timed)
  \/ destroy
  \/ app_step
  \/ dispatcher_step
  \/ exit
  \/ \E n \in 1..MaxCalls : timer_step(n)
  \/ \E t \in Thread : spurious_wakeup(t)
  \/ Terminated

Spec == Init /\ [][Next]_vars

(* The system's scheduler runs every thread that can run, and delivers a
   cancellation. *)
FairSpec ==
  /\ Spec
  /\ WF_vars(app_step)
  /\ WF_vars(dispatcher_step)
  /\ WF_vars(exit)
  /\ \A n \in 1..MaxCalls : WF_vars(timer_step(n))

-----------------------------------------------------------------------------
TypeOK ==
  /\ messages \in Seq(Message) /\ Len(messages) <= MAX_MSGS
  /\ timeout_handlers \in -MaxCalls..MaxCalls
  /\ timeout_handlers_mutex \in Thread \cup {NoOne}
  /\ waiting \in [Condition -> SUBSET Thread]
  /\ held \in [Thread -> Message \cup {NoMessage}]
  /\ seen \in [1..MaxCalls -> -MaxCalls..MaxCalls]
  /\ calls \in 0..MaxCalls
  /\ cancelled \in BOOLEAN
  /\ applied \in Seq(Message)

(* The message that the dispatcher took from the queue and has not applied *)
InHand == IF held[Dispatcher] = NoMessage THEN <<>> ELSE <<held[Dispatcher]>>

(* What was given to the queue so far, oldest first. *)
Received == (applied \o InHand) \o messages

(* The calls whose message was given to the queue: all but the one being made. *)
made == IF pc[App] \in {"increment_timeouts", "add"} THEN calls - 1 ELSE calls

(* The caller's messages in s are those of the calls 1, 2, ..., n, in order. *)
CallsInOrder(s, n) ==
  LET fromApp == {i \in DOMAIN s : s[i].from = App}
  IN  /\ {s[i].call : i \in fromApp} = 1..n
      /\ \A i, j \in fromApp : i < j => s[i].call < s[j].call

(* The Tracker hears every message of the caller once and in the order of the
   calls, and nothing it was not sent: what was applied, is in the
   dispatcher's hands and is queued are the calls 1, 2, 3, ... in order, up to
   the one being made.  A command applied before the observations that
   preceded it would be diagnosed against the wrong state. *)
HeardInOrder == CallsInOrder(Received, made)

(* is_done_empty returns only when nothing is queued and no timer can still
   queue anything: "whether it's empty and not waiting for timeouts which may
   place another message upon it" (guardedqueue.h). *)
DoneMeansDrained ==
  pc[App] \in {"cancel", "join", "gone"} =>
    /\ messages = <<>>
    /\ \A n \in 1..MaxCalls : pc[Timer(n)] \notin {"sleep", "add"}

(* A call of queue_... returns although the queue may be full. *)
CallsReturn == pc[App] \in {"increment_timeouts", "add"} ~> pc[App] = "user"

(* What the caller queued is applied unless the interface is shut down. *)
EveryCallApplied ==
  \A n \in 1..MaxCalls :
    calls >= n ~> \/ cancelled
                  \/ \E i \in DOMAIN applied : applied[i].call = n /\ applied[i].from = App

(* The destructor returns: "normal behavior is to wait until the queue is
   emptied" (livapi_rt.cpp). *)
DestructorReturns == pc[App] = "is_empty" ~> pc[App] = "gone"

(* The destructor returns when it is called after the last timer is through. *)
DestructorReturnsWhenIdle ==
  (pc[App] = "is_empty" /\ \A n \in 1..MaxCalls : pc[Timer(n)] \in {"none", "done"})
    ~> pc[App] = "gone"

=============================================================================
