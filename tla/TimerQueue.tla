----------------------------- MODULE TimerQueue -----------------------------
(***************************************************************************)
(* The timers of one EventLoop (TimerQueue.cc, Timer.h): timers_ ordered   *)
(* by deadline, one timerfd armed for the first of them, and handleRead,   *)
(* which runs and restarts those that have expired.                        *)
(*                                                                         *)
(* Deadlines are read off the wall clock (now), which can be set; the      *)
(* timerfd counts down on the monotonic clock (left).  One unit of time is *)
(* the shortest time for which the timerfd is armed.  User code runs in    *)
(* the loop's thread, in a timer's callback (loopPc = "callback") or       *)
(* elsewhere ("idle", where the loop also waits), and in other threads,    *)
(* whose calls the loop runs as tasks, in the order of module EventLoop.   *)
(*                                                                         *)
(* Users hold a raw Timer*, which cancelTimer deletes wherever it is: in   *)
(* timers_, in handleRead's entries or in a queued insertion.  A Timer     *)
(* that is used after its deletion is a fault, and the behaviour ends with *)
(* it.  A deleted Timer's memory is not given to a new one.                *)
(***************************************************************************)
EXTENDS Integers, Sequences

CONSTANTS N,          \* bound: timers that are ever allocated
          Delays,     \* how far ahead timers are set
          Intervals,  \* their intervals; 0 for one that does not repeat
          MaxTime,    \* bound: the wall clock stops here
          MaxJumps    \* bound: how often it is set

ASSUME BoundAssumption == N \in Nat /\ MaxTime \in Nat /\ MaxJumps \in Nat
ASSUME TimesAssumption == Delays \subseteq Nat /\ Intervals \subseteq Nat

(* Pointers; std::set orders entries of one deadline by them. *)
Timer == 1..N

VARIABLES
  loopPc,    \* where the loop's thread is
  now,       \* the wall clock
  jumps,     \* how often it has been set
  left,      \* time until the timerfd expires; 0 when it is not armed
  readable,  \* the timerfd has expired and has not been read
  timers,    \* timers_
  batch,     \* handleRead's entries: what is left of them
  pending,   \* tasks queued by addTimer and cancelTimer in other threads
  memory,    \* whether each Timer is allocated
  canceled,  \* canceled_
  when, interval,
  fault,     \* a Timer that was used after its deletion, or None
  first,     \* history: the deadline each timer was created with
  runs,      \* history: how often each has run
  asked,     \* history: timers that cancelTimer was called for
  risky      \* history: those for which it was called at a bad time

clock == <<now, jumps>>
timerfd == <<left, readable>>
fields == <<when, interval, first>>
calls == <<asked, risky>>
vars == <<loopPc, clock, timerfd, timers, batch, pending, memory, canceled, fields,
          fault, runs, calls>>

None == 0

Init ==
  /\ loopPc = "idle"
  /\ now = 0 /\ jumps = 0
  /\ left = 0 /\ readable = FALSE
  /\ timers = {} /\ batch = {}
  /\ pending = <<>>
  /\ memory = [t \in Timer |-> "unused"]
  /\ when = [t \in Timer |-> 0] /\ interval = [t \in Timer |-> 0]
  /\ first = [t \in Timer |-> 0]
  /\ runs = [t \in Timer |-> 0]
  /\ canceled = [t \in Timer |-> FALSE]
  /\ fault = None
  /\ asked = {} /\ risky = {}

-----------------------------------------------------------------------------
(* The order of std::set<Entry>: an entry of deadline d for t before u's.  *)
Before(d, t, u) == d < when[u] \/ (d = when[u] /\ t < u)

(* S.begin() *)
First(S) == CHOOSE t \in S : \A u \in S \ {t} : Before(when[t], t, u)

(* Mutant: a deadline that has passed gives none, which disarms the        *)
(* timerfd.                                                                *)
DurationZero(d) == IF d > now THEN d - now ELSE 0

(* At least the minimum of 1 ms. *)
DurationFromNow(d) == IF d > now THEN d - now ELSE 1

(* Setting a timerfd also forgets that it has expired. *)
TimerfdSet(d) ==
  /\ left' = DurationFromNow(d)
  /\ readable' = FALSE

(* Mutant: only the first timer of all is noticed. *)
ComesFirstOfAll(d, t) == timers = {}

(* timers_.begin() == ret.first, for the entry just inserted. *)
ComesFirst(d, t) == \A u \in timers : Before(d, t, u)

(* A Timer is read or written. *)
Use(t) == fault' = IF memory[t] = "deleted" THEN t ELSE fault

(* The lambdas of addTimer, which does not look into the Timer, and        *)
(* cancelTimer.                                                            *)
Insert(d, t) ==
  /\ timers' = timers \cup {t}
  /\ IF ComesFirst(d, t) THEN TimerfdSet(d) ELSE UNCHANGED timerfd

Erase(t) ==
  /\ Use(t)
  /\ canceled' = [canceled EXCEPT ![t] = TRUE]
  /\ timers' = timers \ {t}
  /\ memory' = [memory EXCEPT ![t] = "deleted"]

-----------------------------------------------------------------------------
(* handleRead. *)

(* The entries before (now + 1ns, nullptr). *)
Expired == {t \in timers : when[t] <= now}

(* Mutant: getExpired copies the entries. *)
UnexpiredAll == timers

(* What getExpired leaves in timers_. *)
Unexpired == timers \ Expired

HandleRead ==
  /\ loopPc = "idle" /\ readable
  /\ readable' = FALSE
  /\ batch' = Expired
  /\ timers' = Unexpired
  /\ loopPc' = "batch"
  /\ UNCHANGED <<clock, left, pending, memory, canceled, fields, fault, runs, calls>>

RunTimer ==
  /\ loopPc = "batch" /\ batch # {}
  /\ LET t == First(batch) IN
       /\ Use(t)
       /\ runs' = IF canceled[t] THEN runs ELSE [runs EXCEPT ![t] = @ + 1]
  /\ loopPc' = "callback"
  /\ UNCHANGED <<clock, timerfd, timers, batch, pending, memory, canceled, fields, calls>>

(* Mutant: the next deadline is counted from now on. *)
RestartDrifting(t) ==
  /\ when' = [when EXCEPT ![t] = now + interval[t]]
  /\ timers' = timers \cup {t}
  /\ UNCHANGED memory

Restart(t) ==
  /\ when' = [when EXCEPT ![t] = @ + interval[t]]
  /\ timers' = timers \cup {t}
  /\ UNCHANGED memory

Discard(t) ==
  /\ memory' = [memory EXCEPT ![t] = "deleted"]
  /\ UNCHANGED <<when, timers>>

(* repeat() *)
Repeat(t) == interval[t] > 0

EndTimer ==
  /\ loopPc = "callback"
  /\ LET t == First(batch) IN
       /\ Use(t)
       /\ batch' = batch \ {t}
       /\ IF ~canceled[t] /\ Repeat(t) THEN Restart(t) ELSE Discard(t)
  /\ loopPc' = "batch"
  /\ UNCHANGED <<clock, timerfd, pending, canceled, interval, first, runs, calls>>

(* Mutant: the timerfd is not set again. *)
RearmNot == UNCHANGED timerfd

Rearm == IF timers # {} THEN TimerfdSet(when[First(timers)]) ELSE UNCHANGED timerfd

EndBatch ==
  /\ loopPc = "batch" /\ batch = {}
  /\ Rearm
  /\ loopPc' = "idle"
  /\ UNCHANGED <<clock, timers, batch, pending, memory, canceled, fields, fault, runs,
                 calls>>

(* doPendingTasks. *)
RunTask ==
  /\ loopPc = "idle" /\ pending # <<>>
  /\ pending' = Tail(pending)
  /\ LET t == Head(pending)[2] IN
       \/ /\ Head(pending)[1] = "insert" /\ Insert(when[t], t)
          /\ UNCHANGED <<memory, canceled, fault>>
       \/ Head(pending)[1] = "cancel" /\ Erase(t) /\ UNCHANGED timerfd
  /\ UNCHANGED <<loopPc, clock, batch, fields, runs, calls>>

-----------------------------------------------------------------------------
(* User code. *)

(* new Timer *)
Create(t, d, i) ==
  /\ memory[t] = "unused"
  /\ memory' = [memory EXCEPT ![t] = "allocated"]
  /\ when' = [when EXCEPT ![t] = d]
  /\ interval' = [interval EXCEPT ![t] = i]
  /\ first' = [first EXCEPT ![t] = d]

(* addTimer in the loop's thread (runAt, runAfter, runEvery) ... *)
AddTimer(t, d, i) ==
  /\ loopPc \in {"idle", "callback"}
  /\ Create(t, d, i)
  /\ Insert(d, t)
  /\ UNCHANGED <<loopPc, clock, batch, pending, canceled, fault, runs, calls>>

(* ... and in another one. *)
AddTimerFrom(t, d, i) ==
  /\ Create(t, d, i)
  /\ pending' = Append(pending, <<"insert", t>>)
  /\ UNCHANGED <<loopPc, clock, timerfd, timers, batch, canceled, fault, runs, calls>>

ToInsert == {t \in Timer : \E i \in 1..Len(pending) : pending[i] = <<"insert", t>>}

(* cancelTimer is called for t, whose Timer still exists.  Bound: not      *)
(* after a call that was risky.                                            *)
Ask(t, risk) ==
  /\ memory[t] = "allocated" /\ t \notin risky
  /\ asked' = asked \cup {t}
  /\ risky' = IF risk THEN risky \cup {t} ELSE risky

(* In the loop's thread: risky when t is held by handleRead, waits to be   *)
(* inserted, or waits to be cancelled.                                     *)
CancelTimer(t) ==
  /\ loopPc \in {"idle", "callback"}
  /\ Ask(t, t \in batch \cup ToInsert \cup asked)
  /\ Erase(t)
  /\ UNCHANGED <<loopPc, clock, timerfd, batch, pending, fields, runs>>

(* In another thread: risky when t ends by itself, for which the call may  *)
(* come too late, and the second time.                                     *)
CancelTimerFrom(t) ==
  /\ Ask(t, interval[t] = 0 \/ t \in asked)
  /\ pending' = Append(pending, <<"cancel", t>>)
  /\ UNCHANGED <<loopPc, clock, timerfd, timers, batch, memory, canceled, fields, fault,
                 runs>>

-----------------------------------------------------------------------------
(* Time. *)

Tick ==
  /\ now' = IF now < MaxTime THEN now + 1 ELSE now
  /\ left' = IF left > 0 THEN left - 1 ELSE 0
  /\ readable' = (readable \/ left = 1)
  /\ UNCHANGED <<loopPc, jumps, timers, batch, pending, memory, canceled, fields, fault,
                 runs, calls>>

(* The wall clock is set. *)
Jump ==
  /\ jumps < MaxJumps
  /\ jumps' = jumps + 1
  /\ now' \in 0..MaxTime
  /\ UNCHANGED <<loopPc, timerfd, timers, batch, pending, memory, canceled, fields,
                 fault, runs, calls>>

-----------------------------------------------------------------------------
Handle == fault = None /\ (HandleRead \/ RunTimer \/ EndTimer \/ EndBatch)

DoTask == fault = None /\ RunTask

Pass == fault = None /\ Tick

UserStep(t) ==
  /\ fault = None
  /\ \/ \E d \in Delays, i \in Intervals :
          AddTimer(t, now + d, i) \/ AddTimerFrom(t, now + d, i)
     \/ CancelTimer(t)
     \/ CancelTimerFrom(t)

Next ==
  Handle \/ DoTask \/ Pass \/ (fault = None /\ Jump) \/ \E t \in Timer : UserStep(t)

Spec == Init /\ [][Next]_vars

(* The loop's thread is scheduled, callbacks return, and time passes.  A   *)
(* queued task is not put off for ever by expiring timers, because loop()  *)
(* calls doPendingTasks after each round of handlers.                      *)
FairSpec ==
  /\ Spec
  /\ WF_vars(Handle)
  /\ SF_vars(DoTask)
  /\ WF_vars(Pass)

-----------------------------------------------------------------------------
(* The type invariant; handleRead's entries are in use only inside it.     *)
(* No live Timer has canceled_ set, because cancelTimer deletes it at once *)
(* (TimerQueue.cc:89-91): the tests of lines 103 and 105 never see it.     *)
TypeOK ==
  /\ loopPc \in {"idle", "batch", "callback"}
  /\ now \in 0..MaxTime /\ jumps \in 0..MaxJumps
  /\ left \in Nat /\ readable \in BOOLEAN
  /\ timers \subseteq Timer /\ batch \subseteq Timer
  /\ pending \in Seq({"insert", "cancel"} \X Timer)
  /\ memory \in [Timer -> {"unused", "allocated", "deleted"}]
  /\ canceled \in [Timer -> BOOLEAN]
  /\ when \in [Timer -> Nat] /\ interval \in [Timer -> Nat]
  /\ first \in [Timer -> Nat] /\ runs \in [Timer -> Nat]
  /\ fault \in Timer \cup {None}
  /\ asked \subseteq Timer /\ risky \subseteq asked
  /\ loopPc = "idle" => batch = {}
  /\ loopPc = "callback" => batch # {}
  /\ \A t \in Timer : canceled[t] => memory[t] = "deleted"

(* Every Timer that exists is in one place: timers_, handleRead's entries  *)
(* or a queued addTimer.  A deleted one is left in one of them, or is used *)
(* again, only if cancelTimer was called for it while handleRead held it,  *)
(* while it waited to be inserted, a second time, or in another thread for *)
(* a timer that ends by itself (TimerQueue.cc:75-130).  The code has tests *)
(* of canceled() for the first of these, but they read a deleted Timer.    *)
HeldOnce ==
  /\ {t \in Timer : memory[t] = "allocated"} \subseteq timers \cup batch \cup ToInsert
  /\ timers \cap batch = {}
  /\ ToInsert \cap (timers \cup batch) = {}
  /\ \A t \in timers \cup batch \cup ToInsert : memory[t] = "allocated" \/ t \in risky
  /\ fault # None => fault \in risky

(* Outside handleRead the timerfd is armed, or has expired, whenever there *)
(* is a timer, whatever was added, cancelled and run and however the wall  *)
(* clock was set (TimerQueue.cc:81-82, 115-116).                           *)
TimerfdArmed == loopPc = "idle" /\ timers # {} => (left > 0 \/ readable)

(* Unless the wall clock was set, the timerfd expires by the deadline of   *)
(* every timer, or as soon as it can when that has passed: no timer waits  *)
(* for one that comes after it (TimerQueue.cc:35-45, 79-82).               *)
ArmedInTime ==
  loopPc = "idle" /\ jumps = 0 =>
    \A t \in timers : readable \/ left <= (IF when[t] > now THEN when[t] - now ELSE 1)

(* A timer that handleRead does not hold waits for the deadline that       *)
(* follows those it ran for, counted from its first: running late moves    *)
(* none.  And unless the wall clock was set, it has run n times only when  *)
(* its n-th deadline has passed (Timer.h:47-50, TimerQueue.cc:94-130).     *)
OnSchedule ==
  /\ \A t \in Timer \ batch :
       memory[t] = "allocated" => when[t] = first[t] + runs[t] * interval[t]
  /\ jumps = 0 =>
       \A t \in Timer : runs[t] > 0 => first[t] + (runs[t] - 1) * interval[t] <= now

(* The deadlines of a timer are met one by one: one that is not beyond the *)
(* bound on time is followed by a run, unless the timer is cancelled or    *)
(* the program has used a deleted one.                                     *)
EveryDeadlineRuns ==
  \A t \in Timer : \A n \in 1..MaxTime :
    (memory[t] = "allocated" /\ first[t] + (n - 1) * interval[t] <= MaxTime)
      ~> \/ runs[t] >= n \/ (interval[t] = 0 /\ runs[t] = 1)
         \/ t \in asked \/ fault # None
=============================================================================
