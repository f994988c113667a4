--------------------------- MODULE TimerQueue_proofs ---------------------------
(***************************************************************************)
(* What TimerQueue promises, for any number of timers and any deadlines.   *)
(***************************************************************************)
EXTENDS TimerQueue, WellFoundedInduction, TLAPS

(* A queued cancellation that will not come too late: its timer repeats,   *)
(* so that it does not end by itself, the insertion comes before it, and   *)
(* there is no second one.                                                 *)
InTime(i) ==
  LET t == pending[i][2] IN
  /\ memory[t] = "allocated" /\ interval[t] > 0
  /\ \A j \in 1..Len(pending) : pending[j] = <<"insert", t>> => j < i
  /\ \A j \in 1..Len(pending) : pending[j] = <<"cancel", t>> => j = i

TasksInv ==
  /\ \A i, j \in 1..Len(pending) :
       pending[i][1] = "insert" /\ pending[i] = pending[j] => i = j
  /\ \A i \in 1..Len(pending) :
       pending[i][1] = "cancel" =>
         pending[i][2] \in asked /\ (pending[i][2] \in risky \/ InTime(i))
  /\ \A t \in asked : memory[t] # "unused"

HeldInv == TypeOK /\ TasksInv /\ HeldOnce

-----------------------------------------------------------------------------
LEMMA Minimum ==
  ASSUME NEW S \in SUBSET Nat, S # {}
  PROVE  \E m \in S : \A n \in S : m <= n
<1>1. PICK m \in S : \A n \in S : ~(<<n, m>> \in OpToRel(<, Nat))
  BY NatLessThanWellFounded, WFMin
<1>2. \A n \in S : ~(n < m)
  BY <1>1 DEF OpToRel
<1>3. QED
  BY <1>2

(* A set of entries that is not empty has one before all others.           *)
LEMMA HasFirst ==
  ASSUME NEW S \in SUBSET Timer, S # {}, NEW f \in [Timer -> Nat]
  PROVE  \E m \in S : \A u \in S \ {m} : f[m] < f[u] \/ (f[m] = f[u] /\ m < u)
<1> DEFINE D == {f[t] : t \in S}
<1>1. PICK d \in D : \A e \in D : d <= e
  <2>1. D \in SUBSET Nat /\ D # {}
    OBVIOUS
  <2>2. QED
    BY <2>1, Minimum
<1> DEFINE T == {t \in S : f[t] = d}
<1>2. PICK m \in T : \A n \in T : m <= n
  <2>0. Timer \subseteq Nat
    BY BoundAssumption DEF Timer
  <2>1. T \in SUBSET Nat /\ T # {}
    BY <1>1, <2>0
  <2>2. QED
    BY <2>1, Minimum
<1>3. \A u \in S \ {m} : f[m] < f[u] \/ (f[m] = f[u] /\ m < u)
  <2> SUFFICES ASSUME NEW u \in S \ {m} PROVE f[m] < f[u] \/ (f[m] = f[u] /\ m < u)
    OBVIOUS
  <2>1. f[u] \in Nat /\ d <= f[u] /\ f[m] = d /\ d \in Nat /\ u \in Nat /\ m \in Nat
    BY <1>1, <1>2, BoundAssumption DEF Timer
  <2>2. f[u] = d => m <= u /\ m # u
    BY <1>2
  <2>3. QED
    BY <2>1, <2>2
<1>4. QED
  BY <1>2, <1>3

(* begin() of it. *)
LEMMA FirstOf ==
  ASSUME NEW S \in SUBSET Timer, S # {}, when \in [Timer -> Nat]
  PROVE  /\ First(S) \in S
         /\ \A u \in S \ {First(S)} : Before(when[First(S)], First(S), u)
<1>1. \E m \in S : \A u \in S \ {m} : Before(when[m], m, u)
  BY HasFirst DEF Before
<1>2. QED
  BY <1>1 DEF First

(* The timerfd is armed for a time that has yet to pass. *)
LEMMA TimerfdFacts ==
  ASSUME TypeOK, NEW d \in Nat, TimerfdSet(d) \/ UNCHANGED timerfd
  PROVE  /\ left' \in Nat /\ readable' \in BOOLEAN
         /\ TimerfdSet(d) => left' > 0 /\ left' = IF d > now THEN d - now ELSE 1
<1>1. now \in Nat
  BY BoundAssumption DEF TypeOK
<1>2. CASE TimerfdSet(d)
  <2>1. left' = (IF d > now THEN d - now ELSE 1) /\ readable' = FALSE
    BY <1>2 DEF TimerfdSet, DurationFromNow
  <2>2. (IF d > now THEN d - now ELSE 1) \in Nat /\ (IF d > now THEN d - now ELSE 1) > 0
    BY <1>1
  <2>3. QED
    BY <2>1, <2>2
<1>3. CASE UNCHANGED timerfd /\ ~TimerfdSet(d)
  BY <1>3 DEF timerfd, TypeOK
<1>4. QED
  BY <1>2, <1>3

-----------------------------------------------------------------------------
(* Where timers are. *)

LEMMA InitHeld == Init => HeldInv
<1> SUFFICES ASSUME Init PROVE HeldInv
  OBVIOUS
<1> USE BoundAssumption DEF Init, None
<1>1. TypeOK
  <2>1. now \in 0..MaxTime /\ jumps \in 0..MaxJumps /\ left \in Nat
    OBVIOUS
  <2>2. pending \in Seq({"insert", "cancel"} \X Timer)
    OBVIOUS
  <2>3. /\ when \in [Timer -> Nat] /\ interval \in [Timer -> Nat]
        /\ first \in [Timer -> Nat] /\ runs \in [Timer -> Nat]
    OBVIOUS
  <2>4. /\ memory \in [Timer -> {"unused", "allocated", "deleted"}]
        /\ canceled \in [Timer -> BOOLEAN] /\ \A t \in Timer : ~canceled[t]
    OBVIOUS
  <2>5. QED
    BY <2>1, <2>2, <2>3, <2>4 DEF TypeOK
<1>2. TasksInv
  BY DEF TasksInv
<1>3. HeldOnce
  BY DEF HeldOnce, ToInsert
<1>4. QED
  BY <1>1, <1>2, <1>3 DEF HeldInv

(* A call that another thread queues. *)
LEMMA QueueInv ==
  ASSUME HeldInv, NEW t \in Timer, NEW what \in {"insert", "cancel"},
         pending' = Append(pending, <<what, t>>)
  PROVE  /\ pending' \in Seq({"insert", "cancel"} \X Timer)
         /\ Len(pending') = Len(pending) + 1 /\ Len(pending) \in Nat
         /\ \A i \in 1..Len(pending) : pending'[i] = pending[i]
         /\ pending'[Len(pending) + 1] = <<what, t>>
         /\ ToInsert' = IF what = "insert" THEN ToInsert \cup {t} ELSE ToInsert
<1>1. /\ pending' \in Seq({"insert", "cancel"} \X Timer)
      /\ Len(pending') = Len(pending) + 1 /\ Len(pending) \in Nat
      /\ \A i \in 1..Len(pending) : pending'[i] = pending[i]
      /\ pending'[Len(pending) + 1] = <<what, t>>
  BY DEF HeldInv, TypeOK
<1>2. \A u \in Timer : u \in ToInsert' <=> u \in ToInsert \/ (what = "insert" /\ u = t)
  <2> SUFFICES ASSUME NEW u \in Timer
               PROVE  u \in ToInsert' <=> u \in ToInsert \/ (what = "insert" /\ u = t)
    OBVIOUS
  <2>1. \A i \in 1..Len(pending') : i \in 1..Len(pending) \/ i = Len(pending) + 1
    BY <1>1
  <2>2. \A i \in 1..Len(pending) : i \in 1..Len(pending')
    BY <1>1
  <2>3. Len(pending) + 1 \in 1..Len(pending')
    BY <1>1
  <2>4. ASSUME u \in ToInsert' PROVE u \in ToInsert \/ (what = "insert" /\ u = t)
    <3>1. PICK i \in 1..Len(pending') : pending'[i] = <<"insert", u>>
      BY <2>4 DEF ToInsert
    <3>2. CASE i \in 1..Len(pending)
      BY <1>1, <3>1, <3>2 DEF ToInsert
    <3>3. CASE i = Len(pending) + 1
      BY <1>1, <3>1, <3>3
    <3>4. QED
      BY <2>1, <3>2, <3>3
  <2>5. u \in ToInsert => u \in ToInsert'
    BY <1>1, <2>2 DEF ToInsert
  <2>6. what = "insert" /\ u = t => u \in ToInsert'
    BY <1>1, <2>3 DEF ToInsert
  <2>7. QED
    BY <2>4, <2>5, <2>6
<1>3. QED
  BY <1>1, <1>2 DEF ToInsert

LEMMA AddFromInv ==
  ASSUME HeldInv, NEW t \in Timer, NEW d \in Nat, NEW i \in Nat, AddTimerFrom(t, d, i)
  PROVE  HeldInv'
<1> USE DEF AddTimerFrom, Create, calls
<1>1. /\ pending' \in Seq({"insert", "cancel"} \X Timer)
      /\ Len(pending') = Len(pending) + 1 /\ Len(pending) \in Nat
      /\ \A j \in 1..Len(pending) : pending'[j] = pending[j]
      /\ pending'[Len(pending) + 1] = <<"insert", t>>
      /\ ToInsert' = ToInsert \cup {t}
  BY QueueInv
<1>2. /\ memory' \in [Timer -> {"unused", "allocated", "deleted"}]
      /\ memory'[t] = "allocated" /\ \A u \in Timer \ {t} : memory'[u] = memory[u]
      /\ when' \in [Timer -> Nat] /\ interval' \in [Timer -> Nat] /\ first' \in [Timer -> Nat]
      /\ \A u \in Timer \ {t} : interval'[u] = interval[u]
  BY DEF HeldInv, TypeOK
<1>3. t \notin asked /\ memory[t] = "unused"
  BY DEF HeldInv, TasksInv
<1>4. t \notin timers /\ t \notin batch /\ t \notin ToInsert
  BY <1>3 DEF HeldInv, HeldOnce, TypeOK
<1>5. TypeOK'
  BY <1>1, <1>2, <1>3 DEF HeldInv, TypeOK, clock, timerfd
<1>6. HeldOnce'
  BY <1>1, <1>2, <1>4 DEF HeldInv, HeldOnce, TypeOK
<1>7. TasksInv'
  <2>1. \A j \in 1..Len(pending) : pending[j] # <<"insert", t>>
    BY <1>4 DEF ToInsert
  <2>2. ASSUME NEW j \in 1..Len(pending'), NEW k \in 1..Len(pending'),
               pending'[j][1] = "insert", pending'[j] = pending'[k]
        PROVE  j = k
    <3>1. CASE j = Len(pending) + 1 \/ k = Len(pending) + 1
      BY <1>1, <2>1, <2>2, <3>1
    <3>2. CASE j \in 1..Len(pending) /\ k \in 1..Len(pending)
      BY <1>1, <2>2, <3>2 DEF HeldInv, TasksInv
    <3>3. QED
      BY <1>1, <3>1, <3>2
  <2>3. ASSUME NEW j \in 1..Len(pending'), pending'[j][1] = "cancel"
        PROVE  pending'[j][2] \in asked' /\ (pending'[j][2] \in risky' \/ InTime(j)')
    <3> DEFINE u == pending[j][2]
    <3>1. j \in 1..Len(pending) /\ pending'[j] = pending[j]
      BY <1>1, <2>3
    <3>2. u \in Timer
      <4>1. pending[j] \in {"insert", "cancel"} \X Timer
        BY <3>1 DEF HeldInv, TypeOK
      <4>2. QED
        BY <4>1
    <3>3. u \in asked /\ (u \in risky \/ InTime(j))
      BY <2>3, <3>1 DEF HeldInv, TasksInv
    <3>4. u # t
      BY <1>3, <3>3
    <3>5. InTime(j) => InTime(j)'
      <4> SUFFICES ASSUME InTime(j) PROVE InTime(j)'
        OBVIOUS
      <4>1. \A k \in 1..Len(pending') : pending'[k] = <<"insert", u>> => k < j
        BY <1>1, <3>4 DEF InTime
      <4>2. \A k \in 1..Len(pending') : pending'[k] = <<"cancel", u>> => k = j
        BY <1>1 DEF InTime
      <4>3. QED
        BY <1>2, <3>1, <3>2, <3>4, <4>1, <4>2 DEF InTime
    <3>6. QED
      BY <3>1, <3>3, <3>5
  <2>4. \A u \in asked' : memory'[u] # "unused"
    BY <1>2 DEF HeldInv, TasksInv, TypeOK
  <2>5. QED
    BY <2>2, <2>3, <2>4 DEF TasksInv
<1>8. QED
  BY <1>5, <1>6, <1>7 DEF HeldInv

LEMMA CancelFromInv ==
  ASSUME HeldInv, NEW t \in Timer, CancelTimerFrom(t)
  PROVE  HeldInv'
<1> USE DEF CancelTimerFrom, Ask, fields
<1>1. /\ pending' \in Seq({"insert", "cancel"} \X Timer)
      /\ Len(pending') = Len(pending) + 1 /\ Len(pending) \in Nat
      /\ \A j \in 1..Len(pending) : pending'[j] = pending[j]
      /\ pending'[Len(pending) + 1] = <<"cancel", t>>
      /\ ToInsert' = ToInsert
  BY QueueInv
<1>2. /\ asked' = asked \cup {t} /\ risky \subseteq risky' /\ risky' \subseteq asked'
      /\ t \in risky' \/ (interval[t] # 0 /\ t \notin asked)
  BY DEF HeldInv, TypeOK
<1>3. TypeOK'
  BY <1>1, <1>2 DEF HeldInv, TypeOK, clock, timerfd
<1>4. HeldOnce'
  BY <1>1, <1>2 DEF HeldInv, HeldOnce
<1>5. TasksInv'
  <2>1. \A j, k \in 1..Len(pending') :
          pending'[j][1] = "insert" /\ pending'[j] = pending'[k] => j = k
    BY <1>1 DEF HeldInv, TasksInv
  <2>2. ASSUME NEW j \in 1..Len(pending'), pending'[j][1] = "cancel"
        PROVE  pending'[j][2] \in asked' /\ (pending'[j][2] \in risky' \/ InTime(j)')
    <3>1. CASE pending'[j][2] = t /\ t \notin risky'
      <4>1. t \notin asked /\ interval[t] > 0 /\ memory[t] = "allocated"
        BY <1>2, <3>1 DEF HeldInv, TypeOK
      <4>2. \A k \in 1..Len(pending) : pending[k] # <<"cancel", t>>
        BY <4>1 DEF HeldInv, TasksInv
      <4>3. j = Len(pending) + 1
        <5>1. CASE j \in 1..Len(pending)
          <6>1. pending[j] \in {"insert", "cancel"} \X Timer /\ pending'[j] = pending[j]
            BY <1>1, <5>1 DEF HeldInv, TypeOK
          <6>2. pending[j] = <<"cancel", t>>
            BY <2>2, <3>1, <6>1
          <6>3. QED
            BY <4>2, <5>1, <6>2
        <5>2. QED
          BY <1>1, <5>1
      <4>4. \A k \in 1..Len(pending') : pending'[k] = <<"cancel", t>> => k = j
        BY <1>1, <4>2, <4>3
      <4>5. \A k \in 1..Len(pending') : pending'[k] = <<"insert", t>> => k < j
        BY <1>1, <4>3
      <4>6. QED
        BY <1>2, <3>1, <4>1, <4>4, <4>5 DEF InTime
    <3>2. CASE pending'[j][2] = t /\ t \in risky'
      BY <1>2, <3>2
    <3>3. CASE pending'[j][2] # t
      <4> DEFINE u == pending[j][2]
      <4>1. j \in 1..Len(pending) /\ pending'[j] = pending[j]
        BY <1>1, <3>3
      <4>2. u \in asked /\ (u \in risky \/ InTime(j)) /\ u # t
        BY <2>2, <3>3, <4>1 DEF HeldInv, TasksInv
      <4>3. InTime(j) => InTime(j)'
        <5> SUFFICES ASSUME InTime(j) PROVE InTime(j)'
          OBVIOUS
        <5>1. \A k \in 1..Len(pending') : pending'[k] = <<"insert", u>> => k < j
          BY <1>1 DEF InTime
        <5>2. \A k \in 1..Len(pending') : pending'[k] = <<"cancel", u>> => k = j
          BY <1>1, <4>2 DEF InTime
        <5>3. QED
          BY <4>1, <5>1, <5>2 DEF InTime
      <4>4. QED
        BY <1>2, <4>1, <4>2, <4>3
    <3>4. QED
      BY <3>1, <3>2, <3>3
  <2>3. \A u \in asked' : memory'[u] # "unused"
    BY <1>2 DEF HeldInv, TasksInv
  <2>4. QED
    BY <2>1, <2>2, <2>3 DEF TasksInv
<1>6. QED
  BY <1>3, <1>4, <1>5 DEF HeldInv

(* The call that the loop takes from the queue. *)
LEMMA TakeInv ==
  ASSUME HeldInv, pending # <<>>, pending' = Tail(pending)
  PROVE  /\ pending' \in Seq({"insert", "cancel"} \X Timer)
         /\ Len(pending') = Len(pending) - 1 /\ Len(pending) \in Nat /\ Len(pending) > 0
         /\ \A i \in 1..Len(pending') : pending'[i] = pending[i + 1]
         /\ Head(pending) = pending[1] /\ Head(pending) \in {"insert", "cancel"} \X Timer
         /\ ToInsert' = ToInsert \ {t \in Timer : Head(pending) = <<"insert", t>>}
<1>1. /\ pending' \in Seq({"insert", "cancel"} \X Timer)
      /\ Len(pending') = Len(pending) - 1 /\ Len(pending) \in Nat /\ Len(pending) > 0
      /\ \A i \in 1..Len(pending') : pending'[i] = pending[i + 1]
      /\ Head(pending) = pending[1] /\ Head(pending) \in {"insert", "cancel"} \X Timer
  BY DEF HeldInv, TypeOK
<1>2. ASSUME NEW t \in ToInsert'
      PROVE  t \in ToInsert /\ Head(pending) # <<"insert", t>>
  <2>1. PICK i \in 1..Len(pending') : pending'[i] = <<"insert", t>>
    BY <1>2 DEF ToInsert
  <2>2. /\ i + 1 \in 1..Len(pending) /\ pending[i + 1] = <<"insert", t>>
        /\ 1 \in 1..Len(pending) /\ i + 1 # 1
    BY <1>1, <2>1
  <2>3. pending[1] # pending[i + 1]
    BY <2>2 DEF HeldInv, TasksInv
  <2>4. QED
    BY <1>1, <1>2, <2>2, <2>3 DEF ToInsert
<1>3. ASSUME NEW t \in ToInsert, Head(pending) # <<"insert", t>>
      PROVE  t \in ToInsert'
  <2>1. PICK i \in 1..Len(pending) : pending[i] = <<"insert", t>>
    BY <1>3 DEF ToInsert
  <2>2. i - 1 \in 1..Len(pending') /\ pending'[i - 1] = <<"insert", t>>
    BY <1>1, <1>3, <2>1
  <2>3. QED
    BY <2>2 DEF ToInsert
<1>4. QED
  BY <1>1, <1>2, <1>3 DEF ToInsert

(* The tasks that are left stay as they were. *)
LEMMA TasksLeft ==
  ASSUME HeldInv, pending # <<>>, pending' = Tail(pending),
         UNCHANGED <<asked, risky, interval>>,
         \A i \in 1..Len(pending') :
           LET t == pending'[i][2] IN
           pending'[i][1] = "cancel" /\ t \notin risky => memory'[t] = memory[t],
         \A t \in asked : memory'[t] # "unused"
  PROVE  TasksInv'
<1>1. /\ Len(pending') = Len(pending) - 1 /\ Len(pending) \in Nat
      /\ \A i \in 1..Len(pending') : pending'[i] = pending[i + 1] /\ i + 1 \in 1..Len(pending)
  BY TakeInv
<1>2. \A i, j \in 1..Len(pending') :
        pending'[i][1] = "insert" /\ pending'[i] = pending'[j] => i = j
  <2> SUFFICES ASSUME NEW i \in 1..Len(pending'), NEW j \in 1..Len(pending'),
                      pending'[i][1] = "insert", pending'[i] = pending'[j]
               PROVE  i = j
    OBVIOUS
  <2>1. i + 1 = j + 1
    BY <1>1 DEF HeldInv, TasksInv
  <2>2. QED
    BY <2>1
<1>3. ASSUME NEW i \in 1..Len(pending'), pending'[i][1] = "cancel"
      PROVE  pending'[i][2] \in asked' /\ (pending'[i][2] \in risky' \/ InTime(i)')
  <2> DEFINE t == pending'[i][2]
  <2>1. i + 1 \in 1..Len(pending) /\ pending[i + 1] = pending'[i]
    BY <1>1
  <2>2. t \in asked /\ (t \in risky \/ InTime(i + 1))
    BY <1>3, <2>1 DEF HeldInv, TasksInv
  <2>3. ASSUME t \notin risky PROVE InTime(i)'
    <3>1. /\ memory[t] = "allocated" /\ interval[t] > 0
          /\ \A j \in 1..Len(pending) : pending[j] = <<"insert", t>> => j < i + 1
          /\ \A j \in 1..Len(pending) : pending[j] = <<"cancel", t>> => j = i + 1
      BY <2>1, <2>2, <2>3 DEF InTime
    <3>2. ASSUME NEW j \in 1..Len(pending'), pending'[j] = <<"insert", t>> PROVE j < i
      BY <1>1, <3>1, <3>2
    <3>3. ASSUME NEW j \in 1..Len(pending'), pending'[j] = <<"cancel", t>> PROVE j = i
      BY <1>1, <3>1, <3>3
    <3>4. memory'[t] = memory[t]
      BY <1>3, <2>3
    <3>5. QED
      BY <3>1, <3>2, <3>3, <3>4 DEF InTime
  <2>4. QED
    BY <2>2, <2>3
<1>4. QED
  BY <1>2, <1>3 DEF TasksInv

LEMMA RunTaskInv == HeldInv /\ RunTask => HeldInv'
<1> SUFFICES ASSUME HeldInv, RunTask PROVE HeldInv'
  OBVIOUS
<1> DEFINE t == Head(pending)[2]
<1>1. /\ loopPc = "idle" /\ pending # <<>> /\ pending' = Tail(pending)
      /\ UNCHANGED <<loopPc, clock, batch, fields, runs, asked, risky>>
  BY DEF RunTask, calls
<1>2. /\ pending' \in Seq({"insert", "cancel"} \X Timer)
      /\ Len(pending') = Len(pending) - 1 /\ Len(pending) \in Nat /\ Len(pending) > 0
      /\ \A i \in 1..Len(pending') : pending'[i] = pending[i + 1]
      /\ Head(pending) = pending[1] /\ Head(pending) \in {"insert", "cancel"} \X Timer
      /\ ToInsert' = ToInsert \ {u \in Timer : Head(pending) = <<"insert", u>>}
  BY <1>1, TakeInv
<1>3. t \in Timer /\ Head(pending) = <<Head(pending)[1], t>> /\ 1 \in 1..Len(pending)
  BY <1>2
<1>4. CASE /\ Head(pending)[1] = "insert" /\ Insert(when[t], t)
           /\ UNCHANGED <<memory, canceled, fault>>
  <2>1. ToInsert' = ToInsert \ {t} /\ t \in ToInsert
    <3>1. Head(pending) = <<"insert", t>>
      BY <1>3, <1>4
    <3>2. \A u \in Timer : Head(pending) = <<"insert", u>> <=> u = t
      BY <3>1
    <3>3. QED
      BY <1>2, <1>3, <3>1, <3>2 DEF ToInsert
  <2> HIDE DEF t
  <2>2. timers' = timers \cup {t} /\ UNCHANGED <<memory, canceled, fault, batch>>
    BY <1>1, <1>4 DEF Insert
  <2>3. HeldOnce'
    BY <1>1, <2>1, <2>2 DEF HeldInv, HeldOnce
  <2>4. left' \in Nat /\ readable' \in BOOLEAN
    <3>1. now \in Nat /\ when[t] \in Nat
      BY <1>3, BoundAssumption DEF HeldInv, TypeOK
    <3>2. TimerfdSet(when[t]) \/ UNCHANGED timerfd
      BY <1>4 DEF Insert
    <3>3. QED
      BY <3>1, <3>2, TimerfdFacts DEF HeldInv
  <2>5. TypeOK'
    BY <1>1, <1>2, <1>3, <2>2, <2>4 DEF HeldInv, TypeOK, clock, fields
  <2>6. \A u \in asked : memory'[u] # "unused"
    BY <2>2 DEF HeldInv, TasksInv
  <2>7. TasksInv'
    BY <1>1, <2>2, <2>6, TasksLeft DEF fields
  <2>8. QED
    BY <2>3, <2>5, <2>7 DEF HeldInv
<1>5. CASE Head(pending)[1] = "cancel" /\ Erase(t) /\ UNCHANGED timerfd
  <2>1. ToInsert' = ToInsert
    BY <1>2, <1>5
  <2>2. t \in asked /\ (t \in risky \/ InTime(1))
    BY <1>2, <1>3, <1>5 DEF HeldInv, TasksInv
  <2>3. t \notin risky => \A i \in 1..Len(pending') : pending'[i] # <<"cancel", t>>
    <3> SUFFICES ASSUME t \notin risky, NEW i \in 1..Len(pending')
                 PROVE  pending'[i] # <<"cancel", t>>
      OBVIOUS
    <3>1. pending'[i] = pending[i + 1] /\ i + 1 \in 1..Len(pending) /\ i + 1 # 1
      BY <1>2
    <3>2. \A j \in 1..Len(pending) : pending[j] = <<"cancel", t>> => j = 1
      BY <1>2, <2>2 DEF InTime
    <3>3. QED
      BY <3>1, <3>2
  <2>4. \A i \in 1..Len(pending') : /\ pending'[i] = <<pending'[i][1], pending'[i][2]>>
                                   /\ pending'[i][2] \in Timer
    <3> SUFFICES ASSUME NEW i \in 1..Len(pending')
                 PROVE  pending'[i] = <<pending'[i][1], pending'[i][2]>> /\ pending'[i][2] \in Timer
      OBVIOUS
    <3>1. pending'[i] \in {"insert", "cancel"} \X Timer
      BY <1>2
    <3>2. QED
      BY <3>1
  <2>5. t \notin risky => memory[t] = "allocated" /\ t \notin ToInsert
    <3> SUFFICES ASSUME t \notin risky PROVE memory[t] = "allocated" /\ t \notin ToInsert
      OBVIOUS
    <3>1. /\ memory[t] = "allocated"
          /\ \A j \in 1..Len(pending) : pending[j] = <<"insert", t>> => j < 1
      BY <1>2, <2>2 DEF InTime
    <3>2. QED
      BY <1>2, <3>1 DEF ToInsert
  <2> HIDE DEF t
  <2>6. /\ timers' = timers \ {t} /\ UNCHANGED <<timerfd, batch>>
        /\ memory' \in [Timer -> {"unused", "allocated", "deleted"}]
        /\ memory'[t] = "deleted" /\ \A u \in Timer \ {t} : memory'[u] = memory[u]
        /\ canceled' \in [Timer -> BOOLEAN]
        /\ \A u \in Timer \ {t} : canceled'[u] = canceled[u]
    BY <1>1, <1>3, <1>5 DEF Erase, HeldInv, TypeOK
  <2>7. batch = {} /\ fault' \in Timer \cup {None} /\ (fault' # fault => fault' = t /\ t \in risky)
    <3>1. batch = {} /\ fault \in Timer \cup {None}
      BY <1>1 DEF HeldInv, TypeOK
    <3>2. fault' = IF memory[t] = "deleted" THEN t ELSE fault
      BY <1>5 DEF Erase, Use
    <3>3. memory[t] = "deleted" => t \in risky
      BY <2>5
    <3>4. QED
      BY <1>3, <3>1, <3>2, <3>3
  <2>8. HeldOnce'
    <3>1. ASSUME NEW u \in Timer, memory'[u] = "allocated"
          PROVE  u \in timers' \cup batch' \cup ToInsert'
      <4>1. u # t /\ memory[u] = "allocated"
        BY <2>6, <3>1
      <4>2. QED
        BY <2>1, <2>6, <4>1 DEF HeldInv, HeldOnce
    <3>2. timers' \cap batch' = {} /\ ToInsert' \cap (timers' \cup batch') = {}
      BY <2>1, <2>6, <2>7 DEF HeldInv, HeldOnce
    <3>3. ASSUME NEW u \in timers' \cup batch' \cup ToInsert'
          PROVE  memory'[u] = "allocated" \/ u \in risky'
      <4>1. u \in timers \cup ToInsert /\ u \in Timer /\ (u = t => t \in risky)
        BY <2>1, <2>5, <2>6, <2>7, <3>3 DEF HeldInv, TypeOK, ToInsert
      <4>2. memory[u] = "allocated" \/ u \in risky
        BY <4>1 DEF HeldInv, HeldOnce
      <4>3. QED
        BY <1>1, <2>6, <4>1, <4>2
    <3>4. fault' # None => fault' \in risky'
      BY <1>1, <2>7 DEF HeldInv, HeldOnce
    <3>5. QED
      BY <3>1, <3>2, <3>3, <3>4 DEF HeldOnce
  <2>9. TypeOK'
    BY <1>1, <1>2, <2>6, <2>7 DEF HeldInv, TypeOK, clock, fields, timerfd
  <2>10. TasksInv'
    <3>1. \A i \in 1..Len(pending') :
            LET u == pending'[i][2] IN
            pending'[i][1] = "cancel" /\ u \notin risky => memory'[u] = memory[u]
      BY <2>3, <2>4, <2>6
    <3>2. \A u \in asked : memory'[u] # "unused"
      BY <2>6 DEF HeldInv, TasksInv, TypeOK
    <3>3. QED
      BY <1>1, <3>1, <3>2, TasksLeft DEF fields
  <2>11. QED
    BY <2>8, <2>9, <2>10 DEF HeldInv
<1>6. QED
  BY <1>4, <1>5 DEF RunTask

(* Steps that leave the queue alone, and what its cancellations rest on.   *)
LEMMA TasksStay ==
  ASSUME HeldInv, UNCHANGED pending, asked \subseteq asked', risky \subseteq risky',
         \A t \in Timer : memory[t] # "unused" => memory'[t] # "unused",
         \A t \in asked' \ asked : memory'[t] # "unused",
         \A t \in asked \ risky' : memory[t] = "allocated" /\ interval[t] > 0 =>
           memory'[t] = "allocated" /\ interval'[t] = interval[t]
  PROVE  TasksInv' /\ ToInsert' = ToInsert
<1>1. ASSUME NEW i \in 1..Len(pending), pending[i][1] = "cancel"
      PROVE  pending[i][2] \in asked' /\ (pending[i][2] \in risky' \/ InTime(i)')
  <2>1. pending[i][2] \in asked /\ (pending[i][2] \in risky \/ InTime(i))
    BY <1>1 DEF HeldInv, TasksInv
  <2>2. pending[i][2] \notin risky' /\ InTime(i) => InTime(i)'
    BY <2>1 DEF InTime
  <2>3. QED
    BY <2>1, <2>2
<1>2. \A t \in asked' : memory'[t] # "unused"
  BY DEF HeldInv, TasksInv, TypeOK
<1>3. \A i, j \in 1..Len(pending) : pending[i][1] = "insert" /\ pending[i] = pending[j] => i = j
  BY DEF HeldInv, TasksInv
<1>4. TasksInv'
  BY <1>1, <1>2, <1>3 DEF TasksInv
<1>5. QED
  BY <1>4 DEF ToInsert

LEMMA AddInv ==
  ASSUME HeldInv, NEW t \in Timer, NEW d \in Nat, NEW i \in Nat, AddTimer(t, d, i)
  PROVE  HeldInv'
<1>1. /\ memory' \in [Timer -> {"unused", "allocated", "deleted"}]
      /\ memory'[t] = "allocated" /\ \A u \in Timer \ {t} : memory'[u] = memory[u]
      /\ when' \in [Timer -> Nat] /\ interval' \in [Timer -> Nat] /\ first' \in [Timer -> Nat]
      /\ \A u \in Timer \ {t} : interval'[u] = interval[u]
      /\ memory[t] = "unused"
  BY DEF AddTimer, Create, HeldInv, TypeOK
<1>2. /\ UNCHANGED <<loopPc, clock, batch, pending, canceled, fault, runs, asked, risky>>
      /\ timers' = timers \cup {t}
  BY DEF AddTimer, Insert, calls
<1>3. t \notin asked
  BY <1>1 DEF HeldInv, TasksInv
<1>4. t \notin timers /\ t \notin batch /\ t \notin ToInsert /\ ~canceled[t]
  BY <1>1, <1>3 DEF HeldInv, HeldOnce, TypeOK
<1>5. TasksInv' /\ ToInsert' = ToInsert
  <2>1. asked \subseteq Timer \ {t}
    BY <1>3 DEF HeldInv, TypeOK
  <2>2. /\ UNCHANGED pending /\ asked' = asked /\ risky' = risky
        /\ \A u \in Timer : memory[u] # "unused" => memory'[u] # "unused"
    BY <1>1, <1>2
  <2>3. \A u \in asked : memory'[u] = memory[u] /\ interval'[u] = interval[u]
    BY <1>1, <2>1
  <2>4. QED
    BY <2>2, <2>3, TasksStay
<1>6. HeldOnce'
  <2>1. ASSUME NEW u \in Timer, memory'[u] = "allocated"
        PROVE  u \in timers' \cup batch' \cup ToInsert'
    BY <1>1, <1>2, <1>5, <2>1 DEF HeldInv, HeldOnce
  <2>2. timers' \cap batch' = {} /\ ToInsert' \cap (timers' \cup batch') = {}
    BY <1>2, <1>4, <1>5 DEF HeldInv, HeldOnce
  <2>3. ASSUME NEW u \in timers' \cup batch' \cup ToInsert'
        PROVE  memory'[u] = "allocated" \/ u \in risky'
    <3>1. u \in timers \cup batch \cup ToInsert \cup {t} /\ u \in Timer
      BY <1>2, <1>5, <2>3 DEF HeldInv, TypeOK, ToInsert
    <3>2. u # t => memory[u] = "allocated" \/ u \in risky
      BY <3>1 DEF HeldInv, HeldOnce
    <3>3. QED
      BY <1>1, <1>2, <3>1, <3>2
  <2>4. fault' # None => fault' \in risky'
    BY <1>2 DEF HeldInv, HeldOnce
  <2>5. QED
    BY <2>1, <2>2, <2>3, <2>4 DEF HeldOnce
<1>7. left' \in Nat /\ readable' \in BOOLEAN
  BY TimerfdFacts DEF AddTimer, Insert, HeldInv
<1>8. TypeOK'
  BY <1>1, <1>2, <1>4, <1>7 DEF HeldInv, TypeOK, clock
<1>9. QED
  BY <1>5, <1>6, <1>8 DEF HeldInv

LEMMA CancelInv ==
  ASSUME HeldInv, NEW t \in Timer, CancelTimer(t)
  PROVE  HeldInv'
<1>1. /\ memory' \in [Timer -> {"unused", "allocated", "deleted"}]
      /\ memory'[t] = "deleted" /\ \A u \in Timer \ {t} : memory'[u] = memory[u]
      /\ canceled' \in [Timer -> BOOLEAN] /\ fault' = fault
      /\ \A u \in Timer \ {t} : canceled'[u] = canceled[u]
  BY DEF CancelTimer, Ask, Erase, Use, HeldInv, TypeOK
<1>2. /\ UNCHANGED <<loopPc, clock, timerfd, batch, pending, fields, runs>>
      /\ timers' = timers \ {t} /\ asked' = asked \cup {t}
      /\ risky \subseteq risky' /\ risky' \subseteq risky \cup {t}
      /\ t \in batch \cup ToInsert \cup asked => t \in risky'
  BY DEF CancelTimer, Ask, Erase
<1>3. TasksInv' /\ ToInsert' = ToInsert
  <2>1. asked \ risky' \subseteq Timer \ {t} /\ asked' \ asked \subseteq {t}
    BY <1>2 DEF CancelTimer, Ask, HeldInv, TypeOK
  <2>2. /\ UNCHANGED <<pending, interval>> /\ asked \subseteq asked' /\ risky \subseteq risky'
        /\ \A u \in Timer : memory[u] # "unused" => memory'[u] # "unused"
    BY <1>1, <1>2 DEF fields
  <2>3. /\ \A u \in asked \ risky' : memory'[u] = memory[u]
        /\ \A u \in asked' \ asked : memory'[u] # "unused"
    BY <1>1, <2>1
  <2>4. QED
    BY <2>2, <2>3, TasksStay
<1>4. HeldOnce'
  <2>1. ASSUME NEW u \in Timer, memory'[u] = "allocated"
        PROVE  u \in timers' \cup batch' \cup ToInsert'
    <3>1. u # t /\ memory[u] = "allocated"
      BY <1>1, <2>1
    <3>2. QED
      BY <1>2, <1>3, <3>1 DEF HeldInv, HeldOnce
  <2>2. timers' \cap batch' = {} /\ ToInsert' \cap (timers' \cup batch') = {}
    BY <1>2, <1>3 DEF HeldInv, HeldOnce
  <2>3. ASSUME NEW u \in timers' \cup batch' \cup ToInsert'
        PROVE  memory'[u] = "allocated" \/ u \in risky'
    <3>1. u \in timers \cup batch \cup ToInsert /\ u \in Timer
      BY <1>2, <1>3, <2>3 DEF HeldInv, TypeOK, ToInsert
    <3>2. memory[u] = "allocated" \/ u \in risky
      BY <3>1 DEF HeldInv, HeldOnce
    <3>3. u = t => t \in risky'
      BY <1>2, <1>3, <2>3
    <3>4. QED
      BY <1>1, <1>2, <3>1, <3>2, <3>3
  <2>4. fault' # None => fault' \in risky'
    BY <1>1, <1>2 DEF HeldInv, HeldOnce
  <2>5. QED
    BY <2>1, <2>2, <2>3, <2>4 DEF HeldOnce
<1>5. TypeOK'
  BY <1>1, <1>2 DEF HeldInv, TypeOK, clock, timerfd, fields
<1>6. QED
  BY <1>3, <1>4, <1>5 DEF HeldInv

(* handleRead uses the Timer of its first entry. *)
LEMMA UseFirst ==
  ASSUME HeldInv, batch # {}, Use(First(batch))
  PROVE  /\ First(batch) \in batch /\ First(batch) \in Timer
         /\ fault' \in Timer \cup {None} /\ (fault' # None => fault' \in risky)
<1>1. First(batch) \in batch /\ First(batch) \in Timer
  BY FirstOf DEF HeldInv, TypeOK
<1>2. memory[First(batch)] = "deleted" => First(batch) \in risky
  BY <1>1 DEF HeldInv, HeldOnce
<1>3. QED
  BY <1>1, <1>2 DEF Use, HeldInv, HeldOnce, TypeOK

LEMMA EndTimerInv == HeldInv /\ EndTimer => HeldInv'
<1> SUFFICES ASSUME HeldInv, EndTimer PROVE HeldInv'
  OBVIOUS
<1> DEFINE t == First(batch)
<1>1. /\ t \in batch /\ t \in Timer
      /\ fault' \in Timer \cup {None} /\ (fault' # None => fault' \in risky)
  BY UseFirst DEF EndTimer, HeldInv, TypeOK
<1>2. /\ loopPc' = "batch" /\ batch' = batch \ {t}
      /\ UNCHANGED <<clock, timerfd, pending, canceled, interval, first, runs, asked, risky>>
      /\ IF ~canceled[t] /\ interval[t] > 0 THEN Restart(t) ELSE Discard(t)
  BY DEF EndTimer, Repeat, calls
<1> HIDE DEF t
<1>3. CASE ~canceled[t] /\ interval[t] > 0
  <2>1. /\ when' = [when EXCEPT ![t] = @ + interval[t]] /\ timers' = timers \cup {t}
        /\ memory' = memory
    BY <1>2, <1>3 DEF Restart
  <2>2. TasksInv' /\ ToInsert' = ToInsert
    BY <1>2, <2>1, TasksStay
  <2>3. HeldOnce'
    BY <1>1, <1>2, <2>1, <2>2 DEF HeldInv, HeldOnce
  <2>4. when' \in [Timer -> Nat]
    BY <1>1, <2>1 DEF HeldInv, TypeOK
  <2>5. TypeOK'
    BY <1>1, <1>2, <2>1, <2>4 DEF HeldInv, TypeOK, clock, timerfd
  <2>6. QED
    BY <2>2, <2>3, <2>5 DEF HeldInv
<1>4. CASE ~(~canceled[t] /\ interval[t] > 0)
  <2>1. /\ memory' = [memory EXCEPT ![t] = "deleted"] /\ timers' = timers /\ when' = when
    BY <1>2, <1>4 DEF Discard
  <2>2. TasksInv' /\ ToInsert' = ToInsert
    <3>1. memory[t] = "allocated" => ~canceled[t]
      BY <1>1 DEF HeldInv, TypeOK
    <3>2. \A u \in Timer \ {t} : memory'[u] = memory[u]
      BY <2>1 DEF HeldInv, TypeOK
    <3>3. \A u \in Timer : memory[u] # "unused" => memory'[u] # "unused"
      BY <2>1 DEF HeldInv, TypeOK
    <3>4. \A u \in asked \ risky' : memory[u] = "allocated" /\ interval[u] > 0 =>
            memory'[u] = "allocated" /\ interval'[u] = interval[u]
      BY <1>2, <1>4, <3>1, <3>2 DEF HeldInv, TypeOK
    <3>5. QED
      BY <1>2, <3>3, <3>4, TasksStay
  <2>3. HeldOnce'
    BY <1>1, <1>2, <2>1, <2>2 DEF HeldInv, HeldOnce, TypeOK
  <2>4. TypeOK'
    BY <1>1, <1>2, <2>1 DEF HeldInv, TypeOK, clock, timerfd
  <2>5. QED
    BY <2>2, <2>3, <2>4 DEF HeldInv
<1>5. QED
  BY <1>3, <1>4

LEMMA UserTimes ==
  ASSUME TypeOK, NEW t \in Timer, UserStep(t)
  PROVE  \/ \E d \in Nat, i \in Nat : d >= now /\ (AddTimer(t, d, i) \/ AddTimerFrom(t, d, i))
         \/ CancelTimer(t) \/ CancelTimerFrom(t)
<1>1. \A d \in Delays : now + d \in Nat /\ now + d >= now
  BY BoundAssumption, TimesAssumption DEF TypeOK
<1>2. Intervals \subseteq Nat
  BY TimesAssumption
<1>3. QED
  BY <1>1, <1>2 DEF UserStep

LEMMA NextHeld == HeldInv /\ [Next]_vars => HeldInv'
<1> SUFFICES ASSUME HeldInv, [Next]_vars PROVE HeldInv'
  OBVIOUS
<1> USE DEF calls
<1>1. CASE HandleRead
  <2>1. /\ batch' = Expired /\ timers' = timers \ Expired /\ batch = {} /\ Expired \subseteq timers
        /\ UNCHANGED <<clock, left, pending, memory, canceled, fields, fault, runs, calls>>
        /\ loopPc' = "batch" /\ readable' = FALSE
    BY <1>1 DEF HandleRead, Unexpired, Expired, HeldInv, TypeOK
  <2>2. TasksInv' /\ ToInsert' = ToInsert
    BY <2>1, TasksStay DEF fields
  <2>3. HeldOnce'
    BY <2>1, <2>2 DEF HeldInv, HeldOnce
  <2>4. TypeOK'
    BY <2>1 DEF HeldInv, TypeOK, clock, fields
  <2>5. QED
    BY <2>2, <2>3, <2>4 DEF HeldInv
<1>2. CASE RunTimer
  <2>1. /\ UNCHANGED <<clock, timerfd, timers, batch, pending, memory, canceled, fields, calls>>
        /\ loopPc' = "callback" /\ batch # {}
    BY <1>2 DEF RunTimer
  <2>2. /\ First(batch) \in Timer
        /\ fault' \in Timer \cup {None} /\ (fault' # None => fault' \in risky)
    BY <1>2, UseFirst DEF RunTimer
  <2>3. runs' \in [Timer -> Nat]
    BY <1>2, <2>2 DEF RunTimer, HeldInv, TypeOK
  <2>4. TasksInv' /\ ToInsert' = ToInsert
    BY <2>1, TasksStay DEF fields
  <2>5. QED
    BY <2>1, <2>2, <2>3, <2>4 DEF HeldInv, HeldOnce, TypeOK, clock, timerfd, fields
<1>3. CASE EndTimer
  BY <1>3, EndTimerInv
<1>4. CASE EndBatch
  <2>1. /\ UNCHANGED <<clock, timers, batch, pending, memory, canceled, fields, fault, runs, calls>>
        /\ loopPc' = "idle" /\ batch = {}
    BY <1>4 DEF EndBatch
  <2>2. TasksInv' /\ ToInsert' = ToInsert
    BY <2>1, TasksStay DEF fields
  <2>3. left' \in Nat /\ readable' \in BOOLEAN
    <3>1. timers # {} => when[First(timers)] \in Nat
      BY FirstOf DEF HeldInv, TypeOK
    <3>2. CASE timers # {}
      BY <1>4, <3>1, <3>2, TimerfdFacts DEF EndBatch, Rearm, HeldInv
    <3>3. CASE timers = {}
      BY <1>4, <3>3 DEF EndBatch, Rearm, HeldInv, TypeOK, timerfd
    <3>4. QED
      BY <3>2, <3>3
  <2>4. QED
    BY <2>1, <2>2, <2>3 DEF HeldInv, HeldOnce, TypeOK, clock, fields
<1>5. CASE RunTask
  BY <1>5, RunTaskInv
<1>6. CASE Tick
  <2>1. UNCHANGED <<loopPc, jumps, timers, batch, pending, memory, canceled, fields, fault,
                    runs, calls>>
    BY <1>6 DEF Tick
  <2>2. now' \in 0..MaxTime /\ left' \in Nat /\ readable' \in BOOLEAN
    BY <1>6, BoundAssumption DEF Tick, HeldInv, TypeOK
  <2>3. TasksInv' /\ ToInsert' = ToInsert
    BY <2>1, TasksStay DEF fields
  <2>4. QED
    BY <2>1, <2>2, <2>3 DEF HeldInv, HeldOnce, TypeOK, fields
<1>7. CASE Jump
  <2>1. /\ UNCHANGED <<loopPc, timerfd, timers, batch, pending, memory, canceled, fields,
                       fault, runs, calls>>
        /\ now' \in 0..MaxTime /\ jumps' \in 0..MaxJumps
    BY <1>7, BoundAssumption DEF Jump, HeldInv, TypeOK
  <2>2. TasksInv' /\ ToInsert' = ToInsert
    BY <2>1, TasksStay DEF fields
  <2>3. QED
    BY <2>1, <2>2 DEF HeldInv, HeldOnce, TypeOK, fields, timerfd
<1>8. CASE \E t \in Timer : UserStep(t)
  BY <1>8, UserTimes, AddInv, AddFromInv, CancelInv, CancelFromInv DEF HeldInv
<1>9. CASE UNCHANGED vars
  <2>1. UNCHANGED <<pending, asked, risky, memory, interval>>
    BY <1>9 DEF vars, fields
  <2>2. TasksInv' /\ ToInsert' = ToInsert
    BY <2>1, TasksStay
  <2>3. QED
    BY <1>9, <2>2 DEF vars, clock, timerfd, fields, HeldInv, TypeOK, HeldOnce
<1>10. QED
  BY <1>1, <1>2, <1>3, <1>4, <1>5, <1>6, <1>7, <1>8, <1>9 DEF Next, Handle, DoTask, Pass

(* What is held has been created. *)
LEMMA NotUnused ==
  ASSUME HeldInv
  PROVE  \A t \in timers \cup batch \cup ToInsert : memory[t] # "unused"
BY DEF HeldInv, HeldOnce, TasksInv, TypeOK

LEMMA HeldInvariant == Spec => []HeldInv
<1>1. QED
  BY InitHeld, NextHeld, PTL DEF Spec

(* Every Timer that exists is in one place, and a deleted one is held or   *)
(* used again only after a call of cancelTimer at a bad time, for any      *)
(* number of timers, wherever cancelTimer is called (TimerQueue.cc:75-130).*)
THEOREM TimersHeldOnce == Spec => []HeldOnce
<1>1. HeldInv => HeldOnce
  BY DEF HeldInv
<1>2. QED
  BY <1>1, HeldInvariant, PTL

-----------------------------------------------------------------------------
(* How the timerfd follows the first deadline. *)

ArmedInv == TimerfdArmed /\ ArmedInTime

LEMMA InsertArmed ==
  ASSUME HeldInv, ArmedInv, NEW t \in Timer, NEW d \in Nat, Insert(d, t),
         when'[t] = d, \A u \in timers : when'[u] = when[u],
         UNCHANGED <<clock, loopPc>>
  PROVE  ArmedInv'
<1> SUFFICES ASSUME loopPc = "idle" PROVE ArmedInv'
  BY DEF ArmedInv, TimerfdArmed, ArmedInTime
<1>1. now \in Nat /\ left \in Nat /\ readable \in BOOLEAN /\ \A u \in timers : u \in Timer /\ when[u] \in Nat
  BY BoundAssumption DEF HeldInv, TypeOK
<1>2. timers' = timers \cup {t} /\ UNCHANGED <<now, jumps>>
  BY DEF Insert, clock
<1>3. CASE ComesFirst(d, t)
  <2>1. left' > 0 /\ left' = IF d > now THEN d - now ELSE 1
    BY <1>3, TimerfdFacts DEF Insert, HeldInv
  <2>2. \A u \in timers : d <= when[u]
    BY <1>1, <1>3 DEF ComesFirst, Before
  <2>3. \A u \in timers' : left' <= (IF when'[u] > now THEN when'[u] - now ELSE 1)
    BY <1>1, <1>2, <2>1, <2>2
  <2>4. QED
    BY <1>2, <2>1, <2>3 DEF ArmedInv, TimerfdArmed, ArmedInTime
<1>4. CASE ~ComesFirst(d, t)
  <2>1. UNCHANGED <<left, readable>>
    BY <1>4 DEF Insert, timerfd
  <2>2. PICK u \in timers : when[u] <= d
    BY <1>1, <1>4 DEF ComesFirst, Before
  <2>3. left > 0 \/ readable
    BY <2>2 DEF ArmedInv, TimerfdArmed
  <2>4. ASSUME jumps = 0, ~readable, NEW v \in timers'
        PROVE  left <= (IF when'[v] > now THEN when'[v] - now ELSE 1)
    <3>1. \A w \in timers : left <= (IF when[w] > now THEN when[w] - now ELSE 1)
      BY <2>4 DEF ArmedInv, ArmedInTime
    <3>2. CASE v \in timers
      BY <3>1, <3>2
    <3>3. CASE v = t
      <4>1. left <= (IF when[u] > now THEN when[u] - now ELSE 1)
        BY <2>2, <3>1
      <4>2. QED
        BY <1>1, <2>2, <3>3, <4>1
    <3>4. QED
      BY <1>2, <3>2, <3>3
  <2>5. QED
    BY <1>2, <2>1, <2>3, <2>4 DEF ArmedInv, TimerfdArmed, ArmedInTime
<1>5. QED
  BY <1>3, <1>4

(* With the timerfd as it was, fewer timers are still served.              *)
LEMMA FewerArmed ==
  ASSUME ArmedInv, UNCHANGED <<loopPc, clock, timerfd>>, timers' \subseteq timers,
         \A t \in timers' : when'[t] = when[t]
  PROVE  ArmedInv'
BY DEF ArmedInv, TimerfdArmed, ArmedInTime, clock, timerfd

LEMMA EndBatchArmed == HeldInv /\ EndBatch => ArmedInv'
<1> SUFFICES ASSUME HeldInv, EndBatch PROVE ArmedInv'
  OBVIOUS
<1>1. UNCHANGED <<now, jumps, timers, when>> /\ now \in Nat /\ Timer \subseteq Nat
  BY BoundAssumption DEF EndBatch, clock, fields, HeldInv, TypeOK, Timer
<1>2. CASE timers = {}
  BY <1>1, <1>2 DEF ArmedInv, TimerfdArmed, ArmedInTime
<1>3. CASE timers # {}
  <2> DEFINE f == First(timers)
  <2>1. f \in timers /\ f \in Timer /\ \A u \in timers \ {f} : Before(when[f], f, u)
    BY <1>3, FirstOf DEF HeldInv, TypeOK
  <2>2. when[f] \in Nat /\ \A u \in timers : when[u] \in Nat
    BY <2>1 DEF HeldInv, TypeOK
  <2>3. left' > 0 /\ left' = IF when[f] > now THEN when[f] - now ELSE 1
    BY <1>3, <2>2, TimerfdFacts DEF EndBatch, Rearm, HeldInv
  <2> HIDE DEF f
  <2>4. \A u \in timers : when[f] <= when[u]
    BY <2>1, <2>2 DEF Before
  <2>5. \A u \in timers : left' <= (IF when[u] > now THEN when[u] - now ELSE 1)
    BY <1>1, <2>2, <2>3, <2>4
  <2>6. QED
    BY <1>1, <2>3, <2>5 DEF ArmedInv, TimerfdArmed, ArmedInTime
<1>4. QED
  BY <1>2, <1>3

LEMMA TickArmed == HeldInv /\ ArmedInv /\ Tick => ArmedInv'
<1> SUFFICES ASSUME HeldInv, ArmedInv, Tick, loopPc = "idle" PROVE ArmedInv'
  BY DEF Tick, ArmedInv, TimerfdArmed, ArmedInTime
<1>1. /\ now \in Nat /\ left \in Nat /\ \A u \in timers : when[u] \in Nat
      /\ UNCHANGED <<timers, when, jumps>> /\ (now' = now \/ now' = now + 1)
      /\ left' = (IF left > 0 THEN left - 1 ELSE 0) /\ readable' = (readable \/ left = 1)
  BY BoundAssumption DEF Tick, HeldInv, TypeOK, fields
<1>2. TimerfdArmed'
  <2>1. SUFFICES ASSUME timers # {} PROVE left' > 0 \/ readable'
    BY <1>1 DEF TimerfdArmed
  <2>2. left > 0 \/ readable
    BY <2>1 DEF ArmedInv, TimerfdArmed
  <2>3. CASE left > 1
    BY <1>1, <2>3
  <2>4. CASE left = 1 \/ readable
    BY <1>1, <2>4
  <2>5. QED
    BY <1>1, <2>2, <2>3, <2>4
<1>3. ASSUME jumps = 0, NEW t \in timers, ~readable'
      PROVE  left' <= (IF when[t] > now' THEN when[t] - now' ELSE 1)
  <2>1. ~readable /\ left # 1
    BY <1>1, <1>3
  <2>2. left <= (IF when[t] > now THEN when[t] - now ELSE 1)
    BY <1>3, <2>1 DEF ArmedInv, ArmedInTime
  <2>3. QED
    BY <1>1, <2>1, <2>2
<1>4. QED
  BY <1>1, <1>2, <1>3 DEF ArmedInv, ArmedInTime

LEMMA UserArmed ==
  ASSUME HeldInv, ArmedInv, NEW t \in Timer, UserStep(t)
  PROVE  ArmedInv'
<1>1. ASSUME NEW d \in Nat, NEW i \in Nat, AddTimer(t, d, i) \/ AddTimerFrom(t, d, i)
      PROVE  ArmedInv'
  <2>1. memory[t] = "unused" /\ when'[t] = d /\ \A u \in Timer \ {t} : when'[u] = when[u]
    BY <1>1 DEF AddTimer, AddTimerFrom, Create, HeldInv, TypeOK
  <2>2. t \notin timers
    BY <2>1, NotUnused
  <2>3. \A u \in timers : when'[u] = when[u]
    BY <2>1, <2>2 DEF HeldInv, TypeOK
  <2>4. CASE AddTimer(t, d, i)
    BY <2>1, <2>3, <2>4, InsertArmed DEF AddTimer
  <2>5. CASE AddTimerFrom(t, d, i)
    BY <2>3, <2>5, FewerArmed DEF AddTimerFrom
  <2>6. QED
    BY <1>1, <2>4, <2>5
<1>2. CASE CancelTimer(t)
  BY <1>2, FewerArmed DEF CancelTimer, Erase, fields
<1>3. CASE CancelTimerFrom(t)
  BY <1>3, FewerArmed DEF CancelTimerFrom, fields
<1>4. QED
  BY <1>1, <1>2, <1>3, UserTimes DEF HeldInv

LEMMA NextArmed == HeldInv /\ ArmedInv /\ [Next]_vars => ArmedInv'
<1> SUFFICES ASSUME HeldInv, ArmedInv, [Next]_vars PROVE ArmedInv'
  OBVIOUS
<1>1. CASE HandleRead \/ RunTimer \/ EndTimer
  BY <1>1 DEF HandleRead, RunTimer, EndTimer, ArmedInv, TimerfdArmed, ArmedInTime
<1>2. CASE EndBatch
  BY <1>2, EndBatchArmed
<1>3. CASE RunTask
  <2> DEFINE t == Head(pending)[2]
  <2>1. t \in Timer /\ when[t] \in Nat
    BY <1>3, TakeInv DEF RunTask, HeldInv, TypeOK
  <2>2. \/ Insert(when[t], t)
        \/ timers' = timers \ {t} /\ UNCHANGED timerfd
    BY <1>3 DEF RunTask, Erase
  <2>3. UNCHANGED <<loopPc, clock>> /\ when' = when
    BY <1>3 DEF RunTask, fields
  <2> HIDE DEF t
  <2>4. QED
    BY <2>1, <2>2, <2>3, InsertArmed, FewerArmed
<1>4. CASE Tick
  BY <1>4, TickArmed
<1>5. CASE Jump
  <2>1. jumps' # 0
    BY <1>5 DEF Jump, HeldInv, TypeOK
  <2>2. QED
    BY <1>5, <2>1 DEF Jump, timerfd, ArmedInv, TimerfdArmed, ArmedInTime
<1>6. CASE \E t \in Timer : UserStep(t)
  BY <1>6, UserArmed
<1>7. CASE UNCHANGED vars
  BY <1>7, FewerArmed DEF vars, fields
<1>8. QED
  BY <1>1, <1>2, <1>3, <1>4, <1>5, <1>6, <1>7 DEF Next, Handle, DoTask, Pass

LEMMA ArmedInvariant == Spec => []ArmedInv
<1>1. Init => ArmedInv
  BY DEF Init, ArmedInv, TimerfdArmed, ArmedInTime
<1>2. QED
  BY <1>1, NextArmed, HeldInvariant, PTL DEF Spec

(* The timerfd is armed, or has expired, whenever there is a timer         *)
(* (TimerQueue.cc:81-82, 115-116).                                         *)
THEOREM AlwaysArmed == Spec => []TimerfdArmed
<1>1. ArmedInv => TimerfdArmed
  BY DEF ArmedInv
<1>2. QED
  BY <1>1, ArmedInvariant, PTL

(* It expires by the deadline of every timer, unless the wall clock was    *)
(* set (TimerQueue.cc:35-45, 79-82).                                       *)
THEOREM AlwaysArmedInTime == Spec => []ArmedInTime
<1>1. ArmedInv => ArmedInTime
  BY DEF ArmedInv
<1>2. QED
  BY <1>1, ArmedInvariant, PTL

-----------------------------------------------------------------------------
(* How deadlines follow from the runs. *)

(* The timer whose callback runs has been counted but not moved on.        *)
Counted(t) ==
  IF loopPc = "callback" /\ t = First(batch) THEN runs[t] - 1 ELSE runs[t]

NotEarly ==
  jumps = 0 =>
    \A t \in Timer : runs[t] > 0 => first[t] + (runs[t] - 1) * interval[t] <= now

DeadlineInv ==
  /\ \A t \in Timer :
       /\ memory[t] = "allocated" => when[t] = first[t] + Counted(t) * interval[t]
       /\ memory[t] = "unused" => runs[t] = 0
  /\ jumps = 0 => \A t \in batch : when[t] <= now
  /\ NotEarly

(* What is held and does not exist any more has been cancelled. *)
Places == timers \cup batch \cup ToInsert

PlacedInv == \A t \in Places : memory[t] = "allocated" \/ canceled[t]

LEMMA PlacedStay ==
  ASSUME HeldInv, PlacedInv, Places' \subseteq Places,
         \A t \in Places' : \/ memory'[t] = memory[t] /\ canceled'[t] = canceled[t]
                           \/ canceled'[t]
  PROVE  PlacedInv'
BY DEF PlacedInv

LEMMA NextPlaced == HeldInv /\ PlacedInv /\ [Next]_vars => PlacedInv'
<1> SUFFICES ASSUME HeldInv, PlacedInv, [Next]_vars PROVE PlacedInv'
  OBVIOUS
<1>1. UNCHANGED pending => ToInsert' = ToInsert
  BY DEF ToInsert
<1>2. CASE HandleRead
  BY <1>1, <1>2, PlacedStay DEF HandleRead, Places, Expired, Unexpired
<1>3. CASE RunTimer \/ EndBatch \/ Tick \/ Jump \/ UNCHANGED vars
  BY <1>1, <1>3, PlacedStay DEF RunTimer, EndBatch, Tick, Jump, vars, Places
<1>4. CASE EndTimer
  <2> DEFINE f == First(batch)
  <2>1. f \in batch /\ f \in Timer
    BY <1>4, FirstOf DEF EndTimer, HeldInv, TypeOK
  <2>2. batch' = batch \ {f} /\ UNCHANGED <<pending, canceled>> /\ (Restart(f) \/ Discard(f))
    BY <1>4 DEF EndTimer
  <2> HIDE DEF f
  <2>3. CASE Restart(f)
    BY <1>1, <2>1, <2>2, <2>3, PlacedStay DEF Restart, Places
  <2>4. CASE Discard(f)
    <3>1. timers' = timers /\ \A t \in Timer \ {f} : memory'[t] = memory[t]
      BY <2>4 DEF Discard, HeldInv, TypeOK
    <3>2. Places' \subseteq Places \ {f}
      BY <1>1, <2>1, <2>2, <3>1 DEF Places, HeldInv, HeldOnce
    <3>3. Places \subseteq Timer
      BY DEF Places, HeldInv, TypeOK, ToInsert
    <3>4. QED
      BY <2>2, <3>1, <3>2, <3>3, PlacedStay
  <2>5. QED
    BY <2>2, <2>3, <2>4
<1>5. CASE RunTask
  <2> DEFINE t == Head(pending)[2]
  <2>1. /\ t \in Timer /\ Head(pending) = <<Head(pending)[1], t>> /\ Head(pending) = pending[1]
        /\ ToInsert' = ToInsert \ {u \in Timer : Head(pending) = <<"insert", u>>}
        /\ 1 \in 1..Len(pending) /\ batch' = batch
    BY <1>5, TakeInv DEF RunTask
  <2>2. CASE Head(pending)[1] = "insert" /\ Insert(when[t], t) /\ UNCHANGED <<memory, canceled>>
    <3>1. t \in ToInsert
      BY <2>1, <2>2 DEF ToInsert
    <3>2. timers' = timers \cup {t}
      BY <2>2 DEF Insert
    <3> HIDE DEF t
    <3>3. Places' \subseteq Places
      BY <2>1, <3>1, <3>2 DEF Places
    <3>4. QED
      BY <2>2, <3>3, PlacedStay
  <2>3. CASE Erase(t)
    <3>1. /\ timers' = timers \ {t} /\ canceled'[t]
          /\ \A u \in Timer \ {t} : memory'[u] = memory[u] /\ canceled'[u] = canceled[u]
      BY <2>1, <2>3 DEF Erase, HeldInv, TypeOK
    <3> HIDE DEF t
    <3>2. Places' \subseteq Places /\ Places \subseteq Timer
      BY <2>1, <3>1 DEF Places, HeldInv, TypeOK, ToInsert
    <3>3. QED
      BY <3>1, <3>2, PlacedStay
  <2>4. QED
    BY <1>5, <2>2, <2>3 DEF RunTask
<1>6. ASSUME NEW t \in Timer, UserStep(t) PROVE PlacedInv'
  <2>1. ASSUME NEW d \in Nat, NEW i \in Nat, AddTimer(t, d, i) \/ AddTimerFrom(t, d, i)
        PROVE  PlacedInv'
    <3>1. /\ memory'[t] = "allocated" /\ \A u \in Timer \ {t} : memory'[u] = memory[u]
          /\ UNCHANGED <<canceled, batch>>
      BY <2>1 DEF AddTimer, AddTimerFrom, Create, HeldInv, TypeOK
    <3>2. Places' \subseteq Places \cup {t} /\ Places \subseteq Timer
      <4>1. CASE AddTimer(t, d, i)
        BY <1>1, <3>1, <4>1 DEF AddTimer, Insert, Places, HeldInv, TypeOK, ToInsert
      <4>2. CASE AddTimerFrom(t, d, i)
        <5>1. ToInsert' \subseteq ToInsert \cup {t} /\ timers' = timers
          BY <4>2, QueueInv DEF AddTimerFrom
        <5>2. QED
          BY <3>1, <5>1 DEF Places, HeldInv, TypeOK, ToInsert
      <4>3. QED
        BY <2>1, <4>1, <4>2
    <3>3. QED
      BY <3>1, <3>2 DEF PlacedInv
  <2>2. CASE CancelTimer(t)
    <3>1. /\ timers' = timers \ {t} /\ canceled'[t] /\ UNCHANGED <<batch, pending>>
          /\ \A u \in Timer \ {t} : memory'[u] = memory[u] /\ canceled'[u] = canceled[u]
      BY <2>2 DEF CancelTimer, Erase, HeldInv, TypeOK
    <3>2. Places' \subseteq Places /\ Places \subseteq Timer
      BY <1>1, <3>1 DEF Places, HeldInv, TypeOK, ToInsert
    <3>3. QED
      BY <3>1, <3>2, PlacedStay
  <2>3. CASE CancelTimerFrom(t)
    <3>1. ToInsert' = ToInsert
      BY <2>3, QueueInv DEF CancelTimerFrom
    <3>2. QED
      BY <2>3, <3>1, PlacedStay DEF CancelTimerFrom, Places
  <2>4. QED
    BY <1>6, <2>1, <2>2, <2>3, UserTimes DEF HeldInv
<1>7. QED
  BY <1>2, <1>3, <1>4, <1>5, <1>6 DEF Next, Handle, DoTask, Pass

(* Which entry of the batch is the first does not depend on other timers.  *)
LEMMA SameFirst ==
  ASSUME HeldInv, HeldInv', batch # {}, batch' = batch, \A t \in batch : when'[t] = when[t]
  PROVE  First(batch)' = First(batch)
<1>1. /\ First(batch) \in batch
      /\ \A u \in batch \ {First(batch)} : Before(when[First(batch)], First(batch), u)
  BY FirstOf DEF HeldInv, TypeOK
<1>2. /\ First(batch)' \in batch'
      /\ \A u \in batch' \ {First(batch)'} : Before(when[First(batch)], First(batch), u)'
  <2>1. \E m \in batch' : \A u \in batch' \ {m} : Before(when[m], m, u)'
    BY HasFirst DEF HeldInv, TypeOK, Before
  <2>2. QED
    BY <2>1 DEF First
<1>3. \A t \in batch : when[t] \in Nat /\ t \in Nat
  BY BoundAssumption DEF HeldInv, TypeOK, Timer
<1>4. QED
  BY <1>1, <1>2, <1>3 DEF Before

(* Steps that run no timer and create none. *)
LEMMA DeadlinesKept ==
  ASSUME HeldInv, HeldInv', DeadlineInv, UNCHANGED <<fields, runs>>,
         \A t \in Timer : memory'[t] = memory[t] \/ memory'[t] = "deleted",
         \/ loopPc' = loopPc /\ batch' = batch
         \/ loopPc # "callback" /\ loopPc' # "callback",
         jumps' = 0 => jumps = 0 /\ now <= now',
         \A t \in batch' : t \in batch \/ when[t] <= now
  PROVE  DeadlineInv'
<1>1. \A t \in Timer : Counted(t)' = Counted(t)
  <2>1. CASE loopPc = "callback"
    <3>1. batch # {} /\ batch' = batch /\ loopPc' = loopPc
      BY <2>1 DEF HeldInv, TypeOK
    <3>2. First(batch)' = First(batch)
      BY <3>1, SameFirst DEF fields
    <3>3. QED
      BY <3>1, <3>2 DEF Counted
  <2>2. CASE loopPc # "callback"
    BY <2>2 DEF Counted
  <2>3. QED
    BY <2>1, <2>2
<1>2. ASSUME NEW t \in Timer
      PROVE  /\ memory'[t] = "allocated" => when'[t] = first'[t] + Counted(t)' * interval'[t]
             /\ memory'[t] = "unused" => runs'[t] = 0
  BY <1>1 DEF DeadlineInv, fields
<1>3. now \in Nat /\ now' \in Nat /\ batch' \subseteq Timer /\ when \in [Timer -> Nat]
  BY BoundAssumption DEF HeldInv, TypeOK
<1>4. ASSUME jumps' = 0, NEW t \in batch' PROVE when'[t] <= now'
  <2>1. when[t] <= now
    BY <1>4 DEF DeadlineInv
  <2>2. QED
    BY <1>3, <1>4, <2>1 DEF fields
<1>5. NotEarly'
  <2> SUFFICES ASSUME jumps' = 0, NEW t \in Timer, runs'[t] > 0
               PROVE  first'[t] + (runs'[t] - 1) * interval'[t] <= now'
    BY DEF NotEarly
  <2>1. first[t] + (runs[t] - 1) * interval[t] <= now /\ now <= now'
    BY DEF DeadlineInv, NotEarly
  <2>2. first[t] \in Nat /\ runs[t] \in Nat /\ interval[t] \in Nat
    BY DEF HeldInv, TypeOK
  <2> DEFINE d == first[t] + (runs[t] - 1) * interval[t]
  <2>3. d \in Int
    BY <2>2
  <2>4. d <= now'
    <3> HIDE DEF d
    <3>1. d <= now
      BY <2>1 DEF d
    <3>2. QED
      BY <1>3, <2>1, <2>3, <3>1
  <2>5. QED
    BY <2>4 DEF fields
<1>6. QED
  BY <1>2, <1>4, <1>5 DEF DeadlineInv

LEMMA RunTimerDeadline ==
  ASSUME HeldInv, HeldInv', PlacedInv, DeadlineInv, RunTimer
  PROVE  DeadlineInv'
<1> DEFINE f == First(batch)
<1> USE DEF RunTimer, fields, clock
<1>1. f \in batch /\ f \in Timer
  BY FirstOf DEF HeldInv, TypeOK
<1>2. First(batch)' = f
  BY SameFirst
<1>3. CASE canceled[f]
  <2>1. memory[f] # "allocated" /\ runs' = runs
    BY <1>1, <1>3 DEF HeldInv, TypeOK
  <2> HIDE DEF f
  <2>2. \A t \in Timer \ {f} : Counted(t)' = Counted(t)
    BY <1>2, <2>1 DEF Counted
  <2>3. \A t \in Timer : memory'[t] = "allocated" => t # f
    BY <2>1
  <2>4. ASSUME NEW t \in Timer, memory'[t] = "allocated"
        PROVE  when'[t] = first'[t] + Counted(t)' * interval'[t]
    <3>1. t \in Timer \ {f} /\ memory[t] = "allocated"
      BY <2>3, <2>4
    <3>2. Counted(t)' = Counted(t) /\ UNCHANGED <<when, first, interval>>
      BY <2>2, <3>1
    <3>3. QED
      BY <3>1, <3>2 DEF DeadlineInv
  <2>5. \A t \in Timer : memory'[t] = "unused" => runs'[t] = 0
    BY <2>1 DEF DeadlineInv
  <2>6. jumps' = 0 => \A t \in batch' : when'[t] <= now'
    BY DEF DeadlineInv
  <2>7. NotEarly'
    BY <2>1 DEF DeadlineInv, NotEarly
  <2>8. QED
    BY <2>4, <2>5, <2>6, <2>7 DEF DeadlineInv
<1>4. CASE ~canceled[f]
  <2>1. memory[f] = "allocated"
    BY <1>1, <1>4 DEF PlacedInv, Places
  <2>2. runs'[f] = runs[f] + 1 /\ \A t \in Timer \ {f} : runs'[t] = runs[t]
    BY <1>1, <1>4 DEF HeldInv, TypeOK
  <2>3. runs[f] \in Nat
    BY <1>1 DEF HeldInv, TypeOK
  <2> HIDE DEF f
  <2>4. \A t \in Timer : Counted(t)' = Counted(t) /\ Counted(t) = runs[t]
    BY <1>2, <2>2, <2>3 DEF Counted
  <2>5. NotEarly'
    <3> SUFFICES ASSUME jumps' = 0, NEW t \in Timer, runs'[t] > 0
                 PROVE  first[t] + (runs'[t] - 1) * interval[t] <= now
      BY DEF NotEarly
    <3>1. CASE t = f
      <4>1. when[f] <= now /\ when[f] = first[f] + runs[f] * interval[f]
        BY <1>1, <2>1, <2>4 DEF DeadlineInv
      <4>2. runs'[f] - 1 = runs[f]
        BY <2>2, <2>3
      <4>3. QED
        BY <3>1, <4>1, <4>2
    <3>2. CASE t # f
      BY <2>2, <3>2 DEF DeadlineInv, NotEarly
    <3>3. QED
      BY <3>1, <3>2
  <2>6. \A t \in Timer : memory'[t] = "unused" => runs'[t] = 0
    BY <2>1, <2>2 DEF DeadlineInv
  <2>7. QED
    BY <2>4, <2>5, <2>6 DEF DeadlineInv
<1>5. QED
  BY <1>3, <1>4

LEMMA Product ==
  ASSUME NEW a \in Int, NEW r \in Int, NEW i \in Int
  PROVE  a + (r - 1) * i + i = a + r * i
OBVIOUS

LEMMA EndTimerDeadline ==
  ASSUME HeldInv, HeldInv', DeadlineInv, EndTimer
  PROVE  DeadlineInv'
<1> DEFINE f == First(batch)
<1> USE DEF EndTimer, fields, clock
<1>1. f \in batch /\ f \in Timer /\ memory[f] # "unused" /\ batch' = batch \ {f}
  BY FirstOf, NotUnused DEF HeldInv, TypeOK
<1>2. /\ first[f] \in Nat /\ runs[f] \in Nat /\ interval[f] \in Nat
      /\ memory[f] = "allocated" => when[f] = first[f] + (runs[f] - 1) * interval[f]
  BY <1>1 DEF DeadlineInv, Counted, HeldInv, TypeOK
<1>3. /\ \A t \in Timer \ {f} : memory'[t] = memory[t] /\ when'[t] = when[t]
      /\ \/ memory'[f] = "deleted"
         \/ memory'[f] = memory[f] /\ when'[f] = when[f] + interval[f]
  <2>1. /\ memory' = memory \/ memory' = [memory EXCEPT ![f] = "deleted"]
        /\ when' = when \/ when' = [when EXCEPT ![f] = @ + interval[f]]
        /\ memory' = [memory EXCEPT ![f] = "deleted"]
           \/ (memory' = memory /\ when' = [when EXCEPT ![f] = @ + interval[f]])
    BY DEF Restart, Discard
  <2>2. QED
    BY <1>1, <2>1 DEF HeldInv, TypeOK
<1>4. \A t \in Timer : Counted(t)' = runs[t]
  BY DEF Counted
<1>5. \A t \in Timer \ {f} : Counted(t) = runs[t]
  BY DEF Counted
<1> HIDE DEF f
<1>6. ASSUME NEW t \in Timer, memory'[t] = "allocated"
      PROVE  when'[t] = first'[t] + Counted(t)' * interval'[t]
  <2>1. CASE t = f
    <3>0. memory'[f] = memory[f] /\ when'[f] = when[f] + interval[f] /\ memory[f] = "allocated"
      BY <1>3, <1>6, <2>1
    <3>1. when'[f] = first[f] + (runs[f] - 1) * interval[f] + interval[f]
      BY <1>2, <3>0
    <3>2. first[f] \in Int /\ runs[f] \in Int /\ interval[f] \in Int
      BY <1>2
    <3>3. first[f] + (runs[f] - 1) * interval[f] + interval[f] = first[f] + runs[f] * interval[f]
      BY ONLY <3>2, Product
    <3>4. when'[f] = first[f] + runs[f] * interval[f]
      BY <3>1, <3>3
    <3>5. QED
      BY <1>1, <1>4, <2>1, <3>4
  <2>2. CASE t # f
    BY <1>3, <1>4, <1>5, <1>6, <2>2 DEF DeadlineInv
  <2>3. QED
    BY <2>1, <2>2
<1>7. \A t \in Timer : memory'[t] = "unused" => runs'[t] = 0
  BY <1>1, <1>3 DEF DeadlineInv
<1>8. jumps' = 0 => \A t \in batch' : when'[t] <= now'
  BY <1>1, <1>3 DEF DeadlineInv, HeldInv, TypeOK
<1>9. NotEarly'
  BY DEF DeadlineInv, NotEarly
<1>10. QED
  BY <1>6, <1>7, <1>8, <1>9 DEF DeadlineInv

(* A timer that is created has not run yet. *)
LEMMA CreateDeadline ==
  ASSUME HeldInv, HeldInv', DeadlineInv, NEW t \in Timer, NEW d \in Nat, NEW i \in Nat,
         Create(t, d, i), UNCHANGED <<loopPc, clock, batch, runs>>
  PROVE  DeadlineInv'
<1> USE DEF Create, clock
<1>1. /\ runs[t] = 0 /\ t \notin batch /\ batch \subseteq Timer
  BY NotUnused DEF DeadlineInv, HeldInv, TypeOK
<1>2. /\ when'[t] = d /\ first'[t] = d /\ interval'[t] = i
      /\ \A u \in Timer \ {t} : /\ when'[u] = when[u] /\ first'[u] = first[u]
                               /\ interval'[u] = interval[u] /\ memory'[u] = memory[u]
      /\ memory'[t] = "allocated"
  BY DEF HeldInv, TypeOK
<1>3. \A u \in Timer : Counted(u)' = Counted(u)
  <2>1. CASE loopPc = "callback"
    <3>1. batch # {}
      BY <2>1 DEF HeldInv, TypeOK
    <3>2. First(batch)' = First(batch)
      BY <1>1, <1>2, <3>1, SameFirst
    <3>3. QED
      BY <3>2 DEF Counted
  <2>2. CASE loopPc # "callback"
    BY <2>2 DEF Counted
  <2>3. QED
    BY <2>1, <2>2
<1>4. Counted(t) = 0
  <2>1. loopPc = "callback" => First(batch) \in batch
    BY FirstOf DEF HeldInv, TypeOK
  <2>2. QED
    BY <1>1, <2>1 DEF Counted
<1>5. ASSUME NEW u \in Timer, memory'[u] = "allocated"
      PROVE  when'[u] = first'[u] + Counted(u)' * interval'[u]
  <2>1. CASE u = t
    <3>1. d = d + 0 * i
      OBVIOUS
    <3>2. QED
      BY <1>2, <1>3, <1>4, <2>1, <3>1
  <2>2. CASE u # t
    BY <1>2, <1>3, <1>5, <2>2 DEF DeadlineInv
  <2>3. QED
    BY <2>1, <2>2
<1>6. \A u \in Timer : memory'[u] = "unused" => runs'[u] = 0
  BY <1>2 DEF DeadlineInv
<1>7. jumps' = 0 => \A u \in batch' : when'[u] <= now'
  BY <1>1, <1>2 DEF DeadlineInv
<1>8. NotEarly'
  BY <1>1, <1>2 DEF DeadlineInv, NotEarly
<1>9. QED
  BY <1>5, <1>6, <1>7, <1>8 DEF DeadlineInv

LEMMA NextDeadline ==
  HeldInv /\ HeldInv' /\ PlacedInv /\ DeadlineInv /\ [Next]_vars => DeadlineInv'
<1> SUFFICES ASSUME HeldInv, HeldInv', PlacedInv, DeadlineInv, [Next]_vars PROVE DeadlineInv'
  OBVIOUS
<1>0. now \in 0..MaxTime /\ MaxTime \in Nat /\ jumps \in Nat /\ when \in [Timer -> Nat]
  BY BoundAssumption DEF HeldInv, TypeOK
<1>1. CASE HandleRead
  <2>1. \A t \in batch' : when[t] <= now
    BY <1>1 DEF HandleRead, Expired
  <2>2. QED
    BY <1>0, <1>1, <2>1, DeadlinesKept DEF HandleRead, clock
<1>2. CASE RunTimer
  BY <1>2, RunTimerDeadline
<1>3. CASE EndTimer
  BY <1>3, EndTimerDeadline
<1>4. CASE EndBatch
  BY <1>0, <1>4, DeadlinesKept DEF EndBatch, clock
<1>5. CASE RunTask
  <2>1. \A t \in Timer : memory'[t] = memory[t] \/ memory'[t] = "deleted"
    BY <1>5 DEF RunTask, Erase, HeldInv, TypeOK
  <2>2. QED
    BY <1>0, <1>5, <2>1, DeadlinesKept DEF RunTask, clock
<1>6. CASE Tick
  <2>1. now <= now'
    BY <1>0, <1>6 DEF Tick
  <2>2. QED
    BY <1>6, <2>1, DeadlinesKept DEF Tick
<1>7. CASE Jump
  <2>1. jumps' # 0
    BY <1>0, <1>7 DEF Jump
  <2>2. QED
    BY <1>7, <2>1, DeadlinesKept DEF Jump
<1>8. ASSUME NEW t \in Timer, UserStep(t) PROVE DeadlineInv'
  <2>1. ASSUME NEW d \in Delays, NEW i \in Intervals,
               AddTimer(t, now + d, i) \/ AddTimerFrom(t, now + d, i)
        PROVE  DeadlineInv'
    <3>1. now + d \in Nat /\ i \in Nat
      BY <1>0, TimesAssumption
    <3>2. Create(t, now + d, i) /\ UNCHANGED <<loopPc, clock, batch, runs>>
      BY <2>1 DEF AddTimer, AddTimerFrom
    <3>3. QED
      BY <3>1, <3>2, CreateDeadline
  <2>2. CASE CancelTimer(t)
    <3>1. \A u \in Timer : memory'[u] = memory[u] \/ memory'[u] = "deleted"
      BY <2>2 DEF CancelTimer, Erase, HeldInv, TypeOK
    <3>2. QED
      BY <1>0, <2>2, <3>1, DeadlinesKept DEF CancelTimer, clock
  <2>3. CASE CancelTimerFrom(t)
    BY <1>0, <2>3, DeadlinesKept DEF CancelTimerFrom, clock
  <2>4. QED
    BY <1>8, <2>1, <2>2, <2>3 DEF UserStep
<1>9. CASE UNCHANGED vars
  BY <1>0, <1>9, DeadlinesKept DEF vars, clock
<1>10. QED
  BY <1>1, <1>2, <1>3, <1>4, <1>5, <1>6, <1>7, <1>8, <1>9 DEF Next, Handle, DoTask, Pass

(* Of a timer that is not running the next deadline follows its runs, and  *)
(* it never runs before its deadline unless the wall clock was set,        *)
(* however late earlier runs were and whatever was added and cancelled     *)
(* (Timer.h:47-50, TimerQueue.cc:94-130).                                  *)
THEOREM RunsOnTime == Spec => []OnSchedule
<1>1. Init => PlacedInv /\ DeadlineInv
  <2> SUFFICES ASSUME Init PROVE PlacedInv /\ DeadlineInv
    OBVIOUS
  <2>1. \A t \in Timer : memory[t] = "unused" /\ runs[t] = 0 /\ ~(runs[t] > 0)
    BY DEF Init
  <2>2. DeadlineInv
    BY <2>1 DEF Init, DeadlineInv, NotEarly
  <2>3. Places = {}
    BY DEF Init, Places, ToInsert
  <2>4. QED
    BY <2>2, <2>3 DEF PlacedInv
<1>2. HeldInv /\ DeadlineInv => OnSchedule
  <2> SUFFICES ASSUME HeldInv, DeadlineInv PROVE OnSchedule
    OBVIOUS
  <2>1. ASSUME NEW t \in Timer \ batch, memory[t] = "allocated"
        PROVE  when[t] = first[t] + runs[t] * interval[t]
    <3>1. loopPc = "callback" => First(batch) \in batch
      BY FirstOf DEF HeldInv, TypeOK
    <3>2. Counted(t) = runs[t]
      BY <2>1, <3>1 DEF Counted
    <3>3. QED
      BY <2>1, <3>2 DEF DeadlineInv
  <2>2. QED
    BY <2>1 DEF OnSchedule, DeadlineInv, NotEarly
<1>3. QED
  BY <1>1, <1>2, NextPlaced, NextDeadline, HeldInvariant, PTL DEF Spec
================================================================================
