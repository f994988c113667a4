-------------------------- MODULE AsyncLogging_proofs --------------------------
(***************************************************************************)
(* Who owns the buffers of AsyncLogging, for any number and size of        *)
(* buffers, any number of lines and any number of lives of the logging     *)
(* thread.                                                                 *)
(***************************************************************************)
EXTENDS AsyncLogging, SequenceTheorems, WellFoundedInduction, TLAPS

Pointers ==
  /\ currentBuffer \in BufferId
  /\ nextBuffer \in BufferId \cup {Null}
  /\ newBuffer1 \in BufferId \cup {Null} /\ newBuffer2 \in BufferId \cup {Null}
  /\ buffers \in Seq(BufferId) /\ buffersToWrite \in Seq(BufferId)

Datas == data \in [BufferId -> Seq(Nat)] /\ appended \in Nat

(* The pointers of the front and of the logging thread are to different    *)
(* buffers, listed or not.                                                 *)
Owners == {currentBuffer, nextBuffer, newBuffer1, newBuffer2}

SinglesOwned ==
  /\ currentBuffer \notin {nextBuffer, newBuffer1, newBuffer2}
  /\ nextBuffer # Null => nextBuffer \notin {newBuffer1, newBuffer2}
  /\ newBuffer1 # Null => newBuffer1 # newBuffer2

ListsOwned ==
  /\ \A i \in 1..Len(buffers) : buffers[i] \notin Owners
  /\ \A i \in 1..Len(buffersToWrite) : buffersToWrite[i] \notin Owners

ListsApart ==
  /\ \A i, j \in 1..Len(buffers) : buffers[i] = buffers[j] => i = j
  /\ \A i, j \in 1..Len(buffersToWrite) : buffersToWrite[i] = buffersToWrite[j] => i = j
  /\ \A i \in 1..Len(buffers), j \in 1..Len(buffersToWrite) : buffers[i] # buffersToWrite[j]

(* What the logging thread has, at each place of threadFunc.  When append  *)
(* has taken nextBuffer_ it has put a full buffer into buffers_, so that   *)
(* the thread, which then gives newBuffer2 away, has two to write.         *)
ThreadHas ==
  /\ thread \in {"none", "begin", "top", "lock", "wait", "write", "recycle", "done",
                "aborted"}
  /\ thread \in {"none", "begin", "aborted"} => newBuffer1 = Null /\ newBuffer2 = Null
  /\ thread \notin {"write", "recycle"} => buffersToWrite = <<>>
  /\ thread \in {"top", "lock", "wait"} => newBuffer1 # Null /\ newBuffer2 # Null
  /\ thread \in {"write", "recycle"} =>
       newBuffer1 = Null /\ Len(buffersToWrite) >= IF newBuffer2 = Null THEN 2 ELSE 1
  /\ nextBuffer = Null => buffers # <<>>

(* Its own buffers are empty, and so is memory that nobody uses. *)
OwnEmpty ==
  /\ newBuffer1 # Null => data[newBuffer1] = <<>>
  /\ newBuffer2 # Null => data[newBuffer2] = <<>>

Free(b) ==
  /\ b \notin Owners
  /\ \A i \in 1..Len(buffers) : buffers[i] # b
  /\ \A i \in 1..Len(buffersToWrite) : buffersToWrite[i] # b

FreeEmpty == \A b \in BufferId : Free(b) => data[b] = <<>>

Owned == SinglesOwned /\ ListsOwned /\ ListsApart

IInv == Pointers /\ Datas /\ Owned /\ ThreadHas /\ OwnEmpty /\ FreeEmpty

-----------------------------------------------------------------------------
(* A buffer that is not in use is none that a pointer refers to.           *)
LEMMA FreeIsApart ==
  ASSUME NEW b \in BufferId, b \notin InUse, Pointers
  PROVE  Free(b)
<1> USE NullAssumption DEF Pointers
<1>1. b \notin Owners
  <2> DEFINE ptrs == <<currentBuffer, nextBuffer, newBuffer1, newBuffer2>>
  <2>1. b \notin {ptrs[i] : i \in DOMAIN ptrs} \ {Null}
    BY DEF InUse, Held
  <2>2. /\ DOMAIN ptrs = 1..4 /\ ptrs[1] = currentBuffer /\ ptrs[2] = nextBuffer
        /\ ptrs[3] = newBuffer1 /\ ptrs[4] = newBuffer2
    OBVIOUS
  <2> HIDE DEF ptrs
  <2>3. b \notin {ptrs[i] : i \in DOMAIN ptrs}
    BY <2>1
  <2>4. 1 \in DOMAIN ptrs /\ 2 \in DOMAIN ptrs /\ 3 \in DOMAIN ptrs /\ 4 \in DOMAIN ptrs
    BY <2>2
  <2>5. ptrs[1] # b /\ ptrs[2] # b /\ ptrs[3] # b /\ ptrs[4] # b
    BY <2>3, <2>4
  <2>6. QED
    BY <2>2, <2>5 DEF Owners
<1>2. \A i \in 1..Len(buffers) : buffers[i] # b
  BY DEF InUse, Held
<1>3. \A i \in 1..Len(buffersToWrite) : buffersToWrite[i] # b
  BY DEF InUse, Held
<1>4. QED
  BY <1>1, <1>2, <1>3 DEF Free

LEMMA FreshIsFree ==
  ASSUME NEW used, BufferId \ used # {}
  PROVE  Fresh(used) \in BufferId /\ Fresh(used) \notin used
BY DEF Fresh

LEMMA InitInv == Init => IInv
<1> SUFFICES ASSUME Init PROVE IInv
  OBVIOUS
<1>1. currentBuffer \in BufferId
  BY MemoryAssumption, FreshIsFree DEF Init
<1>2. nextBuffer \in BufferId /\ nextBuffer # currentBuffer
  <2>1. BufferId \ {currentBuffer} # {}
    BY MemoryAssumption
  <2>2. QED
    BY <2>1, FreshIsFree DEF Init
<1>3. Pointers /\ Datas
  BY <1>1, <1>2 DEF Init, Pointers, Datas
<1>4. SinglesOwned /\ ListsOwned /\ ListsApart
  BY <1>1, <1>2, NullAssumption DEF Init, SinglesOwned, ListsOwned, ListsApart
<1>5. ThreadHas /\ OwnEmpty /\ FreeEmpty
  BY <1>2, NullAssumption DEF Init, ThreadHas, OwnEmpty, FreeEmpty
<1>6. QED
  BY <1>3, <1>4, <1>5 DEF IInv, Owned

-----------------------------------------------------------------------------
(* append writes to the buffer of the front only. *)
LEMMA BufferAppendData ==
  ASSUME Datas, NEW b \in BufferId, BufferAppend(b)
  PROVE  /\ data' \in [BufferId -> Seq(Nat)]
         /\ \A c \in BufferId : c # b => data'[c] = data[c]
<1>1. appended + 1 \in Nat /\ data[b] \in Seq(Nat)
  BY DEF Datas
<1>2. Append(data[b], appended + 1) \in Seq(Nat)
  BY <1>1
<1>3. QED
  BY <1>2 DEF Datas, BufferAppend

LEMMA AppendLineInv == IInv /\ AppendLine => IInv'
<1> SUFFICES ASSUME IInv, AppendLine PROVE IInv'
  OBVIOUS
<1> USE NullAssumption DEF IInv, Owned
<1>0. UNCHANGED <<thread, newBuffer1, newBuffer2, buffersToWrite>> /\ appended' = appended + 1
  BY DEF AppendLine, back
<1>1. CASE AppendHere
  <2>1. UNCHANGED <<currentBuffer, nextBuffer, buffers>> /\ BufferAppend(currentBuffer)
    BY <1>1 DEF AppendHere, front
  <2>2. /\ data' \in [BufferId -> Seq(Nat)]
        /\ \A c \in BufferId : c # currentBuffer => data'[c] = data[c]
    BY <2>1, BufferAppendData DEF Pointers
  <2>3. Pointers' /\ Datas'
    BY <1>0, <2>1, <2>2 DEF Pointers, Datas
  <2>4. SinglesOwned' /\ ListsOwned' /\ ListsApart' /\ ThreadHas'
    BY <1>0, <2>1 DEF SinglesOwned, ListsOwned, ListsApart, ThreadHas, Owners
  <2>5. OwnEmpty'
    BY <1>0, <2>2 DEF OwnEmpty, Pointers, SinglesOwned
  <2>6. FreeEmpty'
    <3>1. \A c \in BufferId : Free(c)' => Free(c) /\ c # currentBuffer
      BY <1>0, <2>1 DEF Free, Owners
    <3>2. QED
      BY <2>2, <3>1 DEF FreeEmpty
  <2>7. QED
    BY <2>3, <2>4, <2>5, <2>6
<1>2. CASE AppendToNext
  <2> DEFINE b == currentBuffer'
  <2>1. /\ buffers' = Append(buffers, currentBuffer) /\ nextBuffer' = Null
        /\ BufferAppend(b)
    BY <1>2 DEF AppendToNext, NextAfterMove
  <2>2. /\ b \in BufferId /\ b \notin {currentBuffer, newBuffer1, newBuffer2}
        /\ \A i \in 1..Len(buffers) : buffers[i] # b
        /\ \A i \in 1..Len(buffersToWrite) : buffersToWrite[i] # b
    <3>1. CASE nextBuffer # Null
      <4>1. b = nextBuffer
        BY <1>2, <3>1 DEF AppendToNext
      <4>2. QED
        BY <3>1, <4>1 DEF Pointers, SinglesOwned, ListsOwned, Owners
    <3>2. CASE nextBuffer = Null
      <4>1. b = Fresh(InUse) /\ BufferId \ InUse # {}
        BY <1>2, <3>2 DEF AppendToNext
      <4>2. b \in BufferId /\ b \notin InUse
        BY <4>1, FreshIsFree
      <4> HIDE DEF b
      <4>3. QED
        BY <4>2, FreeIsApart DEF Free, Owners
    <3>3. QED
      BY <3>1, <3>2
  <2> HIDE DEF b
  <2>3. /\ buffers' \in Seq(BufferId) /\ Len(buffers') = Len(buffers) + 1
        /\ Len(buffers) \in Nat /\ buffers'[Len(buffers) + 1] = currentBuffer
        /\ \A i \in 1..Len(buffers) : buffers'[i] = buffers[i]
    BY <2>1 DEF Pointers
  <2>4. /\ data' \in [BufferId -> Seq(Nat)]
        /\ \A c \in BufferId : c # b => data'[c] = data[c]
    BY <2>1, <2>2, BufferAppendData
  <2>5. Pointers' /\ Datas'
    BY <1>0, <2>1, <2>2, <2>3, <2>4 DEF Pointers, Datas, b
  <2>6. SinglesOwned'
    BY <1>0, <2>1, <2>2 DEF SinglesOwned, Pointers, b
  <2>7. \A i \in 1..Len(buffers') :
          i \in 1..Len(buffers) \/ (i = Len(buffers) + 1 /\ buffers'[i] = currentBuffer)
    BY <2>3
  <2>8. ListsOwned'
    <3>0. /\ \A i \in 1..Len(buffers) : buffers[i] \in BufferId /\ buffers[i] \notin Owners
          /\ \A i \in 1..Len(buffersToWrite) :
               buffersToWrite[i] \in BufferId /\ buffersToWrite[i] \notin Owners
      BY DEF ListsOwned, Pointers
    <3>1. Owners' = {b, Null, newBuffer1, newBuffer2}
      BY <1>0, <2>1 DEF Owners, b
    <3>2. \A i \in 1..Len(buffers') : buffers'[i] \notin Owners'
      <4>1. \A i \in 1..Len(buffers) : buffers[i] \notin Owners'
        BY <2>2, <3>0, <3>1 DEF Owners
      <4>2. currentBuffer \notin Owners'
        BY <2>2, <3>1 DEF SinglesOwned, Pointers
      <4>3. QED
        BY <2>3, <2>7, <4>1, <4>2
    <3>3. \A i \in 1..Len(buffersToWrite) : buffersToWrite[i] \notin Owners'
      BY <2>2, <3>0, <3>1 DEF Owners
    <3>4. QED
      BY <1>0, <3>2, <3>3 DEF ListsOwned
  <2>9. ListsApart'
    <3>1. /\ \A i \in 1..Len(buffers) : buffers[i] # currentBuffer
          /\ \A i \in 1..Len(buffersToWrite) : buffersToWrite[i] # currentBuffer
      BY DEF ListsOwned, Owners
    <3>2. \A i, j \in 1..Len(buffers') : buffers'[i] = buffers'[j] => i = j
      BY <2>3, <2>7, <3>1 DEF ListsApart
    <3>3. \A i \in 1..Len(buffers'), j \in 1..Len(buffersToWrite) : buffers'[i] # buffersToWrite[j]
      BY <2>3, <2>7, <3>1 DEF ListsApart
    <3>4. QED
      BY <1>0, <3>2, <3>3 DEF ListsApart
  <2>10. ThreadHas'
    BY <1>0, <2>3 DEF ThreadHas
  <2>11. OwnEmpty'
    BY <1>0, <2>2, <2>4 DEF OwnEmpty, Pointers
  <2>12. FreeEmpty'
    <3>1. \A c \in BufferId : Free(c)' => c # b /\ c # Null
      BY DEF Free, Owners, b
    <3>2. ASSUME NEW c \in BufferId, Free(c)'
          PROVE  Free(c)
      <4>1. c # currentBuffer /\ \A i \in 1..Len(buffers) : buffers[i] # c
        BY <2>3, <3>2 DEF Free
      <4>2. c \notin {nextBuffer, newBuffer1, newBuffer2}
        <5>1. nextBuffer = Null \/ nextBuffer = b
          BY <1>2 DEF AppendToNext, b
        <5>2. QED
          BY <1>0, <3>1, <3>2, <5>1 DEF Free, Owners
      <4>3. QED
        BY <1>0, <3>2, <4>1, <4>2 DEF Free, Owners
    <3>3. QED
      BY <2>4, <3>1, <3>2 DEF FreeEmpty
  <2>13. QED
    BY <2>5, <2>6, <2>8, <2>9, <2>10, <2>11, <2>12
<1>3. QED
  BY <1>1, <1>2 DEF AppendLine

-----------------------------------------------------------------------------
LEMMA ControlInv == IInv /\ (Start \/ Stop \/ Join) => IInv'
<1> SUFFICES ASSUME IInv, Start \/ Stop \/ Join PROVE IInv'
  OBVIOUS
<1> USE NullAssumption DEF IInv, Owned, front, back
<1>1. CASE Start \/ Stop
  <2>1. /\ UNCHANGED <<currentBuffer, nextBuffer, buffers, newBuffer1, newBuffer2,
                       buffersToWrite, data, appended>>
        /\ thread' = thread \/ (thread = "none" /\ thread' = "begin")
    BY <1>1 DEF Start, Stop
  <2>2. Pointers' /\ Datas' /\ Owned'
    BY <2>1 DEF Pointers, Datas, SinglesOwned, ListsOwned, ListsApart, Owners
  <2>3. ThreadHas'
    BY <2>1 DEF ThreadHas
  <2>4. OwnEmpty' /\ FreeEmpty'
    BY <2>1 DEF OwnEmpty, FreeEmpty, Free, Owners
  <2>5. QED
    BY <2>2, <2>3, <2>4
<1>2. CASE Join
  <2> USE <1>2 DEF Join
  <2>1. Pointers' /\ Datas'
    BY DEF Pointers, Datas
  <2>2. SinglesOwned'
    BY DEF SinglesOwned, Pointers
  <2>3. ListsOwned'
    BY DEF ListsOwned, Owners, Pointers
  <2>4. ListsApart' /\ ThreadHas' /\ OwnEmpty'
    BY DEF ListsApart, ThreadHas, OwnEmpty
  <2>5. FreeEmpty'
    <3>1. \A c \in BufferId : Free(c)' => Free(c) \/ c = newBuffer1 \/ c = newBuffer2
      BY DEF Free, Owners
    <3>2. QED
      BY <3>1 DEF FreeEmpty, OwnEmpty
  <2>6. QED
    BY <2>1, <2>2, <2>3, <2>4, <2>5
<1>3. QED
  BY <1>1, <1>2

(* A new thread's buffers are taken from those that are free.              *)
LEMMA ThreadBeginInv == IInv /\ ThreadBegin => IInv'
<1> SUFFICES ASSUME IInv, ThreadBegin PROVE IInv'
  OBVIOUS
<1> DEFINE a == newBuffer1'
           b == newBuffer2'
<1> USE NullAssumption DEF IInv, Owned
<1>1. /\ thread = "begin" /\ thread' = "top"
      /\ UNCHANGED <<currentBuffer, nextBuffer, buffers, buffersToWrite, data, appended>>
  BY DEF ThreadBegin, front
<1>2. a \in BufferId /\ a \notin InUse
  BY FreshIsFree DEF ThreadBegin
<1>3. b \in BufferId /\ b \notin InUse /\ b # a
  <2>1. BufferId \ (InUse \cup {a}) # {} /\ b = Fresh(InUse \cup {a})
    BY DEF ThreadBegin
  <2> HIDE DEF a, b
  <2>2. QED
    BY <2>1, FreshIsFree
<1> HIDE DEF a, b
<1>4. Free(a) /\ Free(b)
  BY <1>2, <1>3, FreeIsApart
<1>5. newBuffer1 = Null /\ newBuffer2 = Null /\ buffersToWrite = <<>>
  BY <1>1 DEF ThreadHas
<1>6. Pointers' /\ Datas'
  BY <1>1, <1>2, <1>3 DEF Pointers, Datas, a, b
<1>7. SinglesOwned'
  BY <1>1, <1>2, <1>3, <1>4 DEF SinglesOwned, Free, Owners, a, b
<1>8. ListsOwned'
  <2>1. Owners' = {currentBuffer, nextBuffer, a, b}
    BY <1>1 DEF Owners, a, b
  <2>2. \A i \in 1..Len(buffers) : buffers[i] \notin {currentBuffer, nextBuffer, a, b}
    BY <1>4 DEF ListsOwned, Owners, Free
  <2>3. QED
    BY <1>1, <1>5, <2>1, <2>2 DEF ListsOwned
<1>9. ListsApart' /\ ThreadHas'
  BY <1>1, <1>2, <1>3, <1>5 DEF ListsApart, ThreadHas, a, b
<1>10. OwnEmpty' /\ FreeEmpty'
  <2>1. data[a] = <<>> /\ data[b] = <<>>
    BY <1>2, <1>3, <1>4 DEF FreeEmpty
  <2>2. \A c \in BufferId : Free(c)' => Free(c)
    BY <1>1, <1>5, NullAssumption DEF Free, Owners
  <2>3. QED
    BY <1>1, <2>1, <2>2 DEF OwnEmpty, FreeEmpty, a, b
<1>11. QED
  BY <1>6, <1>7, <1>8, <1>9, <1>10

(* The critical section: every pointer moves, and no buffer is lost.       *)
LEMMA SwapInv == IInv /\ Swap => IInv'
<1> SUFFICES ASSUME IInv, Swap PROVE IInv'
  OBVIOUS
<1> USE NullAssumption DEF IInv, Owned
<1>1. /\ thread \in {"lock", "wait"} /\ thread' = "write"
      /\ buffersToWrite' = Append(buffers, currentBuffer) /\ buffers' = <<>>
      /\ currentBuffer' = newBuffer1 /\ newBuffer1' = Null
      /\ IF nextBuffer = Null THEN nextBuffer' = newBuffer2 /\ newBuffer2' = Null
                              ELSE UNCHANGED <<nextBuffer, newBuffer2>>
      /\ UNCHANGED <<data, appended>>
  BY DEF Swap, Refill
<1>2. newBuffer1 \in BufferId /\ newBuffer2 \in BufferId /\ buffersToWrite = <<>>
  BY <1>1 DEF ThreadHas, Pointers
<1>3. /\ buffersToWrite' \in Seq(BufferId) /\ Len(buffersToWrite') = Len(buffers) + 1
      /\ Len(buffers) \in Nat /\ buffersToWrite'[Len(buffers) + 1] = currentBuffer
      /\ \A k \in 1..Len(buffers) : buffersToWrite'[k] = buffers[k]
  BY <1>1 DEF Pointers
<1>4. \A k \in 1..Len(buffersToWrite') : k \in 1..Len(buffers) \/ k = Len(buffers) + 1
  BY <1>3
<1>5. Owners' = {newBuffer1, nextBuffer, newBuffer2, Null}
  BY <1>1 DEF Owners
<1>6. Pointers' /\ Datas'
  BY <1>1, <1>2, <1>3 DEF Pointers, Datas
<1>7. SinglesOwned'
  BY <1>1, <1>2 DEF SinglesOwned
<1>8. ListsOwned'
  <2>1. \A k \in 1..Len(buffers) : buffers[k] \notin Owners'
    <3>1. \A k \in 1..Len(buffers) : buffers[k] \in BufferId /\ buffers[k] \notin Owners
      BY DEF ListsOwned, Pointers
    <3>2. QED
      BY <1>5, <3>1 DEF Owners
  <2>2. currentBuffer \notin Owners'
    BY <1>5 DEF SinglesOwned, Pointers
  <2>3. QED
    BY <1>1, <1>3, <1>4, <2>1, <2>2 DEF ListsOwned
<1>9. ListsApart'
  <2>1. \A k \in 1..Len(buffers) : buffers[k] # currentBuffer
    BY DEF ListsOwned, Owners
  <2>2. \A k, j \in 1..Len(buffersToWrite') : buffersToWrite'[k] = buffersToWrite'[j] => k = j
    BY <1>3, <1>4, <2>1 DEF ListsApart
  <2>3. QED
    BY <1>1, <2>2 DEF ListsApart
<1>10. ThreadHas'
  <2>1. nextBuffer = Null => Len(buffers) >= 1
    BY <1>3 DEF ThreadHas, Pointers
  <2>2. nextBuffer' # Null
    BY <1>1, <1>2
  <2>3. Len(buffersToWrite') >= IF newBuffer2' = Null THEN 2 ELSE 1
    BY <1>1, <1>2, <1>3, <2>1
  <2>4. QED
    BY <1>1, <2>2, <2>3 DEF ThreadHas
<1>11. OwnEmpty'
  BY <1>1 DEF OwnEmpty
<1>12. FreeEmpty'
  <2>1. ASSUME NEW c \in BufferId, Free(c)'
        PROVE  Free(c)
    <3>1. c # currentBuffer /\ \A k \in 1..Len(buffers) : buffers[k] # c
      BY <1>3, <2>1 DEF Free
    <3>2. c \notin Owners
      BY <1>5, <2>1, <3>1 DEF Free, Owners
    <3>3. QED
      BY <1>2, <3>1, <3>2 DEF Free
  <2>2. QED
    BY <1>1, <2>1 DEF FreeEmpty
<1>13. QED
  BY <1>6, <1>7, <1>8, <1>9, <1>10, <1>11, <1>12

-----------------------------------------------------------------------------
LEMMA EmptiedData ==
  ASSUME Datas, NEW bufs
  PROVE  /\ Emptied(bufs) \in [BufferId -> Seq(Nat)]
         /\ \A b \in BufferId : Emptied(bufs)[b] = IF b \in bufs THEN <<>> ELSE data[b]
BY DEF Datas, Emptied

(* A prefix of buffersToWrite is written, and the others are let go.       *)
LEMMA WriteInv == IInv /\ Write => IInv'
<1> SUFFICES ASSUME IInv, Write PROVE IInv'
  OBVIOUS
<1> USE NullAssumption DEF IInv, Owned
<1>1. /\ thread = "write" /\ thread' = "recycle"
      /\ UNCHANGED <<currentBuffer, nextBuffer, buffers, newBuffer1, newBuffer2, appended>>
      /\ data' = Emptied(ToSet(buffersToWrite) \ ToSet(buffersToWrite'))
      /\ buffersToWrite' = IF Len(buffersToWrite) > TooMany THEN SubSeq(buffersToWrite, 1, 2)
                                                           ELSE buffersToWrite
  BY DEF Write, Keep, front
<1>2. /\ buffersToWrite' \in Seq(BufferId)
      /\ Len(buffersToWrite) \in Nat /\ Len(buffersToWrite') \in Nat
      /\ Len(buffersToWrite') <= Len(buffersToWrite)
      /\ Len(buffersToWrite') = Len(buffersToWrite) \/ Len(buffersToWrite') = 2
      /\ \A k \in 1..Len(buffersToWrite') : buffersToWrite'[k] = buffersToWrite[k]
  <2>1. CASE Len(buffersToWrite) > TooMany
    <3>1. buffersToWrite' = SubSeq(buffersToWrite, 1, 2) /\ 2 <= Len(buffersToWrite)
      BY <1>1, <2>1, SizeAssumption DEF Pointers
    <3>2. QED
      BY <3>1 DEF Pointers
  <2>2. CASE ~(Len(buffersToWrite) > TooMany)
    BY <1>1, <2>2 DEF Pointers
  <2>3. QED
    BY <2>1, <2>2
<1>3. \A k \in 1..Len(buffersToWrite') : k \in 1..Len(buffersToWrite)
  BY <1>2
<1>4. /\ data' \in [BufferId -> Seq(Nat)]
      /\ \A b \in BufferId :
           data'[b] = IF b \in ToSet(buffersToWrite) \ ToSet(buffersToWrite')
                      THEN <<>> ELSE data[b]
  BY <1>1, EmptiedData
<1>5. Owners' = Owners
  BY <1>1 DEF Owners
<1>6. Pointers' /\ Datas'
  BY <1>1, <1>2, <1>4 DEF Pointers, Datas
<1>7. SinglesOwned'
  BY <1>1 DEF SinglesOwned
<1>8. ListsOwned'
  BY <1>1, <1>2, <1>3, <1>5 DEF ListsOwned
<1>9. ListsApart'
  BY <1>1, <1>2, <1>3 DEF ListsApart
<1>10. ThreadHas'
  <2>1. Len(buffersToWrite') >= IF newBuffer2 = Null THEN 2 ELSE 1
    BY <1>1, <1>2 DEF ThreadHas
  <2>2. QED
    BY <1>1, <2>1 DEF ThreadHas
<1>11. OwnEmpty'
  BY <1>1, <1>4 DEF OwnEmpty, Pointers
<1>12. FreeEmpty'
  <2>1. ASSUME NEW c \in BufferId, Free(c)'
        PROVE  data'[c] = <<>>
    <3>1. CASE Free(c)
      BY <1>4, <3>1 DEF FreeEmpty
    <3>2. CASE ~Free(c)
      <4>1. PICK k \in 1..Len(buffersToWrite) : buffersToWrite[k] = c
        BY <1>1, <1>5, <2>1, <3>2 DEF Free
      <4>2. c \in ToSet(buffersToWrite)
        BY <4>1 DEF ToSet, Pointers
      <4>3. c \notin ToSet(buffersToWrite')
        BY <1>2, <2>1 DEF Free, ToSet
      <4>4. QED
        BY <1>4, <4>2, <4>3
    <3>3. QED
      BY <3>1, <3>2
  <2>2. QED
    BY <2>1 DEF FreeEmpty
<1>13. QED
  BY <1>6, <1>7, <1>8, <1>9, <1>10, <1>11, <1>12

(* Buffers that have been written are taken back, and emptied.             *)
LEMMA RecycleInv == IInv /\ Recycle => IInv'
<1> SUFFICES ASSUME IInv, Recycle PROVE IInv'
  OBVIOUS
<1> USE NullAssumption DEF IInv, Owned
<1> DEFINE bufs == IF Len(buffersToWrite) > 2 THEN SubSeq(buffersToWrite, 1, 2)
                                              ELSE buffersToWrite
<1>1. /\ thread = "recycle" /\ thread' = "top"
      /\ UNCHANGED <<currentBuffer, nextBuffer, buffers, appended>>
      /\ newBuffer1' = First(bufs)
      /\ newBuffer2' = IF newBuffer2 = Null THEN Second(bufs) ELSE newBuffer2
      /\ data' = Emptied(ToSet(buffersToWrite)) /\ buffersToWrite' = <<>>
  BY DEF Recycle, front
<1>2. /\ newBuffer1 = Null /\ Len(buffersToWrite) \in Nat /\ Len(buffersToWrite) >= 1
      /\ newBuffer2 = Null => Len(buffersToWrite) >= 2
  BY <1>1 DEF ThreadHas, Pointers
<1>3. /\ bufs \in Seq(BufferId) /\ Len(bufs) \in 1..Len(buffersToWrite)
      /\ newBuffer2 = Null => Len(bufs) = 2
      /\ \A k \in 1..Len(bufs) : bufs[k] = buffersToWrite[k]
  <2>1. CASE Len(buffersToWrite) > 2
    BY <1>2, <2>1 DEF Pointers
  <2>2. CASE ~(Len(buffersToWrite) > 2)
    <3>1. bufs = buffersToWrite
      BY <2>2
    <3> HIDE DEF bufs
    <3>2. /\ buffersToWrite \in Seq(BufferId)
          /\ Len(buffersToWrite) \in 1..Len(buffersToWrite)
          /\ newBuffer2 = Null => Len(buffersToWrite) = 2
      <4>1. buffersToWrite \in Seq(BufferId)
        BY DEF Pointers
      <4>2. Len(buffersToWrite) \in 1..Len(buffersToWrite)
        BY <1>2
      <4>3. newBuffer2 = Null => Len(buffersToWrite) = 2
        <5>1. \A x \in Nat : x >= 2 /\ ~(x > 2) => x = 2
          OBVIOUS
        <5>2. QED
          BY <1>2, <2>2, <5>1
      <4>4. QED
        BY <4>1, <4>2, <4>3
    <3>3. QED
      BY <3>1, <3>2
  <2>3. QED
    BY <2>1, <2>2
<1> HIDE DEF bufs
<1>4. newBuffer1' = buffersToWrite[Len(bufs)]
  BY <1>1, <1>3 DEF First, Last
<1>5. IF newBuffer2 = Null THEN Len(bufs) = 2 /\ newBuffer2' = buffersToWrite[1]
                          ELSE newBuffer2' = newBuffer2
  <2>1. CASE newBuffer2 = Null
    <3>1. Front(bufs) = SubSeq(bufs, 1, 1) /\ Len(bufs) = 2
      <4>1. Len(bufs) = 2
        BY <1>3, <2>1
      <4>2. Len(bufs) - 1 = 1
        BY <4>1
      <4>3. QED
        BY <4>1, <4>2, Zenon DEF Front
    <3>2. Len(Front(bufs)) = 1 /\ Front(bufs)[1] = bufs[1]
      BY <1>3, <3>1
    <3>3. QED
      BY <1>1, <1>3, <2>1, <3>1, <3>2 DEF Second, Last
  <2>2. CASE newBuffer2 # Null
    BY <1>1, <2>2
  <2>3. QED
    BY <2>1, <2>2
<1>6. /\ \A k \in 1..Len(buffersToWrite) :
           buffersToWrite[k] \in BufferId /\ buffersToWrite[k] \notin Owners
      /\ \A k \in 1..Len(buffersToWrite) : buffersToWrite[k] \in ToSet(buffersToWrite)
  BY DEF Pointers, ListsOwned, ToSet
<1>7. /\ newBuffer1' \in BufferId /\ newBuffer2' \in BufferId
      /\ newBuffer1' # newBuffer2'
      /\ newBuffer1' \notin {currentBuffer, nextBuffer}
      /\ newBuffer2' \notin {currentBuffer, nextBuffer}
  <2>1. newBuffer1' \in BufferId /\ newBuffer1' \notin Owners
    BY <1>3, <1>4, <1>6
  <2>2. CASE newBuffer2 = Null
    <3>1. newBuffer2' = buffersToWrite[1] /\ newBuffer1' = buffersToWrite[2] /\ Len(buffersToWrite) >= 2
      BY <1>2, <1>4, <1>5, <2>2
    <3>2. QED
      BY <1>2, <1>6, <2>1, <3>1 DEF ListsApart, Owners
  <2>3. CASE newBuffer2 # Null
    BY <1>5, <2>1, <2>3 DEF Owners, Pointers, SinglesOwned
  <2>4. QED
    BY <2>2, <2>3
<1>8. \A k \in 1..Len(buffers) : buffers[k] \notin {newBuffer1', newBuffer2'}
  BY <1>2, <1>3, <1>4, <1>5 DEF ListsApart, ListsOwned, Owners
<1>9. /\ data' \in [BufferId -> Seq(Nat)]
      /\ \A b \in BufferId : data'[b] = IF b \in ToSet(buffersToWrite) THEN <<>> ELSE data[b]
  BY <1>1, EmptiedData
<1>10. Pointers' /\ Datas'
  BY <1>1, <1>7, <1>9 DEF Pointers, Datas
<1>11. SinglesOwned'
  BY <1>1, <1>7 DEF SinglesOwned, Pointers
<1>12. ListsOwned' /\ ListsApart'
  BY <1>1, <1>8 DEF ListsOwned, ListsApart, Owners
<1>13. ThreadHas'
  BY <1>1, <1>7 DEF ThreadHas
<1>14. OwnEmpty'
  <2>1. data'[newBuffer1'] = <<>>
    BY <1>3, <1>4, <1>6, <1>7, <1>9
  <2>2. data'[newBuffer2'] = <<>>
    BY <1>2, <1>5, <1>6, <1>7, <1>9 DEF OwnEmpty
  <2>3. QED
    BY <2>1, <2>2 DEF OwnEmpty
<1>15. FreeEmpty'
  <2>1. ASSUME NEW c \in BufferId, Free(c)'
        PROVE  data'[c] = <<>>
    <3>1. CASE \E k \in 1..Len(buffersToWrite) : buffersToWrite[k] = c
      BY <1>6, <1>9, <3>1
    <3>2. CASE ~\E k \in 1..Len(buffersToWrite) : buffersToWrite[k] = c
      <4>1. c \notin {currentBuffer, nextBuffer} /\ c # newBuffer2'
        BY <1>1, <2>1 DEF Free, Owners
      <4>2. c \notin Owners
        BY <1>2, <1>5, <4>1 DEF Owners
      <4>3. Free(c)
        BY <1>1, <2>1, <3>2, <4>2 DEF Free
      <4>4. QED
        BY <1>9, <4>3 DEF FreeEmpty
    <3>3. QED
      BY <3>1, <3>2
  <2>2. QED
    BY <2>1 DEF FreeEmpty
<1>16. QED
  BY <1>10, <1>11, <1>12, <1>13, <1>14, <1>15

-----------------------------------------------------------------------------
LEMMA NextInv == IInv /\ [Next]_vars => IInv'
<1> SUFFICES ASSUME IInv, [Next]_vars PROVE IInv'
  OBVIOUS
<1>1. CASE ThreadAborts \/ TestRunning \/ Wait \/ UNCHANGED vars
  <2>1. /\ UNCHANGED <<currentBuffer, nextBuffer, buffers, newBuffer1, newBuffer2,
                       buffersToWrite, data, appended>>
        /\ \/ thread' = thread
           \/ thread = "begin" /\ thread' = "aborted"
           \/ thread = "top" /\ thread' \in {"lock", "done"}
           \/ thread = "lock" /\ thread' = "wait"
    BY <1>1 DEF ThreadAborts, TestRunning, Wait, vars, front, back
  <2> USE DEF IInv, Owned
  <2>2. Pointers' /\ Datas' /\ Owned'
    BY <2>1 DEF Pointers, Datas, SinglesOwned, ListsOwned, ListsApart, Owners
  <2>3. ThreadHas'
    BY <2>1 DEF ThreadHas
  <2>4. OwnEmpty' /\ FreeEmpty'
    BY <2>1 DEF OwnEmpty, FreeEmpty, Free, Owners
  <2>5. QED
    BY <2>2, <2>3, <2>4
<1>2. QED
  BY <1>1, AppendLineInv, ControlInv, ThreadBeginInv, SwapInv, WriteInv, RecycleInv
     DEF Next, LogThread

LEMMA Invariant == Spec => []IInv
<1>1. QED
  BY InitInv, NextInv, PTL DEF Spec

LEMMA ConcatAt ==
  ASSUME NEW S, NEW s \in Seq(S), NEW t \in Seq(S)
  PROVE  /\ s \o t \in Seq(S) /\ Len(s \o t) = Len(s) + Len(t)
         /\ DOMAIN (s \o t) = 1..(Len(s) + Len(t))
         /\ \A k \in 1..Len(s) : (s \o t)[k] = s[k]
         /\ \A k \in (Len(s) + 1)..(Len(s) + Len(t)) : (s \o t)[k] = t[k - Len(s)]
OBVIOUS

(* A buffer has one owner: none that append() can reach is written out,    *)
(* emptied or handed back by the logging thread (AsyncLogging.cc:41-48,    *)
(* 81-89, 108-121).                                                        *)
THEOREM BuffersOwnedOnce == Spec => []OwnedOnce
<1>1. IInv => OwnedOnce
  <2> SUFFICES ASSUME IInv PROVE OwnedOnce
    OBVIOUS
  <2> DEFINE four == <<currentBuffer, nextBuffer, newBuffer1, newBuffer2>>
             ptrs == four \o buffers \o buffersToWrite
             m == Len(buffers)
             n == Len(buffersToWrite)
  <2> USE DEF IInv, Owned
  <2>1. /\ four \in Seq(BufferId \cup {Null}) /\ Len(four) = 4
        /\ four[1] = currentBuffer /\ four[2] = nextBuffer
        /\ four[3] = newBuffer1 /\ four[4] = newBuffer2
    BY DEF Pointers
  <2>2. /\ buffers \in Seq(BufferId \cup {Null}) /\ m \in Nat
        /\ buffersToWrite \in Seq(BufferId \cup {Null}) /\ n \in Nat
    BY DEF Pointers
  <2>3. \A k \in 1..4 : four[k] \in Owners
    BY <2>1 DEF Owners
  <2>4. \A k, l \in 1..4 : four[k] = four[l] /\ four[k] # Null => k = l
    BY <2>1, NullAssumption DEF SinglesOwned, Pointers
  <2> HIDE DEF four
  <2>5. /\ DOMAIN ptrs = 1..(4 + m + n)
        /\ \A k \in 1..4 : ptrs[k] = four[k]
        /\ \A k \in 5..(4 + m) : ptrs[k] = buffers[k - 4]
        /\ \A k \in (5 + m)..(4 + m + n) : ptrs[k] = buffersToWrite[k - 4 - m]
    <3> DEFINE front4 == four \o buffers
    <3>1. /\ front4 \in Seq(BufferId \cup {Null}) /\ Len(front4) = 4 + m
          /\ \A k \in 1..4 : front4[k] = four[k]
          /\ \A k \in 5..(4 + m) : front4[k] = buffers[k - 4]
      <4>0. four \in Seq(BufferId \cup {Null}) /\ buffers \in Seq(BufferId \cup {Null})
        BY <2>1, <2>2
      <4>1. /\ front4 \in Seq(BufferId \cup {Null}) /\ Len(front4) = Len(four) + m
            /\ \A k \in 1..Len(four) : front4[k] = four[k]
            /\ \A k \in (Len(four) + 1)..(Len(four) + m) : front4[k] = buffers[k - Len(four)]
        BY ONLY <4>0, ConcatAt DEF front4, m
      <4> HIDE DEF front4, m
      <4>2. QED
        BY <2>1, <2>2, <4>1
    <3> HIDE DEF front4
    <3>2. /\ DOMAIN (front4 \o buffersToWrite) = 1..(4 + m + n)
          /\ \A k \in 1..(4 + m) : (front4 \o buffersToWrite)[k] = front4[k]
          /\ \A k \in (5 + m)..(4 + m + n) :
               (front4 \o buffersToWrite)[k] = buffersToWrite[k - 4 - m]
      <4>0. front4 \in Seq(BufferId \cup {Null}) /\ buffersToWrite \in Seq(BufferId \cup {Null})
        BY <2>2, <3>1
      <4>1. /\ DOMAIN (front4 \o buffersToWrite) = 1..(Len(front4) + n)
            /\ \A k \in 1..Len(front4) : (front4 \o buffersToWrite)[k] = front4[k]
            /\ \A k \in (Len(front4) + 1)..(Len(front4) + n) :
                 (front4 \o buffersToWrite)[k] = buffersToWrite[k - Len(front4)]
        BY ONLY <4>0, ConcatAt DEF n
      <4>2. /\ Len(front4) = 4 + m /\ Len(front4) + 1 = 5 + m
            /\ \A k \in Nat : k - Len(front4) = k - 4 - m
            /\ (5 + m)..(4 + m + n) \subseteq Nat
        BY <2>2, <3>1
      <4> HIDE DEF m, n
      <4>3. QED
        BY <4>1, <4>2
    <3>3. ptrs = front4 \o buffersToWrite
      BY DEF front4
    <3> HIDE DEF ptrs, m, n
    <3>4. \A k \in 1..(4 + m) : ptrs[k] = front4[k]
      BY <3>2, <3>3
    <3>5. /\ \A k \in 1..4 : k \in 1..(4 + m)
          /\ \A k \in 5..(4 + m) : k \in 1..(4 + m)
      BY <2>2
    <3>6. QED
      BY <3>1, <3>2, <3>3, <3>4, <3>5
  <2> HIDE DEF ptrs
  <2>6. \A k \in 1..(4 + m + n) :
          \/ k \in 1..4 /\ ptrs[k] = four[k]
          \/ k - 4 \in 1..m /\ ptrs[k] = buffers[k - 4]
          \/ k - 4 - m \in 1..n /\ ptrs[k] = buffersToWrite[k - 4 - m]
    BY <2>2, <2>5
  <2>7. ASSUME NEW k \in DOMAIN ptrs, NEW l \in DOMAIN ptrs, ptrs[k] = ptrs[l], ptrs[k] # Null
        PROVE  k = l
    <3>1. k \in 1..(4 + m + n) /\ l \in 1..(4 + m + n)
      BY <2>5
    <3>2. /\ \A i \in 1..m : buffers[i] \notin Owners
          /\ \A i \in 1..n : buffersToWrite[i] \notin Owners
          /\ \A i, j \in 1..m : buffers[i] = buffers[j] => i = j
          /\ \A i, j \in 1..n : buffersToWrite[i] = buffersToWrite[j] => i = j
          /\ \A i \in 1..m, j \in 1..n : buffers[i] # buffersToWrite[j]
      BY DEF ListsOwned, ListsApart
    <3> HIDE DEF m, n, IInv, Owned
    <3>3. CASE k \in 1..4 /\ ptrs[k] = four[k]
      <4>1. ~(l - 4 \in 1..m /\ ptrs[l] = buffers[l - 4])
        BY <2>3, <2>7, <3>2, <3>3
      <4>2. ~(l - 4 - m \in 1..n /\ ptrs[l] = buffersToWrite[l - 4 - m])
        BY <2>3, <2>7, <3>2, <3>3
      <4>3. l \in 1..4 /\ ptrs[l] = four[l]
        BY <2>6, <3>1, <4>1, <4>2
      <4>4. QED
        BY <2>4, <2>7, <3>3, <4>3
    <3>4. CASE k - 4 \in 1..m /\ ptrs[k] = buffers[k - 4]
      <4>1. l - 4 \in 1..m /\ ptrs[l] = buffers[l - 4]
        <5>1. ~(l \in 1..4 /\ ptrs[l] = four[l])
          BY <2>3, <2>7, <3>2, <3>4
        <5>2. ~(l - 4 - m \in 1..n /\ ptrs[l] = buffersToWrite[l - 4 - m])
          BY <2>7, <3>2, <3>4
        <5>3. QED
          BY <2>6, <3>1, <5>1, <5>2
      <4>2. k - 4 = l - 4
        BY <2>7, <3>2, <3>4, <4>1
      <4>3. QED
        BY <2>2, <3>1, <4>2
    <3>5. CASE k - 4 - m \in 1..n /\ ptrs[k] = buffersToWrite[k - 4 - m]
      <4>1. l - 4 - m \in 1..n /\ ptrs[l] = buffersToWrite[l - 4 - m]
        <5>1. ~(l \in 1..4 /\ ptrs[l] = four[l])
          BY <2>3, <2>7, <3>2, <3>5
        <5>2. ~(l - 4 \in 1..m /\ ptrs[l] = buffers[l - 4])
          BY <2>7, <3>2, <3>5
        <5>3. QED
          BY <2>6, <3>1, <5>1, <5>2
      <4>2. k - 4 - m = l - 4 - m
        BY <2>7, <3>2, <3>5, <4>1
      <4>3. QED
        BY <2>2, <3>1, <4>2
    <3>6. QED
      BY <2>6, <3>1, <3>3, <3>4, <3>5
  <2>8. QED
    BY <2>7 DEF OwnedOnce, ptrs, four
<1>2. QED
  BY <1>1, Invariant, PTL

(* threadFunc's assertions hold in every round and every life of the       *)
(* thread, also when it has thrown most buffers away                       *)
(* (AsyncLogging.cc:70-72, 92, 110, 117).                                  *)
THEOREM AssertionsOfThread == Spec => []Assertions
<1>1. IInv => Assertions
  BY DEF IInv, ThreadHas, OwnEmpty, Assertions
<1>2. QED
  BY <1>1, Invariant, PTL

-----------------------------------------------------------------------------
(* Induction, over sets rather than predicates.                            *)
LEMMA LeastNatural ==
  ASSUME NEW T \in SUBSET Nat, T # {}
  PROVE  \E n \in T : \A m \in T : n <= m
<1> DEFINE Less == OpToRel(<, Nat)
<1>1. IsWellFoundedOn(Less, Nat) /\ T \subseteq Nat
  BY NatLessThanWellFounded
<1>2. \A m, n \in Nat : m < n => <<m, n>> \in Less
  BY DEF OpToRel
<1> HIDE DEF Less
<1>3. PICK n \in T : \A m \in T : <<m, n>> \notin Less
  BY <1>1, WFMin
<1>4. ASSUME NEW m \in T PROVE n <= m
  <2>1. m \in Nat /\ n \in Nat /\ ~(m < n)
    BY <1>1, <1>2, <1>3
  <2>2. QED
    BY <2>1
<1>5. QED
  BY <1>4

LEMMA Induction ==
  ASSUME NEW T, 0 \in T, \A n \in Nat : n \in T => n + 1 \in T
  PROVE  \A n \in Nat : n \in T
<1> SUFFICES ASSUME ~\A n \in Nat : n \in T PROVE FALSE
  OBVIOUS
<1> DEFINE U == {n \in Nat : n \notin T}
<1>1. U \in SUBSET Nat /\ U # {}
  OBVIOUS
<1>2. PICK n \in U : \A m \in U : n <= m
  <2> HIDE DEF U
  <2> QED
    BY <1>1, LeastNatural
<1>3. n \in Nat /\ n # 0
  OBVIOUS
<1>4. n - 1 \in Nat /\ n - 1 \notin U
  BY <1>2, <1>3
<1>5. QED
  BY <1>3, <1>4

Flattens(f, ss, n) == \A i \in 1..n : f[i] = IF i = 1 THEN ss[i] ELSE f[i-1] \o ss[i]

LEMMA FlattenExists ==
  ASSUME NEW S, NEW ss \in Seq(Seq(S))
  PROVE  \E f \in [1..Len(ss) -> Seq(S)] : Flattens(f, ss, Len(ss))
<1> DEFINE Good(n) == n <= Len(ss) => \E f \in [1..n -> Seq(S)] : Flattens(f, ss, n)
           T == {n \in Nat : Good(n)}
<1>0. Len(ss) \in Nat
  OBVIOUS
<1>1. 0 \in T
  <2>1. [i \in 1..0 |-> <<>>] \in [1..0 -> Seq(S)] /\ Flattens([i \in 1..0 |-> <<>>], ss, 0)
    BY DEF Flattens
  <2>2. QED
    BY <2>1
<1>2. ASSUME NEW n \in Nat, n \in T PROVE n + 1 \in T
  <2> SUFFICES ASSUME n + 1 <= Len(ss)
               PROVE \E f \in [1..(n+1) -> Seq(S)] : Flattens(f, ss, n+1)
    OBVIOUS
  <2>1. PICK f \in [1..n -> Seq(S)] : Flattens(f, ss, n)
    <3>1. Good(n)
      BY <1>2
    <3>2. n <= Len(ss)
      BY <1>0
    <3>3. QED
      BY <3>1, <3>2
  <2> DEFINE last == IF n = 0 THEN ss[1] ELSE f[n] \o ss[n+1]
             g == [i \in 1..(n+1) |-> IF i = n + 1 THEN last ELSE f[i]]
  <2>2. n + 1 \in 1..Len(ss) /\ ss[n+1] \in Seq(S)
    BY <1>0
  <2>3. last \in Seq(S)
    <3>1. CASE n = 0
      BY <2>2, <3>1
    <3>2. CASE n # 0
      <4>1. f[n] \in Seq(S)
        BY <3>2
      <4>2. QED
        BY <2>2, <3>2, <4>1
    <3>3. QED
      BY <3>1, <3>2
  <2> HIDE DEF last
  <2>4. g \in [1..(n+1) -> Seq(S)]
    BY <2>3
  <2>5. ASSUME NEW i \in 1..(n+1) PROVE g[i] = IF i = 1 THEN ss[i] ELSE g[i-1] \o ss[i]
    <3>1. CASE i = n + 1
      <4>1. g[i] = last
        BY <3>1
      <4>2. i # 1 => g[i-1] = f[n] /\ n # 0
        BY <3>1
      <4>3. QED
        BY <3>1, <4>1, <4>2 DEF last
    <3>2. CASE i # n + 1
      <4>1. i \in 1..n /\ g[i] = f[i] /\ (i # 1 => g[i-1] = f[i-1])
        BY <3>2
      <4>2. QED
        BY <2>1, <4>1 DEF Flattens
    <3>3. QED
      BY <3>1, <3>2
  <2>6. QED
    BY <2>4, <2>5 DEF Flattens
<1> HIDE DEF T
<1>3. Len(ss) \in T
  BY <1>0, <1>1, <1>2, Induction
<1>4. Good(Len(ss))
  BY <1>3 DEF T
<1>5. QED
  BY <1>0, <1>4

LEMMA FlattenUnique ==
  ASSUME NEW ss, NEW n \in Nat, NEW f, NEW g, Flattens(f, ss, n), Flattens(g, ss, n)
  PROVE  \A i \in 1..n : f[i] = g[i]
<1> DEFINE T == {i \in Nat : i \in 1..n => f[i] = g[i]}
<1>1. 0 \in T
  OBVIOUS
<1>2. ASSUME NEW i \in Nat, i \in T PROVE i + 1 \in T
  <2> SUFFICES ASSUME i + 1 \in 1..n PROVE f[i+1] = g[i+1]
    OBVIOUS
  <2>1. CASE i = 0
    BY <2>1 DEF Flattens
  <2>2. CASE i # 0
    <3>1. f[i] = g[i] /\ (i + 1) - 1 = i /\ i + 1 # 1
      BY <1>2, <2>2
    <3>2. QED
      BY <3>1 DEF Flattens
  <2>3. QED
    BY <2>1, <2>2
<1> HIDE DEF T
<1>3. \A i \in Nat : i \in T
  BY <1>1, <1>2, Induction
<1>4. QED
  BY <1>3 DEF T

LEMMA FlattenIs ==
  ASSUME NEW ss, Len(ss) \in Nat \ {0}, NEW f, Flattens(f, ss, Len(ss))
  PROVE  FlattenSeq(ss) = f[Len(ss)]
<1> DEFINE n == Len(ss)
           R(g) == g = [i \in 1..n |-> IF i = 1 THEN ss[i] ELSE g[i-1] \o ss[i]]
           h == CHOOSE g : R(g)
           e == [i \in 1..n |-> f[i]]
<1>1. FlattenSeq(ss) = h[n]
  BY DEF FlattenSeq
<1>2. R(e)
  <2>1. ASSUME NEW i \in 1..n PROVE e[i] = IF i = 1 THEN ss[i] ELSE e[i-1] \o ss[i]
    <3>1. i # 1 => e[i-1] = f[i-1]
      OBVIOUS
    <3>2. QED
      BY <3>1 DEF Flattens
  <2>2. QED
    BY <2>1
<1>3. R(h)
  <2> HIDE DEF R, e
  <2> QED
    BY <1>2
<1> HIDE DEF h
<1>4. Flattens(h, ss, n)
  BY <1>3 DEF Flattens
<1>5. n \in 1..n /\ n \in Nat
  OBVIOUS
<1> HIDE DEF n
<1>6. h[n] = f[n]
  BY <1>4, <1>5, FlattenUnique DEF n
<1>7. QED
  BY <1>1, <1>6 DEF n

LEMMA FlattenAppend ==
  ASSUME NEW S, NEW ss \in Seq(Seq(S)), NEW s \in Seq(S)
  PROVE  /\ FlattenSeq(ss) \in Seq(S)
         /\ FlattenSeq(Append(ss, s)) = FlattenSeq(ss) \o s
<1> DEFINE n == Len(ss)
           tt == Append(ss, s)
<1>1. /\ tt \in Seq(Seq(S)) /\ Len(tt) = n + 1 /\ n \in Nat /\ tt[n+1] = s
      /\ \A i \in 1..n : tt[i] = ss[i]
  BY AppendProperties
<1> HIDE DEF tt
<1>2. PICK f \in [1..Len(tt) -> Seq(S)] : Flattens(f, tt, Len(tt))
  BY <1>1, FlattenExists
<1>3. FlattenSeq(tt) = f[n+1]
  BY <1>1, <1>2, FlattenIs
<1>4. CASE n = 0
  <2>1. ss = <<>> /\ FlattenSeq(ss) = <<>>
    BY <1>4, EmptySeq DEF FlattenSeq
  <2>2. f[n+1] = s
    BY <1>1, <1>2, <1>4 DEF Flattens
  <2>3. <<>> \o s = s
    BY ConcatEmptySeq
  <2>4. FlattenSeq(tt) = FlattenSeq(ss) \o s
    BY <1>3, <2>1, <2>2, <2>3
  <2>5. FlattenSeq(ss) \in Seq(S)
    <3>1. <<>> \in Seq(S)
      BY EmptySeq
    <3>2. QED
      BY <2>1, <3>1, Zenon
  <2>6. QED
    BY <2>4, <2>5 DEF tt
<1>5. CASE n # 0
  <2>1. Flattens(f, ss, Len(ss))
    <3>1. ASSUME NEW i \in 1..n PROVE f[i] = IF i = 1 THEN ss[i] ELSE f[i-1] \o ss[i]
      <4>1. i \in 1..Len(tt) /\ tt[i] = ss[i]
        BY <1>1
      <4>2. QED
        BY <1>2, <4>1 DEF Flattens
    <3>2. QED
      BY <3>1 DEF Flattens
  <2>2. FlattenSeq(ss) = f[n]
    BY <1>1, <1>5, <2>1, FlattenIs
  <2>3. f[n] \in Seq(S)
    BY <1>1, <1>2, <1>5
  <2>4. f[n+1] = f[n] \o s
    <3>1. n + 1 \in 1..Len(tt) /\ n + 1 # 1 /\ (n + 1) - 1 = n
      BY <1>1, <1>5
    <3>2. QED
      BY <1>1, <1>2, <3>1 DEF Flattens
  <2>5. QED
    BY <1>3, <2>2, <2>3, <2>4 DEF tt
<1>6. QED
  BY <1>1, <1>4, <1>5

LEMMA PartsAssociate ==
  ASSUME NEW S
  PROVE  \A s, t, u \in Seq(S) : (s \o t) \o u = s \o (t \o u) /\ t \o u \in Seq(S)
BY ConcatAssociative, ConcatProperties

LEMMA FlattenPrefix ==
  ASSUME NEW S, NEW ss \in Seq(Seq(S)), NEW k \in 1..Len(ss)
  PROVE  \E t \in Seq(S) : /\ FlattenSeq(SubSeq(ss, 1, k)) \in Seq(S)
                           /\ FlattenSeq(ss) = FlattenSeq(SubSeq(ss, 1, k)) \o t
<1> DEFINE n == Len(ss)
           tt == SubSeq(ss, 1, k)
<1>1. n \in Nat /\ n # 0 /\ k \in Nat \ {0} /\ k <= n
  OBVIOUS
<1>2. Len(tt) = k /\ \A i \in 1..k : tt[i] = ss[i]
  BY <1>1, SubSeqProperties
<1> HIDE DEF tt
<1>3. PICK f \in [1..n -> Seq(S)] : Flattens(f, ss, n)
  BY FlattenExists
<1>4. FlattenSeq(ss) = f[n]
  BY <1>1, <1>3, FlattenIs
<1>5. FlattenSeq(tt) = f[k]
  <2>1. Flattens(f, tt, k)
    <3>1. ASSUME NEW i \in 1..k PROVE f[i] = IF i = 1 THEN tt[i] ELSE f[i-1] \o tt[i]
      <4>1. i \in 1..n /\ tt[i] = ss[i]
        BY <1>1, <1>2
      <4>2. QED
        BY <1>3, <4>1 DEF Flattens
    <3>2. QED
      BY <3>1 DEF Flattens
  <2>2. QED
    BY <1>1, <1>2, <2>1, FlattenIs
<1> DEFINE Good(i) == \E t \in Seq(S) : f[k+i] = f[k] \o t
           T == {i \in Nat : k + i <= n => Good(i)}
<1>6. f[k] \in Seq(S)
  BY <1>1, <1>3
<1>7. 0 \in T
  <2>1. <<>> \in Seq(S) /\ f[k+0] = f[k] \o <<>>
    BY <1>1, <1>6, ConcatEmptySeq
  <2>2. Good(0)
    BY <2>1
  <2>3. QED
    BY <2>2
<1>8. ASSUME NEW i \in Nat, i \in T PROVE i + 1 \in T
  <2> HIDE DEF Good
  <2> SUFFICES ASSUME k + (i + 1) <= n PROVE Good(i + 1)
    OBVIOUS
  <2>0. Good(i)
    BY <1>1, <1>8
  <2>1. k + i <= n /\ k + (i + 1) \in 1..n /\ k + (i + 1) # 1 /\ (k + (i + 1)) - 1 = k + i
    BY <1>1
  <2>2. PICK t \in Seq(S) : f[k+i] = f[k] \o t
    BY <2>0 DEF Good
  <2> DEFINE x == ss[k+(i+1)]
  <2>3. x \in Seq(S)
    BY <2>1
  <2>4. f[k+(i+1)] = (f[k] \o t) \o x
    BY <1>3, <2>1, <2>2 DEF Flattens
  <2> HIDE DEF x
  <2>5. t \o x \in Seq(S) /\ (f[k] \o t) \o x = f[k] \o (t \o x)
    <3>1. \A a, b, c \in Seq(S) : (a \o b) \o c = a \o (b \o c) /\ b \o c \in Seq(S)
      BY PartsAssociate, Zenon
    <3>2. QED
      BY <1>6, <2>3, <3>1, Zenon
  <2>6. f[k+(i+1)] = f[k] \o (t \o x)
    BY <2>4, <2>5, Zenon
  <2>7. QED
    BY <2>5, <2>6 DEF Good
<1> HIDE DEF T
<1>9. \A i \in Nat : i \in T
  BY <1>7, <1>8, Induction
<1> HIDE DEF Good
<1>10. n - k \in Nat /\ k + (n - k) = n /\ Good(n - k)
  <2>1. n - k \in Nat /\ k + (n - k) = n /\ k + (n - k) <= n
    BY <1>1
  <2>2. QED
    BY <1>9, <2>1 DEF T
<1> HIDE DEF n
<1>11. PICK t \in Seq(S) : f[n] = f[k] \o t
  BY <1>10 DEF Good
<1>12. QED
  BY <1>4, <1>5, <1>6, <1>11 DEF tt

-----------------------------------------------------------------------------

Increasing(s) == \A i, j \in DOMAIN s : i < j => s[i] < s[j]

LEMMA SeqPart ==
  ASSUME NEW s \in Seq(Nat), NEW t \in Seq(Nat)
  PROVE  /\ s \o t \in Seq(Nat) /\ Len(s) \in Nat /\ Len(t) \in Nat
         /\ DOMAIN s = 1..Len(s) /\ DOMAIN t = 1..Len(t)
         /\ DOMAIN (s \o t) = 1..(Len(s) + Len(t)) /\ Len(s \o t) = Len(s) + Len(t)
         /\ \A i \in 1..Len(s) : (s \o t)[i] = s[i] /\ s[i] \in Nat /\ i \in DOMAIN (s \o t)
         /\ \A i \in 1..Len(t) : /\ (s \o t)[Len(s) + i] = t[i] /\ t[i] \in Nat
                                  /\ Len(s) + i \in DOMAIN (s \o t)
         /\ \A i \in 1..(Len(s) + Len(t)) :
              i \in 1..Len(s) \/ \E j \in 1..Len(t) : i = Len(s) + j
<1>1. /\ s \o t \in Seq(Nat) /\ Len(s \o t) = Len(s) + Len(t)
      /\ \A i \in 1..(Len(s) + Len(t)) : (s \o t)[i] = IF i <= Len(s) THEN s[i] ELSE t[i - Len(s)]
  BY ConcatProperties
<1>2. Len(s) \in Nat /\ Len(t) \in Nat /\ DOMAIN s = 1..Len(s) /\ DOMAIN t = 1..Len(t)
  OBVIOUS
<1>3. DOMAIN (s \o t) = 1..(Len(s) + Len(t))
  BY <1>1
<1> DEFINE u == s \o t
<1> HIDE DEF u
<1>4. \A i \in 1..Len(s) : u[i] = s[i] /\ s[i] \in Nat /\ i \in DOMAIN u
  BY <1>1, <1>2, <1>3 DEF u
<1>5. ASSUME NEW i \in 1..Len(t)
      PROVE  u[Len(s) + i] = t[i] /\ t[i] \in Nat /\ Len(s) + i \in DOMAIN u
  <2>1. /\ Len(s) + i \in 1..(Len(s) + Len(t)) /\ ~(Len(s) + i <= Len(s))
        /\ (Len(s) + i) - Len(s) = i
    BY <1>2
  <2>2. u[Len(s) + i] = t[(Len(s) + i) - Len(s)]
    BY <1>1, <2>1 DEF u
  <2>3. t[i] \in Nat
    BY <1>2
  <2>4. QED
    BY <1>3, <2>1, <2>2, <2>3 DEF u
<1>6. ASSUME NEW i \in 1..(Len(s) + Len(t)), i \notin 1..Len(s)
      PROVE  \E j \in 1..Len(t) : i = Len(s) + j
  <2>1. i - Len(s) \in 1..Len(t) /\ i = Len(s) + (i - Len(s))
    BY <1>2, <1>6
  <2>2. QED
    BY <2>1
<1>7. QED
  BY <1>1, <1>2, <1>3, <1>4, <1>5, <1>6 DEF u

LEMMA ToSetConcat ==
  ASSUME NEW s \in Seq(Nat), NEW t \in Seq(Nat)
  PROVE  ToSet(s \o t) = ToSet(s) \cup ToSet(t)
<1>1. ASSUME NEW x \in ToSet(s) \cup ToSet(t) PROVE x \in ToSet(s \o t)
  <2>1. CASE x \in ToSet(s)
    <3>1. PICK i \in 1..Len(s) : x = s[i]
      BY <2>1, SeqPart DEF ToSet
    <3>2. i \in DOMAIN (s \o t) /\ (s \o t)[i] = x
      BY <3>1, SeqPart
    <3>3. QED
      BY <3>2 DEF ToSet
  <2>2. CASE x \in ToSet(t)
    <3>1. PICK i \in 1..Len(t) : x = t[i]
      BY <2>2, SeqPart DEF ToSet
    <3>2. Len(s) + i \in DOMAIN (s \o t) /\ (s \o t)[Len(s) + i] = x
      BY <3>1, SeqPart
    <3>3. QED
      BY <3>2 DEF ToSet
  <2>3. QED
    BY <1>1, <2>1, <2>2
<1>2. ASSUME NEW x \in ToSet(s \o t) PROVE x \in ToSet(s) \cup ToSet(t)
  <2>1. PICK i \in 1..(Len(s) + Len(t)) : x = (s \o t)[i]
    BY SeqPart DEF ToSet
  <2>2. CASE i \in 1..Len(s)
    BY <2>1, <2>2, SeqPart DEF ToSet
  <2>3. CASE \E j \in 1..Len(t) : i = Len(s) + j
    BY <2>1, <2>3, SeqPart DEF ToSet
  <2>4. QED
    BY <2>2, <2>3, SeqPart
<1>3. QED
  BY <1>1, <1>2

LEMMA IncreasingParts ==
  ASSUME NEW s \in Seq(Nat), NEW t \in Seq(Nat)
  PROVE  Increasing(s \o t) <=> /\ Increasing(s) /\ Increasing(t)
                               /\ \A x \in ToSet(s), y \in ToSet(t) : x < y
<1> DEFINE u == s \o t
<1>0. /\ Len(s) \in Nat /\ Len(t) \in Nat
      /\ DOMAIN s = 1..Len(s) /\ DOMAIN t = 1..Len(t) /\ DOMAIN u = 1..(Len(s) + Len(t))
      /\ \A i \in 1..Len(s) : u[i] = s[i] /\ i \in DOMAIN u
      /\ \A i \in 1..Len(t) : u[Len(s) + i] = t[i] /\ Len(s) + i \in DOMAIN u
      /\ \A i \in 1..(Len(s) + Len(t)) :
           i \in 1..Len(s) \/ \E j \in 1..Len(t) : i = Len(s) + j
  BY SeqPart
<1> HIDE DEF u
<1>1. ASSUME Increasing(u)
      PROVE  /\ Increasing(s) /\ Increasing(t)
             /\ \A x \in ToSet(s), y \in ToSet(t) : x < y
  <2>1. ASSUME NEW i \in DOMAIN s, NEW j \in DOMAIN s, i < j PROVE s[i] < s[j]
    <3>1. /\ i \in DOMAIN u /\ j \in DOMAIN u
          /\ u[i] = s[i] /\ u[j] = s[j]
      BY <1>0
    <3>2. QED
      BY <1>1, <2>1, <3>1 DEF Increasing
  <2>2. ASSUME NEW i \in DOMAIN t, NEW j \in DOMAIN t, i < j PROVE t[i] < t[j]
    <3>0. i \in 1..Len(t) /\ j \in 1..Len(t) /\ Len(s) \in Nat
      BY <1>0
    <3>1. /\ Len(s) + i \in DOMAIN u /\ Len(s) + j \in DOMAIN u
          /\ u[Len(s) + i] = t[i] /\ u[Len(s) + j] = t[j]
      BY <3>0, <1>0
    <3>2. Len(s) + i < Len(s) + j
      BY <2>2, <3>0
    <3>3. QED
      BY <1>1, <3>1, <3>2 DEF Increasing
  <2>3. ASSUME NEW i \in DOMAIN s, NEW j \in DOMAIN t PROVE s[i] < t[j]
    <3>1. /\ i \in DOMAIN u /\ Len(s) + j \in DOMAIN u
          /\ u[i] = s[i] /\ u[Len(s) + j] = t[j]
      BY <1>0
    <3>2. i < Len(s) + j
      BY <1>0
    <3>3. QED
      BY <1>1, <3>1, <3>2 DEF Increasing
  <2>4. QED
    BY <2>1, <2>2, <2>3 DEF Increasing, ToSet
<1>2. ASSUME Increasing(s), Increasing(t), \A x \in ToSet(s), y \in ToSet(t) : x < y,
             NEW i \in DOMAIN u, NEW j \in DOMAIN u, i < j
      PROVE  u[i] < u[j]
  <2>0. i \in 1..(Len(s) + Len(t)) /\ j \in 1..(Len(s) + Len(t)) /\ Len(s) \in Nat
    BY <1>0
  <2>1. CASE i \in 1..Len(s) /\ j \in 1..Len(s)
    <3>1. u[i] = s[i] /\ u[j] = s[j] /\ i \in DOMAIN s /\ j \in DOMAIN s
      BY <2>1, <1>0
    <3>2. QED
      BY <1>2, <3>1 DEF Increasing
  <2>2. CASE i \in 1..Len(s) /\ \E b \in 1..Len(t) : j = Len(s) + b
    <3>1. PICK b \in 1..Len(t) : j = Len(s) + b
      BY <2>2
    <3>2. u[i] = s[i] /\ u[j] = t[b] /\ i \in DOMAIN s /\ b \in DOMAIN t
      BY <2>2, <3>1, <1>0
    <3>3. QED
      BY <1>2, <3>2 DEF ToSet
  <2>3. CASE (\E a \in 1..Len(t) : i = Len(s) + a) /\ (\E b \in 1..Len(t) : j = Len(s) + b)
    <3>1. PICK a \in 1..Len(t), b \in 1..Len(t) : i = Len(s) + a /\ j = Len(s) + b
      BY <2>3
    <3>2. u[i] = t[a] /\ u[j] = t[b] /\ a \in DOMAIN t /\ b \in DOMAIN t
      BY <3>1, <1>0
    <3>3. a < b
      BY <1>2, <2>0, <3>1
    <3>4. QED
      BY <1>2, <3>2, <3>3 DEF Increasing
  <2>4. CASE (\E a \in 1..Len(t) : i = Len(s) + a) /\ j \in 1..Len(s)
    BY <1>2, <2>0, <2>4
  <2>5. QED
    <3>1. i \in 1..Len(s) \/ \E a \in 1..Len(t) : i = Len(s) + a
      BY <2>0, <1>0
    <3>2. j \in 1..Len(s) \/ \E b \in 1..Len(t) : j = Len(s) + b
      BY <2>0, <1>0
    <3>3. QED
      BY <2>1, <2>2, <2>3, <2>4, <3>1, <3>2, Zenon
<1>3. QED
  BY <1>1, <1>2 DEF Increasing, u

(* What stays when t is cut out.                                           *)
LEMMA CutOut ==
  ASSUME NEW f \in Seq(Nat), NEW s \in Seq(Nat), NEW t \in Seq(Nat), NEW u \in Seq(Nat),
         Increasing((f \o (s \o t)) \o u)
  PROVE  /\ Increasing((f \o s) \o u)
         /\ ToSet((f \o s) \o u)
              = ToSet((f \o (s \o t)) \o u) \ (ToSet(s \o t) \ ToSet(s))
<1>1. s \o t \in Seq(Nat) /\ f \o (s \o t) \in Seq(Nat) /\ f \o s \in Seq(Nat)
  BY ConcatProperties
<1>2. /\ ToSet(s \o t) = ToSet(s) \cup ToSet(t)
      /\ ToSet(f \o (s \o t)) = ToSet(f) \cup ToSet(s \o t)
      /\ ToSet((f \o (s \o t)) \o u) = ToSet(f \o (s \o t)) \cup ToSet(u)
      /\ ToSet(f \o s) = ToSet(f) \cup ToSet(s)
      /\ ToSet((f \o s) \o u) = ToSet(f \o s) \cup ToSet(u)
  BY <1>1, ToSetConcat
<1>3. /\ Increasing(f \o (s \o t)) /\ Increasing(u)
      /\ \A x \in ToSet(f \o (s \o t)), y \in ToSet(u) : x < y
  BY <1>1, IncreasingParts
<1>4. /\ Increasing(f) /\ Increasing(s \o t)
      /\ \A x \in ToSet(f), y \in ToSet(s \o t) : x < y
  BY <1>1, <1>3, IncreasingParts
<1>5. Increasing(s) /\ Increasing(t) /\ \A x \in ToSet(s), y \in ToSet(t) : x < y
  BY <1>4, IncreasingParts
<1>6. Increasing(f \o s)
  BY <1>2, <1>4, <1>5, IncreasingParts
<1>7. Increasing((f \o s) \o u)
  BY <1>1, <1>2, <1>3, <1>6, IncreasingParts
<1>8. ToSet(s) \cup ToSet(t) \cup ToSet(f) \cup ToSet(u) \subseteq Nat
  BY DEF ToSet
<1>9. \A y \in ToSet(t) : y \notin ToSet(f) /\ y \notin ToSet(s) /\ y \notin ToSet(u)
  <2>1. \A y \in Nat : ~(y < y)
    OBVIOUS
  <2>2. QED
    BY <1>2, <1>3, <1>4, <1>5, <1>8, <2>1
<1>10. QED
  BY <1>2, <1>7, <1>9

-----------------------------------------------------------------------------
(* What a list of buffers contains. *)

ContentsOf(d, bufs) == FlattenSeq([i \in DOMAIN bufs |-> d[bufs[i]]])

LEMMA ContentsMap ==
  ASSUME NEW d \in [BufferId -> Seq(Nat)], NEW s \in Seq(BufferId)
  PROVE  LET m == [i \in DOMAIN s |-> d[s[i]]]
         IN  /\ m \in Seq(Seq(Nat)) /\ Len(m) = Len(s)
             /\ \A i \in 1..Len(s) : m[i] = d[s[i]]
<1>1. DOMAIN s = 1..Len(s) /\ Len(s) \in Nat /\ \A i \in 1..Len(s) : s[i] \in BufferId
  OBVIOUS
<1>2. QED
  BY <1>1

LEMMA ContentsAppend ==
  ASSUME NEW d \in [BufferId -> Seq(Nat)], NEW bufs \in Seq(BufferId), NEW b \in BufferId
  PROVE  /\ ContentsOf(d, bufs) \in Seq(Nat) /\ d[b] \in Seq(Nat)
         /\ ContentsOf(d, Append(bufs, b)) = ContentsOf(d, bufs) \o d[b]
<1> DEFINE m(s) == [i \in DOMAIN s |-> d[s[i]]]
           both == Append(bufs, b)
<1>1. ASSUME NEW s \in Seq(BufferId)
      PROVE  m(s) \in Seq(Seq(Nat)) /\ Len(m(s)) = Len(s) /\ \A i \in 1..Len(s) : m(s)[i] = d[s[i]]
  BY ContentsMap
<1>2. /\ both \in Seq(BufferId) /\ Len(both) = Len(bufs) + 1 /\ Len(bufs) \in Nat
      /\ both[Len(bufs) + 1] = b /\ \A i \in 1..Len(bufs) : both[i] = bufs[i]
  BY AppendProperties
<1>3. d[b] \in Seq(Nat)
  OBVIOUS
<1> HIDE DEF m, both
<1>4. m(both) = Append(m(bufs), d[b])
  <2>1. /\ Append(m(bufs), d[b]) \in Seq(Seq(Nat))
        /\ Len(Append(m(bufs), d[b])) = Len(bufs) + 1
        /\ Append(m(bufs), d[b])[Len(bufs) + 1] = d[b]
        /\ \A i \in 1..Len(bufs) : Append(m(bufs), d[b])[i] = d[bufs[i]]
    BY <1>1, <1>3, AppendProperties
  <2>2. m(both) \in Seq(Seq(Nat)) /\ Len(m(both)) = Len(bufs) + 1
    BY <1>1, <1>2
  <2>3. ASSUME NEW i \in 1..(Len(bufs) + 1) PROVE m(both)[i] = Append(m(bufs), d[b])[i]
    <3>1. m(both)[i] = d[both[i]]
      BY <1>1, <1>2
    <3>2. i \in 1..Len(bufs) \/ i = Len(bufs) + 1
      BY <1>2
    <3>3. QED
      BY <1>2, <2>1, <3>1, <3>2
  <2>4. QED
    BY <2>1, <2>2, <2>3, SeqEqual
<1>5. /\ FlattenSeq(m(bufs)) \in Seq(Nat)
      /\ FlattenSeq(Append(m(bufs), d[b])) = FlattenSeq(m(bufs)) \o d[b]
  BY <1>1, <1>3, FlattenAppend
<1>6. ContentsOf(d, bufs) = FlattenSeq(m(bufs)) /\ ContentsOf(d, both) = FlattenSeq(m(both))
  BY DEF ContentsOf, m
<1>7. QED
  BY <1>3, <1>4, <1>5, <1>6 DEF both

LEMMA ContentsSame ==
  ASSUME NEW d, NEW e, NEW bufs \in Seq(BufferId), \A i \in 1..Len(bufs) : d[bufs[i]] = e[bufs[i]]
  PROVE  ContentsOf(d, bufs) = ContentsOf(e, bufs)
<1>1. DOMAIN bufs = 1..Len(bufs)
  OBVIOUS
<1>2. [i \in DOMAIN bufs |-> d[bufs[i]]] = [i \in DOMAIN bufs |-> e[bufs[i]]]
  BY <1>1
<1>3. QED
  BY <1>2, Zenon DEF ContentsOf

LEMMA ContentsPrefix ==
  ASSUME NEW d \in [BufferId -> Seq(Nat)], NEW bufs \in Seq(BufferId), NEW k \in 1..Len(bufs)
  PROVE  \E t \in Seq(Nat) : /\ ContentsOf(d, SubSeq(bufs, 1, k)) \in Seq(Nat)
                             /\ ContentsOf(d, bufs) = ContentsOf(d, SubSeq(bufs, 1, k)) \o t
<1> DEFINE m == [i \in DOMAIN bufs |-> d[bufs[i]]]
           some == SubSeq(bufs, 1, k)
           n == [i \in DOMAIN some |-> d[some[i]]]
<1>1. /\ DOMAIN bufs = 1..Len(bufs) /\ Len(bufs) \in Nat /\ k \in Nat \ {0}
      /\ \A i \in 1..Len(bufs) : bufs[i] \in BufferId
  OBVIOUS
<1>2. m \in Seq(Seq(Nat)) /\ Len(m) = Len(bufs) /\ \A i \in 1..Len(bufs) : m[i] = d[bufs[i]]
  BY ContentsMap
<1>3. /\ some \in Seq(BufferId) /\ Len(some) = k /\ DOMAIN some = 1..k
      /\ \A i \in 1..k : some[i] = bufs[i]
  BY <1>1, SubSeqProperties
<1> HIDE DEF m, some
<1>4. n \in Seq(Seq(Nat)) /\ Len(n) = k /\ \A i \in 1..k : n[i] = d[bufs[i]]
  <2>1. n \in Seq(Seq(Nat)) /\ Len(n) = Len(some) /\ \A i \in 1..Len(some) : n[i] = d[some[i]]
    BY <1>3, ContentsMap
  <2> HIDE DEF n
  <2>2. QED
    BY <1>3, <2>1
<1> HIDE DEF n
<1>5. n = SubSeq(m, 1, k)
  <2>1. /\ SubSeq(m, 1, k) \in Seq(Seq(Nat)) /\ Len(SubSeq(m, 1, k)) = k
        /\ \A i \in 1..k : SubSeq(m, 1, k)[i] = d[bufs[i]]
    BY <1>1, <1>2, SubSeqProperties
  <2>2. \A i \in 1..Len(n) : n[i] = SubSeq(m, 1, k)[i]
    BY <1>4, <2>1
  <2>3. QED
    BY <1>4, <2>1, <2>2, SeqEqual
<1>6. \E t \in Seq(Nat) : /\ FlattenSeq(SubSeq(m, 1, k)) \in Seq(Nat)
                          /\ FlattenSeq(m) = FlattenSeq(SubSeq(m, 1, k)) \o t
  BY <1>2, FlattenPrefix
<1>7. ContentsOf(d, bufs) = FlattenSeq(m) /\ ContentsOf(d, some) = FlattenSeq(n)
  BY DEF ContentsOf, m, n
<1>8. QED
  BY <1>5, <1>6, <1>7 DEF some

-----------------------------------------------------------------------------
(* Where the lines are. *)

Unwritten == IF thread = "write" THEN ContentsOf(data, buffersToWrite) ELSE <<>>
InFront == ContentsOf(data, Append(buffers, currentBuffer))
Lines == (file \o Unwritten) \o InFront

(* The lines that are not dropped are in the file or on their way to it,   *)
(* each once and in order; nextBuffer_ has none.                           *)
LinesInv ==
  /\ file \in Seq(Nat) /\ dropped \subseteq 1..appended
  /\ nextBuffer # Null => data[nextBuffer] = <<>>
  /\ ToSet(Lines) = (1..appended) \ dropped
  /\ Increasing(Lines)

LEMMA LinesAssociate ==
  ASSUME NEW s \in Seq(Nat), NEW t \in Seq(Nat), NEW u \in Seq(Nat)
  PROVE  s \o (t \o u) = (s \o t) \o u
<1>1. (s \o t) \o u = s \o (t \o u)
  BY PartsAssociate, SMTT(30)
<1>2. QED
  BY <1>1

LEMMA LinesType ==
  ASSUME IInv, LinesInv
  PROVE  /\ data \in [BufferId -> Seq(Nat)] /\ appended \in Nat /\ file \in Seq(Nat)
         /\ Append(buffers, currentBuffer) \in Seq(BufferId)
         /\ ContentsOf(data, buffers) \in Seq(Nat) /\ InFront \in Seq(Nat)
         /\ ContentsOf(data, buffersToWrite) \in Seq(Nat) /\ Unwritten \in Seq(Nat)
         /\ file \o Unwritten \in Seq(Nat) /\ Lines \in Seq(Nat)
         /\ InFront = ContentsOf(data, buffers) \o data[currentBuffer]
<1>1. /\ data \in [BufferId -> Seq(Nat)] /\ appended \in Nat /\ file \in Seq(Nat)
      /\ buffers \in Seq(BufferId) /\ buffersToWrite \in Seq(BufferId)
      /\ currentBuffer \in BufferId
  BY DEF IInv, LinesInv, Datas, Pointers
<1>2. Append(buffers, currentBuffer) \in Seq(BufferId)
  BY <1>1
<1>3. \A bufs \in Seq(BufferId) : ContentsOf(data, bufs) \in Seq(Nat)
  BY <1>1, ContentsAppend
<1>4. Unwritten \in Seq(Nat) /\ InFront \in Seq(Nat)
  BY <1>1, <1>2, <1>3, EmptySeq DEF Unwritten, InFront
<1>5. file \o Unwritten \in Seq(Nat)
  BY <1>1, <1>4, ConcatProperties
<1>6. Lines \in Seq(Nat)
  BY <1>4, <1>5, ConcatProperties DEF Lines
<1>7. InFront = ContentsOf(data, buffers) \o data[currentBuffer]
  BY <1>1, ContentsAppend DEF InFront
<1>8. QED
  BY <1>1, <1>2, <1>3, <1>4, <1>5, <1>6, <1>7

LEMMA InitLines == Init => LinesInv
<1> SUFFICES ASSUME Init PROVE LinesInv
  OBVIOUS
<1>1. /\ buffers = <<>> /\ file = <<>> /\ thread = "none" /\ dropped = {} /\ appended = 0
      /\ data = [b \in BufferId |-> <<>>]
  BY DEF Init
<1>2. currentBuffer \in BufferId /\ nextBuffer \in BufferId
  BY InitInv DEF IInv, Pointers, Init, ThreadHas
<1>3. data \in [BufferId -> Seq(Nat)] /\ data[currentBuffer] = <<>> /\ data[nextBuffer] = <<>>
  BY <1>1, <1>2
<1>4. buffers \in Seq(BufferId) /\ ContentsOf(data, buffers) = <<>>
  BY <1>1, EmptySeq DEF ContentsOf, FlattenSeq
<1>5. InFront = <<>> \o <<>>
  BY <1>2, <1>3, <1>4, ContentsAppend DEF InFront
<1>6. Lines = <<>>
  BY <1>1, <1>5 DEF Lines, Unwritten
<1>7. ToSet(Lines) = {} /\ Increasing(Lines)
  BY <1>6 DEF ToSet, Increasing
<1>8. QED
  BY <1>1, <1>3, <1>7 DEF LinesInv

(* A line is appended behind all others.                                   *)
LEMMA AppendLineLines ==
  ASSUME IInv, IInv', LinesInv, AppendLine
  PROVE  LinesInv'
<1> DEFINE l == appended + 1
           b == currentBuffer'
<1>1. /\ appended' = l /\ appended \in Nat /\ l \in Nat
      /\ UNCHANGED <<thread, buffersToWrite, file, dropped>>
  BY DEF AppendLine, back, log, IInv, Datas
<1>2. /\ data \in [BufferId -> Seq(Nat)] /\ data' \in [BufferId -> Seq(Nat)]
      /\ buffers \in Seq(BufferId) /\ currentBuffer \in BufferId /\ b \in BufferId
      /\ buffers' \in Seq(BufferId) /\ buffersToWrite \in Seq(BufferId)
  BY DEF IInv, Pointers, Datas
<1>3. /\ \A i \in 1..Len(buffersToWrite) : buffersToWrite[i] # b
      /\ \A i \in 1..Len(buffers') : buffers'[i] # b
      /\ \A i \in 1..Len(buffersToWrite) : buffersToWrite[i] \in BufferId
      /\ \A i \in 1..Len(buffers') : buffers'[i] \in BufferId
  <2>1. \A i \in 1..Len(buffersToWrite) : buffersToWrite'[i] \notin Owners'
    BY <1>1 DEF IInv, Owned, ListsOwned
  <2>2. \A i \in 1..Len(buffers') : buffers'[i] \notin Owners'
    BY DEF IInv, Owned, ListsOwned
  <2>3. b \in Owners'
    BY DEF Owners
  <2>4. \A i \in 1..Len(buffersToWrite) : buffersToWrite[i] \in BufferId
    BY <1>2
  <2>5. \A i \in 1..Len(buffers') : buffers'[i] \in BufferId
    BY <1>2
  <2> HIDE DEF b
  <2>6. QED
    BY <1>1, <2>1, <2>2, <2>3, <2>4, <2>5
<1>4. ASSUME NEW s \in Seq(Nat), s = data[b], Avail(b) > 1, BufferAppend(b)
      PROVE  /\ data'[b] = s \o <<l>>
             /\ \A c \in BufferId : c # b => data'[c] = data[c]
  <2>1. data' = [data EXCEPT ![b] = Append(data[b], appended + 1)]
    BY <1>4 DEF BufferAppend
  <2>2. data'[b] = Append(s, l)
    BY <1>2, <1>4, <2>1
  <2>3. Append(s, l) = s \o <<l>>
    BY <1>1
  <2>4. QED
    BY <1>2, <2>1, <2>2, <2>3
<1>5. /\ InFront' = InFront \o <<l>>
      /\ \A c \in BufferId : c # b => data'[c] = data[c]
      /\ nextBuffer' # Null => data'[nextBuffer'] = <<>>
  <2>1. CASE AppendHere
    <3>1. /\ UNCHANGED <<currentBuffer, nextBuffer, buffers>> /\ BufferAppend(currentBuffer)
          /\ Avail(currentBuffer) > 1
      BY <2>1 DEF AppendHere, front, Fits
    <3>2. /\ data'[currentBuffer] = data[currentBuffer] \o <<l>>
          /\ \A c \in BufferId : c # currentBuffer => data'[c] = data[c]
      BY <1>2, <1>4, <3>1
    <3>3. ContentsOf(data', buffers) = ContentsOf(data, buffers)
      BY <1>2, <1>3, <3>1, <3>2, ContentsSame
    <3>4. InFront' = ContentsOf(data, buffers) \o (data[currentBuffer] \o <<l>>)
      <4>1. InFront' = ContentsOf(data', buffers) \o data'[currentBuffer]
        BY <1>2, <3>1, ContentsAppend DEF InFront
      <4>2. QED
        BY <3>2, <3>3, <4>1
    <3>5. ContentsOf(data, buffers) \o (data[currentBuffer] \o <<l>>) = InFront \o <<l>>
      <4>1. /\ ContentsOf(data, buffers) \in Seq(Nat) /\ data[currentBuffer] \in Seq(Nat)
            /\ <<l>> \in Seq(Nat)
        BY <1>1, <1>2, LinesType
      <4>2. InFront = ContentsOf(data, buffers) \o data[currentBuffer]
        BY LinesType
      <4>3. ContentsOf(data, buffers) \o (data[currentBuffer] \o <<l>>)
              = (ContentsOf(data, buffers) \o data[currentBuffer]) \o <<l>>
        BY <4>1, LinesAssociate
      <4>4. QED
        BY <4>2, <4>3, Zenon
    <3>6. nextBuffer # Null => nextBuffer \in BufferId /\ nextBuffer # currentBuffer
      BY DEF IInv, Pointers, Owned, SinglesOwned
    <3>7. QED
      BY <3>1, <3>2, <3>4, <3>5, <3>6 DEF LinesInv
  <2>2. CASE AppendToNext
    <3>1. /\ buffers' = Append(buffers, currentBuffer) /\ nextBuffer' = Null /\ BufferAppend(b)
          /\ nextBuffer # Null \/ BufferId \ InUse # {}
          /\ b = IF nextBuffer # Null THEN nextBuffer ELSE Fresh(InUse)
      BY <2>2 DEF AppendToNext, NextAfterMove
    <3>2. data[b] = <<>>
      <4>1. CASE nextBuffer # Null
        BY <3>1, <4>1 DEF LinesInv
      <4>2. CASE nextBuffer = Null
        <5>1. b = Fresh(InUse) /\ BufferId \ InUse # {}
          BY <3>1, <4>2
        <5> HIDE DEF b
        <5>2. b \in BufferId /\ b \notin InUse
          BY <5>1, FreshIsFree
        <5>3. Free(b)
          BY <5>2, FreeIsApart DEF IInv
        <5>4. QED
          BY <5>2, <5>3 DEF IInv, FreeEmpty
      <4>3. QED
        BY <4>1, <4>2
    <3>3. Avail(b) > 1
      BY <3>2, SizeAssumption DEF Avail
    <3> HIDE DEF b
    <3>4. <<>> \in Seq(Nat) /\ <<>> \o <<l>> = <<l>>
      OBVIOUS
    <3>5. data'[b] = <<l>> /\ \A c \in BufferId : c # b => data'[c] = data[c]
      BY <1>4, <3>1, <3>2, <3>3, <3>4
    <3>6. ContentsOf(data', buffers') = InFront
      <4>1. ContentsOf(data', buffers') = ContentsOf(data, buffers')
        BY <1>2, <1>3, <3>5, ContentsSame
      <4>2. QED
        BY <3>1, <4>1 DEF InFront
    <3>7. InFront' = ContentsOf(data', buffers') \o data'[b]
      BY <1>2, ContentsAppend DEF InFront, b
    <3>8. QED
      BY <3>1, <3>5, <3>6, <3>7
  <2>3. QED
    BY <2>1, <2>2 DEF AppendLine
<1> HIDE DEF b
<1>6. Unwritten' = Unwritten
  <2>1. ContentsOf(data', buffersToWrite) = ContentsOf(data, buffersToWrite)
    BY <1>2, <1>3, <1>5, ContentsSame
  <2>2. QED
    BY <1>1, <2>1 DEF Unwritten
<1>7. Lines' = Lines \o <<l>> /\ <<l>> \in Seq(Nat)
  <2>1. Lines' = (file \o Unwritten) \o (InFront \o <<l>>)
    BY <1>1, <1>5, <1>6 DEF Lines
  <2>2. file \o Unwritten \in Seq(Nat) /\ InFront \in Seq(Nat) /\ <<l>> \in Seq(Nat)
    BY <1>1, LinesType
  <2>3. (file \o Unwritten) \o (InFront \o <<l>>) = ((file \o Unwritten) \o InFront) \o <<l>>
    BY <2>2, LinesAssociate
  <2>4. QED
    BY <2>1, <2>2, <2>3 DEF Lines
<1>8. ToSet(<<l>>) = {l} /\ Increasing(<<l>>)
  BY <1>1 DEF ToSet, Increasing
<1>9. ToSet(Lines') = ToSet(Lines) \cup {l} /\ Increasing(Lines')
  <2>1. \A x \in ToSet(Lines), y \in {l} : x < y
    BY <1>1 DEF LinesInv
  <2>2. Lines \in Seq(Nat) /\ Increasing(Lines)
    BY LinesType DEF LinesInv
  <2>3. QED
    <3>1. ToSet(Lines \o <<l>>) = ToSet(Lines) \cup ToSet(<<l>>)
      BY <1>7, <2>2, ToSetConcat
    <3>2. Increasing(Lines \o <<l>>)
      <4>1. \A x \in ToSet(Lines), y \in ToSet(<<l>>) : x < y
        BY <1>8, <2>1
      <4>2. <<l>> \in Seq(Nat) /\ Increasing(<<l>>)
        BY <1>7, <1>8
      <4>3. QED
        BY <2>2, <4>1, <4>2, IncreasingParts
    <3>3. QED
      BY <1>7, <1>8, <3>1, <3>2
<1>10. ToSet(Lines') = (1..l) \ dropped /\ dropped \subseteq 1..l
  BY <1>1, <1>9 DEF LinesInv
<1>11. QED
  BY <1>1, <1>5, <1>9, <1>10 DEF LinesInv

(* The swap moves the lines of the front as they are.                      *)
LEMMA SwapLines ==
  ASSUME IInv, LinesInv, Swap
  PROVE  LinesInv'
<1>1. /\ thread \in {"lock", "wait"} /\ thread' = "write"
      /\ buffersToWrite' = Append(buffers, currentBuffer) /\ buffers' = <<>>
      /\ currentBuffer' = newBuffer1
      /\ IF nextBuffer = Null THEN nextBuffer' = newBuffer2 ELSE nextBuffer' = nextBuffer
      /\ UNCHANGED <<data, file, appended, dropped>>
  BY DEF Swap, Refill, log
<1>2. /\ newBuffer1 \in BufferId /\ data[newBuffer1] = <<>>
      /\ newBuffer2 # Null => data[newBuffer2] = <<>>
      /\ data \in [BufferId -> Seq(Nat)]
  BY <1>1 DEF IInv, Pointers, ThreadHas, OwnEmpty, Datas
<1>3. file \in Seq(Nat) /\ InFront \in Seq(Nat)
  BY LinesType
<1>4. Unwritten = <<>> /\ Unwritten' = InFront
  BY <1>1 DEF Unwritten, InFront
<1>5. InFront' = <<>>
  <2>1. <<>> \in Seq(BufferId) /\ ContentsOf(data, <<>>) = <<>>
    BY EmptySeq DEF ContentsOf, FlattenSeq
  <2>2. ContentsOf(data, Append(<<>>, newBuffer1)) = <<>> \o <<>>
    BY <1>2, <2>1, ContentsAppend
  <2>3. QED
    BY <1>1, <2>2 DEF InFront
<1>6. Lines' = Lines
  <2>1. Lines = (file \o <<>>) \o InFront /\ Lines' = (file \o InFront) \o <<>>
    BY <1>1, <1>4, <1>5 DEF Lines
  <2>2. file \o <<>> = file /\ (file \o InFront) \o <<>> = file \o InFront
    BY <1>3, ConcatEmptySeq, ConcatProperties
  <2>3. QED
    BY <2>1, <2>2
<1>7. QED
  BY <1>1, <1>2, <1>6 DEF LinesInv

(* The logging thread changes only what it is to write, so the front keeps *)
(* its lines.                                                              *)
LEMMA FrontKept ==
  ASSUME IInv, LinesInv, UNCHANGED <<currentBuffer, nextBuffer, buffers>>,
         \A b \in BufferId : b \notin ToSet(buffersToWrite) => data'[b] = data[b]
  PROVE  InFront' = InFront /\ (nextBuffer' # Null => data'[nextBuffer'] = <<>>)
<1>1. /\ Append(buffers, currentBuffer) \in Seq(BufferId) /\ buffers \in Seq(BufferId)
  BY LinesType DEF IInv, Pointers
<1>2. /\ currentBuffer \in BufferId /\ currentBuffer \notin ToSet(buffersToWrite)
      /\ nextBuffer # Null => nextBuffer \in BufferId /\ nextBuffer \notin ToSet(buffersToWrite)
      /\ \A i \in 1..Len(buffers) : buffers[i] \in BufferId /\ buffers[i] \notin ToSet(buffersToWrite)
  BY DEF IInv, Pointers, Owned, ListsOwned, ListsApart, Owners, ToSet
<1>3. ASSUME NEW i \in 1..Len(Append(buffers, currentBuffer))
      PROVE  data'[Append(buffers, currentBuffer)[i]] = data[Append(buffers, currentBuffer)[i]]
  <2>1. Append(buffers, currentBuffer)[i] = currentBuffer
          \/ \E k \in 1..Len(buffers) : Append(buffers, currentBuffer)[i] = buffers[k]
    BY <1>1
  <2>2. QED
    BY <1>2, <2>1
<1>4. ContentsOf(data', Append(buffers, currentBuffer)) = InFront
  BY <1>1, <1>3, ContentsSame DEF InFront
<1>5. QED
  BY <1>2, <1>4 DEF InFront, LinesInv

(* Of the lines to be written, a prefix goes to the file and the others    *)
(* are dropped.                                                            *)
LEMMA WriteLines ==
  ASSUME IInv, LinesInv, Write
  PROVE  LinesInv'
<1> DEFINE kept == IF Len(buffersToWrite) > TooMany THEN SubSeq(buffersToWrite, 1, Keep)
                                                    ELSE buffersToWrite
           W == ContentsOf(data, buffersToWrite)
           K == ContentsOf(data, kept)
<1>1. /\ thread = "write" /\ thread' = "recycle"
      /\ UNCHANGED <<currentBuffer, nextBuffer, buffers, appended>>
      /\ file' = file \o K
      /\ dropped' = dropped \cup (ToSet(W) \ ToSet(K))
      /\ data' = Emptied(ToSet(buffersToWrite) \ ToSet(kept))
  BY DEF Write, LogFileAppend, Contents, ContentsOf, front
<1>2. /\ data \in [BufferId -> Seq(Nat)] /\ buffersToWrite \in Seq(BufferId)
      /\ Append(buffers, currentBuffer) \in Seq(BufferId)
      /\ file \in Seq(Nat) /\ InFront \in Seq(Nat) /\ W \in Seq(Nat)
  BY LinesType DEF IInv, Pointers
<1>3. \E t \in Seq(Nat) : K \in Seq(Nat) /\ W = K \o t
  <2>1. CASE Len(buffersToWrite) > TooMany
    <3>1. kept = SubSeq(buffersToWrite, 1, 2)
      BY <2>1 DEF Keep
    <3>2. 2 \in 1..Len(buffersToWrite)
      BY <1>2, <2>1, SizeAssumption
    <3> HIDE DEF kept
    <3>3. QED
      BY <1>2, <3>1, <3>2, ContentsPrefix
  <2>2. CASE ~(Len(buffersToWrite) > TooMany)
    <3>1. K = W
      BY <2>2
    <3> HIDE DEF K, W
    <3>2. <<>> \in Seq(Nat) /\ W = W \o <<>>
      BY <1>2, ConcatEmptySeq, EmptySeq
    <3>3. QED
      BY <1>2, <3>1, <3>2
  <2>3. QED
    BY <2>1, <2>2
<1> HIDE DEF kept, W, K
<1>4. PICK t \in Seq(Nat) : K \in Seq(Nat) /\ W = K \o t
  BY <1>3
<1>5. \A b \in BufferId : b \notin ToSet(buffersToWrite) => data'[b] = data[b]
  BY <1>1, EmptiedData DEF IInv
<1>6. InFront' = InFront /\ (nextBuffer' # Null => data'[nextBuffer'] = <<>>)
  BY <1>1, <1>5, FrontKept
<1>7. Lines = (file \o (K \o t)) \o InFront
  BY <1>1, <1>4 DEF Lines, Unwritten, W
<1>8. Lines' = (file \o K) \o InFront
  <2>1. Lines' = ((file \o K) \o <<>>) \o InFront
    BY <1>1, <1>6 DEF Lines, Unwritten
  <2>2. (file \o K) \o <<>> = file \o K /\ file \o K \in Seq(Nat)
    BY <1>2, <1>4, ConcatEmptySeq, ConcatProperties
  <2>3. QED
    BY <2>1, <2>2
<1>9. Increasing(Lines') /\ ToSet(Lines') = ToSet(Lines) \ (ToSet(W) \ ToSet(K))
  <2>1. Increasing((file \o (K \o t)) \o InFront)
    BY <1>7 DEF LinesInv
  <2>2. /\ Increasing((file \o K) \o InFront)
        /\ ToSet((file \o K) \o InFront)
              = ToSet((file \o (K \o t)) \o InFront) \ (ToSet(K \o t) \ ToSet(K))
    BY <1>2, <1>4, <2>1, CutOut
  <2>3. QED
    BY <1>4, <1>7, <1>8, <2>2
<1>10. ToSet(W) \subseteq ToSet(Lines)
  <2>1. file \o W \in Seq(Nat)
    BY <1>2, ConcatProperties
  <2>2. /\ ToSet(file \o W) = ToSet(file) \cup ToSet(W)
        /\ ToSet((file \o W) \o InFront) = ToSet(file \o W) \cup ToSet(InFront)
    BY <1>2, <2>1, ToSetConcat
  <2>3. QED
    BY <1>4, <1>7, <2>2
<1>11. ToSet(Lines') = (1..appended) \ dropped' /\ dropped' \subseteq 1..appended
  BY <1>1, <1>9, <1>10 DEF LinesInv
<1>12. file' \in Seq(Nat)
  BY <1>1, <1>2, <1>4, ConcatProperties
<1>13. QED
  BY <1>1, <1>6, <1>9, <1>11, <1>12 DEF LinesInv

(* What is emptied has been written.                                       *)
LEMMA RecycleLines ==
  ASSUME IInv, LinesInv, Recycle
  PROVE  LinesInv'
<1>1. /\ thread = "recycle" /\ thread' = "top" /\ data' = Emptied(ToSet(buffersToWrite))
      /\ UNCHANGED <<currentBuffer, nextBuffer, buffers, file, appended, dropped>>
  BY DEF Recycle, front
<1>2. \A b \in BufferId : b \notin ToSet(buffersToWrite) => data'[b] = data[b]
  BY <1>1, EmptiedData DEF IInv
<1>3. InFront' = InFront /\ (nextBuffer' # Null => data'[nextBuffer'] = <<>>)
  BY <1>1, <1>2, FrontKept
<1>4. Lines' = Lines
  BY <1>1, <1>3 DEF Lines, Unwritten
<1>5. QED
  BY <1>1, <1>3, <1>4 DEF LinesInv

LEMMA OtherLines ==
  ASSUME IInv, LinesInv,
         \/ Start \/ Stop \/ Join
         \/ ThreadAborts \/ ThreadBegin \/ TestRunning \/ Wait \/ UNCHANGED vars
  PROVE  LinesInv'
<1>1. /\ UNCHANGED <<currentBuffer, nextBuffer, buffers, buffersToWrite, data, file,
                     appended, dropped>>
      /\ thread' = "write" <=> thread = "write"
  BY DEF Start, Stop, Join, ThreadAborts, ThreadBegin, TestRunning, Wait, vars, front,
         back, log
<1>2. QED
  BY <1>1 DEF LinesInv, Lines, Unwritten, InFront

LEMMA NextLines ==
  ASSUME IInv, IInv', LinesInv, [Next]_vars
  PROVE  LinesInv'
BY AppendLineLines, SwapLines, WriteLines, RecycleLines, OtherLines DEF Next, LogThread

(* The lines in the file, in the buffers being written and in the front    *)
(* are all those appended, each once and in order, but for those thrown    *)
(* away when there were too many buffers (append and threadFunc).          *)
THEOREM NoLineLost == Spec => []NothingLost
<1>1. Init => LinesInv
  BY InitLines
<1>2. IInv /\ IInv' /\ LinesInv /\ [Next]_vars => LinesInv'
  BY NextLines
<1>3. LinesInv => NothingLost
  <2>1. NothingLost <=> ToSet(Lines) = (1..appended) \ dropped /\ Increasing(Lines)
    BY DEF NothingLost, Lines, Unwritten, InFront, Contents, ContentsOf, Increasing
  <2>2. QED
    BY <2>1 DEF LinesInv
<1>4. QED
  BY <1>1, <1>2, <1>3, Invariant, PTL DEF Spec
=============================================================================
