---------------------------- MODULE AsyncLogging ----------------------------
(***************************************************************************)
(* AsyncLogging (AsyncLogging.cc): any number of threads append lines to   *)
(* the front buffers under mutex_; one logging thread swaps these with its *)
(* own empty buffers and writes the full ones to the file without holding  *)
(* the mutex.  A buffer is an object with an identity, since the two sides *)
(* hand them back and forth by pointer.                                    *)
(*                                                                         *)
(* append() holds the mutex throughout, so which thread calls it does not  *)
(* matter: lines are numbered in the order in which they get the mutex.    *)
(* A line takes one unit of room.  The logging thread's wait is timed and  *)
(* has no predicate: it may end at any time.                               *)
(***************************************************************************)
EXTENDS Naturals, Sequences, SequencesExt

CONSTANTS BufferId,   \* buffers there is memory for
          Null,       \* an empty shared_ptr
          Room,       \* size of a buffer: kLargeBuffer
          TooMany,    \* 25 in threadFunc
          FlushEvery, \* flushEveryN_ of LogFile
          MaxLine,    \* bound: lines appended
          MaxStart    \* bound: calls of start()

ASSUME NullAssumption == Null \notin BufferId
ASSUME MemoryAssumption == \E b, c \in BufferId : b # c   \* for the constructor
ASSUME SizeAssumption == Room \in Nat /\ Room > 1 /\ TooMany \in Nat /\ TooMany > 1
ASSUME FlushAssumption == FlushEvery \in Nat \ {0}
ASSUME BoundAssumption == MaxLine \in Nat /\ MaxStart \in Nat

Line == 1..MaxLine

(* Mutant: one buffer too few is kept. *)
KeepOne == 1

(* The buffers kept when there are too many. *)
Keep == 2

VARIABLES
  running,         \* running_
  control,         \* the thread that calls start() and stop()
  starts,          \* how often it has called start()
  thread,          \* where the logging thread is; "aborted": the program has ended
  currentBuffer, nextBuffer, buffers,        \* the front, guarded by mutex_
  newBuffer1, newBuffer2, buffersToWrite,    \* the logging thread's own
  data,            \* contents of each buffer; empty when it is not in use
  file,            \* lines given to the LogFile, of this life and of earlier ones
  count,           \* its count_
  onDisk,          \* how many of these lines have left stdio's buffer
  appended,        \* history: lines appended
  dropped          \* history: lines thrown away by the logging thread

front == <<currentBuffer, nextBuffer, buffers>>
back == <<newBuffer1, newBuffer2, buffersToWrite>>
log == <<file, count, onDisk>>
vars == <<running, control, starts, thread, front, back, data, log, appended,
          dropped>>

Held(ptrs) == {ptrs[i] : i \in DOMAIN ptrs} \ {Null}
InUse == Held(<<currentBuffer, nextBuffer, newBuffer1, newBuffer2>>)
           \cup Held(buffers) \cup Held(buffersToWrite)

(* What new Buffer returns: it does not matter which of the free ones. *)
Fresh(used) == CHOOSE b \in BufferId \ used : TRUE

(* What data becomes when bufs are reset() or freed. *)
Emptied(bufs) == [b \in BufferId |-> IF b \in bufs THEN <<>> ELSE data[b]]

Contents(bufs) == FlattenSeq([i \in DOMAIN bufs |-> data[bufs[i]]])

-----------------------------------------------------------------------------
(* The constructor. *)
Init ==
  /\ running = FALSE /\ control = "idle" /\ starts = 0 /\ thread = "none"
  /\ currentBuffer = Fresh({}) /\ nextBuffer = Fresh({currentBuffer})
  /\ buffers = <<>>
  /\ newBuffer1 = Null /\ newBuffer2 = Null /\ buffersToWrite = <<>>
  /\ data = [b \in BufferId |-> <<>>]
  /\ file = <<>> /\ count = 0 /\ onDisk = 0
  /\ appended = 0 /\ dropped = {}

Avail(b) == Room - Len(data[b])

(* FixedBuffer::append ignores what does not fit. *)
BufferAppend(b) ==
  data' = IF Avail(b) > 1 THEN [data EXCEPT ![b] = Append(@, appended + 1)] ELSE data

(* Mutant: a buffer is used to its last byte. *)
FitsExactly(b) == Avail(b) >= 1

(* The test of AsyncLogging::append, as strict as that of the buffer. *)
Fits(b) == Avail(b) > 1

AppendHere ==
  /\ Fits(currentBuffer)
  /\ BufferAppend(currentBuffer)
  /\ UNCHANGED front

(* Mutant: currentBuffer_ = nextBuffer_ without the move. *)
NextKept == nextBuffer

(* What is left in nextBuffer_ when currentBuffer_ has been taken from it. *)
NextAfterMove == Null

(* currentBuffer_ is full: it is replaced by nextBuffer_ or a new Buffer.  *)
AppendToNext ==
  /\ ~Fits(currentBuffer)
  /\ nextBuffer # Null \/ BufferId \ InUse # {}
  /\ buffers' = Append(buffers, currentBuffer)
  /\ currentBuffer' = IF nextBuffer # Null THEN nextBuffer ELSE Fresh(InUse)
  /\ nextBuffer' = NextAfterMove
  /\ BufferAppend(currentBuffer')

AppendLine ==
  /\ thread # "aborted"
  /\ appended < MaxLine
  /\ appended' = appended + 1
  /\ AppendHere \/ AppendToNext
  /\ UNCHANGED <<running, control, starts, thread, back, log, dropped>>

-----------------------------------------------------------------------------
(* start() and stop(), called by one thread, in turn. *)

Start ==
  /\ control = "idle" /\ thread = "none" /\ starts < MaxStart
  /\ starts' = starts + 1
  /\ running' = TRUE
  /\ thread' = "begin"
  /\ UNCHANGED <<control, front, back, data, log, appended, dropped>>

Stop ==
  /\ control = "idle" /\ thread # "none"
  /\ running' = FALSE
  /\ control' = "join"
  /\ UNCHANGED <<starts, thread, front, back, data, log, appended, dropped>>

Join ==
  /\ control = "join" /\ thread = "done"
  /\ control' = "idle" /\ thread' = "none"
  /\ newBuffer1' = Null /\ newBuffer2' = Null
  /\ UNCHANGED <<running, starts, front, buffersToWrite, data, log, appended,
                 dropped>>

-----------------------------------------------------------------------------
(* The logging thread: threadFunc. *)

(* assert(running_ == true), which no build of the repository leaves out:  *)
(* if stop() has come first, the program ends here.                        *)
ThreadAborts ==
  /\ thread = "begin" /\ ~running
  /\ thread' = "aborted"
  /\ UNCHANGED <<running, control, starts, front, back, data, log, appended,
                 dropped>>

ThreadBegin ==
  /\ thread = "begin" /\ running
  /\ BufferId \ InUse # {} /\ newBuffer1' = Fresh(InUse)
  /\ BufferId \ (InUse \cup {newBuffer1'}) # {}
  /\ newBuffer2' = Fresh(InUse \cup {newBuffer1'})
  /\ count' = 0
  /\ thread' = "top"
  /\ UNCHANGED <<running, control, starts, front, buffersToWrite, data, file,
                 onDisk, appended, dropped>>

(* Mutant: while(true). *)
GoesOnForever == TRUE

(* The condition of threadFunc's loop. *)
GoesOn == running

(* At its end the LogFile is flushed, and closed. *)
TestRunning ==
  /\ thread = "top"
  /\ thread' = IF GoesOn THEN "lock" ELSE "done"
  /\ onDisk' = IF GoesOn THEN onDisk ELSE Len(file)
  /\ UNCHANGED <<running, control, starts, front, back, data, file, count,
                 appended, dropped>>

Wait ==
  /\ thread = "lock" /\ buffers = <<>>
  /\ thread' = "wait"
  /\ UNCHANGED <<running, control, starts, front, back, data, log, appended,
                 dropped>>

Refill ==
  IF nextBuffer = Null
  THEN nextBuffer' = newBuffer2 /\ newBuffer2' = Null
  ELSE UNCHANGED <<nextBuffer, newBuffer2>>

(* Mutant: wait() instead of wait_for(). *)
WaitEndsNotified == buffers # <<>>

(* When wait_for() may return: at any moment. *)
WaitEnds == TRUE

(* The critical section of threadFunc, after the wait if there was one. *)
Swap ==
  /\ (thread = "wait" /\ WaitEnds) \/ (thread = "lock" /\ buffers # <<>>)
  /\ buffersToWrite' = Append(buffers, currentBuffer)
  /\ buffers' = <<>>
  /\ currentBuffer' = newBuffer1 /\ newBuffer1' = Null
  /\ Refill
  /\ thread' = "write"
  /\ UNCHANGED <<running, control, starts, data, log, appended, dropped>>

(* LogFile::append for each of bufs.  What it does not flush is written    *)
(* when stdio's buffer is full, in part or as a whole.                     *)
LogFileAppend(bufs) ==
  LET appends == count + Len(bufs)
      flushed == SubSeq(bufs, 1, Len(bufs) - (appends % FlushEvery))
  IN  /\ file' = file \o Contents(bufs)
      /\ count' = appends % FlushEvery
      /\ onDisk' \in (IF appends < FlushEvery THEN onDisk ELSE Len(file \o Contents(flushed)))
                       ..Len(file')

Write ==
  /\ thread = "write"
  /\ LET kept == IF Len(buffersToWrite) > TooMany THEN SubSeq(buffersToWrite, 1, Keep)
                                                  ELSE buffersToWrite
     IN  /\ buffersToWrite' = kept
         /\ LogFileAppend(kept)
         /\ dropped' = dropped \cup
              (ToSet(Contents(buffersToWrite)) \ ToSet(Contents(kept)))
         /\ data' = Emptied(ToSet(buffersToWrite) \ ToSet(kept))
  /\ thread' = "recycle"
  /\ UNCHANGED <<running, control, starts, front, newBuffer1, newBuffer2,
                 appended>>

(* newBuffer1 = buffersToWrite.back(). *)
First(bufs) == Last(bufs)

(* newBuffer2 = buffersToWrite.back() after newBuffer1 was popped. *)
Second(bufs) == Last(Front(bufs))

(* LogFile::flush *)
Flush == onDisk' = Len(file)

(* At most two of the written buffers go back into use, emptied. *)
Recycle ==
  /\ thread = "recycle"
  /\ LET bufs == IF Len(buffersToWrite) > 2 THEN SubSeq(buffersToWrite, 1, 2)
                                           ELSE buffersToWrite IN
       /\ newBuffer1' = First(bufs)
       /\ newBuffer2' = IF newBuffer2 = Null THEN Second(bufs) ELSE newBuffer2
  /\ data' = Emptied(ToSet(buffersToWrite))
  /\ buffersToWrite' = <<>>
  /\ Flush
  /\ thread' = "top"
  /\ UNCHANGED <<running, control, starts, front, file, count, appended, dropped>>

-----------------------------------------------------------------------------
LogThread ==
  ThreadAborts \/ ThreadBegin \/ TestRunning \/ Wait \/ Swap \/ Write \/ Recycle

Next == AppendLine \/ Start \/ Stop \/ Join \/ LogThread

Spec == Init /\ [][Next]_vars

(* The logging thread runs, its timed wait ends, and stop() returns when   *)
(* it has joined.                                                          *)
FairSpec == Spec /\ WF_vars(LogThread) /\ WF_vars(Join)

-----------------------------------------------------------------------------
TypeOK ==
  /\ running \in BOOLEAN /\ control \in {"idle", "join"} /\ starts \in 0..MaxStart
  /\ thread \in {"none", "begin", "top", "lock", "wait", "write", "recycle", "done",
                "aborted"}
  /\ currentBuffer \in BufferId /\ nextBuffer \in BufferId \cup {Null}
  /\ buffers \in Seq(BufferId) /\ buffersToWrite \in Seq(BufferId)
  /\ {newBuffer1, newBuffer2} \subseteq BufferId \cup {Null}
  /\ data \in [BufferId -> Seq(Line)]
  /\ file \in Seq(Line) /\ count \in 0..(FlushEvery - 1) /\ onDisk \in 0..Len(file)
  /\ appended \in 0..MaxLine /\ dropped \subseteq Line

(* A buffer has one owner: no two of the front's and the logging thread's  *)
(* pointers are equal, so the thread never writes out, empties or hands    *)
(* back a buffer that append() can still reach (AsyncLogging.cc:41-48,     *)
(* 81-89, 108-121).                                                        *)
OwnedOnce ==
  LET ptrs == <<currentBuffer, nextBuffer, newBuffer1, newBuffer2>>
                \o buffers \o buffersToWrite
  IN  \A i, j \in DOMAIN ptrs : ptrs[i] = ptrs[j] /\ ptrs[i] # Null => i = j

(* The assertions of threadFunc's loop (AsyncLogging.cc:70-72, 92, 110,    *)
(* 117; BeginsRunning is about that of line 60): it comes to the critical  *)
(* section with two empty buffers of its own and nothing left to write,    *)
(* and after it there are always enough written buffers to take two from   *)
(* again.                                                                  *)
Assertions ==
  /\ thread \in {"lock", "wait"} =>
       /\ newBuffer1 # Null /\ newBuffer2 # Null /\ buffersToWrite = <<>>
       /\ data[newBuffer1] = <<>> /\ data[newBuffer2] = <<>>
  /\ thread \in {"write", "recycle"} =>
       Len(buffersToWrite) >= IF newBuffer2 = Null THEN 2 ELSE 1

(* The lines in the file, in the buffers being written and in the front    *)
(* are all those appended, each once and in order, but for those thrown    *)
(* away because there were too many (append and threadFunc).               *)
NothingLost ==
  LET unwritten == IF thread = "write" THEN Contents(buffersToWrite) ELSE <<>>
      lines == file \o unwritten \o Contents(Append(buffers, currentBuffer))
  IN  /\ ToSet(lines) = (1..appended) \ dropped
      /\ \A i, j \in DOMAIN lines : i < j => lines[i] < lines[j]

(* While the thread runs, every line leaves stdio's buffer for the disk or *)
(* is thrown away, even if no further line fills a buffer                  *)
(* (AsyncLogging.cc:76-90, 124, LogFile.cc:37-51).                         *)
LinesGetOut ==
  \A l \in Line :
    (l <= appended /\ running)
      ~> (l \in ToSet(SubSeq(file, 1, onDisk)) \/ l \in dropped \/ ~running)

(* stop() returns (AsyncLogging.cc:27-33), unless it was so early that the *)
(* new thread's assertion ends the program.                                *)
StopReturns == control = "join" ~> (control = "idle" \/ thread = "aborted")

(* The assertion of line 60: a logging thread that begins finds running_   *)
(* set, because start() sets it first (AsyncLogging.cc:53-60).             *)
BeginsRunning == thread # "aborted"
=============================================================================
