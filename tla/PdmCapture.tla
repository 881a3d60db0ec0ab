------------------------------ MODULE PdmCapture ------------------------------
(***************************************************************************)
(* The PDM library: blocks of samples go from a memory slab through the    *)
(* driver of the microphone, the receiving thread, a message queue and the *)
(* block being read, back to the slab.                                     *)
(*                                                                         *)
(* read is called by the sketch, by its callback inside the receiving      *)
(* thread, or by both, with no lock.  The receiving thread (priority 7)    *)
(* comes before the sketch (priority 14): the sketch moves only while the  *)
(* thread has no block to wait for, is suspended or blocks in user code.   *)
(***************************************************************************)
EXTENDS Naturals, Sequences, FiniteSets

CONSTANTS
  Block,        \* the blocks of pdm_slab, SLAB_BLOCK_NUM of them
  NoBlock,      \* nullptr
  BlockSize,    \* SLAB_BLOCK_SIZE
  Request,      \* sizes that read is called with
  Reader,       \* who calls read: a subset of {"sketch", "callback"}
  EndsInside,   \* whether the callback may call end
  MaxCaptured,  \* bound on the blocks the microphone fills
  MaxBegins     \* bound on the calls of begin that do something

ASSUME PdmAssumption ==
  /\ IsFiniteSet(Block)
  /\ NoBlock \notin Block
  /\ BlockSize \in Nat \ {0}
  /\ Request \subseteq Nat \ {0}
  /\ Reader \subseteq {"sketch", "callback"}
  /\ EndsInside \in BOOLEAN
  /\ MaxCaptured \in Nat /\ MaxBegins \in Nat

VARIABLES
  free,       \* blocks of the slab that nobody has
  filled,     \* blocks the driver has filled and not handed out
  queue,      \* pdm_rx_msgq
  buffer,     \* buffer of pdm_thread
  data,       \* active_block.data
  offset,     \* active_block.offset
  mic,        \* the microphone is started
  power,      \* reference count of mic_regulator
  active,     \* active
  task,       \* the receiving thread: "new", "ready" or "suspended"
  onReceive,  \* a callback is registered
  thread,     \* where the receiving thread is
  last_avail, \* last_avail of pdm_thread
  sketch,     \* where the sketch is
  reading,    \* reading[a]: where reader a is in read
  want,       \* want[a]: size - bytes_read
  new_block,  \* new_block[a] of read
  number,     \* number[b]: which capture the block holds (history)
  captured,   \* captures so far (history)
  consumed,   \* blocks read to their end (history)
  delivered,  \* bytes that read has copied (history)
  overlap,    \* two readers were inside read at once (history)
  failed,     \* begins that failed after the regulator was enabled (history)
  ended,      \* the callback has called end (history)
  took        \* readers that took data since last_avail was set (history)

pool == <<free, filled, queue, buffer>>
current == <<data, offset>>
device == <<mic, power, active, task>>
reader == <<reading, want, new_block>>
log == <<number, captured, consumed, delivered, overlap, failed, ended, took>>
vars == <<pool, current, device, onReceive, thread, last_avail, sketch, reader, log>>

Least(a, b) == IF a <= b THEN a ELSE b
NumBlocks == Cardinality(Block)

\* available().
Available(d, o, q) == (IF d = NoBlock THEN 0 ELSE BlockSize - o) + Len(q) * BlockSize

ThreadRuns == task = "ready"

\* The thread has a higher priority: the sketch runs when the thread waits for
\* a block or for something in the user's callback.
SketchRuns ==
  \/ ~ThreadRuns
  \/ thread = "read" /\ filled = <<>>
  \/ thread \in {"callback", "returned"}

-----------------------------------------------------------------------------
(* begin and end, from the sketch *)

\* begin, when inactive: the regulator is enabled, then the sketch sleeps.
Begin ==
  /\ SketchRuns
  /\ sketch = "idle"
  /\ ~active
  /\ power < MaxBegins /\ failed < MaxBegins
  /\ power' = power + 1
  /\ sketch' = "configure"
  /\ UNCHANGED <<pool, current, mic, active, task, onReceive, thread, last_avail, reader, log>>

\* pdm_configure or pdm_start fails: begin returns and undoes nothing.
BeginFails ==
  /\ SketchRuns
  /\ sketch \in {"configure", "start"}
  /\ failed' = failed + 1
  /\ sketch' = "idle"
  /\ UNCHANGED <<pool, current, device, onReceive, thread, last_avail, reader,
                 number, captured, consumed, delivered, overlap, ended, took>>

\* Mutant: the thread is not resumed after it has been suspended.
ResumeThread_OnlyFirst ==
  /\ SketchRuns
  /\ sketch = "configure"
  /\ task' = IF task = "new" THEN "ready" ELSE task
  /\ sketch' = "start"
  /\ UNCHANGED <<pool, current, mic, power, active, onReceive, thread, last_avail, reader, log>>

\* begin: k_thread_start or k_thread_resume.
ResumeThread ==
  /\ SketchRuns
  /\ sketch = "configure"
  /\ task' = "ready"
  /\ sketch' = "start"
  /\ UNCHANGED <<pool, current, mic, power, active, onReceive, thread, last_avail, reader, log>>

\* begin: pdm_start.
StartMic ==
  /\ SketchRuns
  /\ sketch = "start"
  /\ mic' = TRUE
  /\ sketch' = "activate"
  /\ UNCHANGED <<pool, current, power, active, task, onReceive, thread, last_avail, reader, log>>

\* begin: the end.
Activate ==
  /\ SketchRuns
  /\ sketch = "activate"
  /\ active' = TRUE
  /\ sketch' = "idle"
  /\ UNCHANGED <<pool, current, mic, power, task, onReceive, thread, last_avail, reader, log>>

\* end, when active: pdm_stop.
End ==
  /\ SketchRuns
  /\ sketch = "idle"
  /\ active
  /\ mic' = FALSE
  /\ sketch' = "suspend"
  /\ UNCHANGED <<pool, current, power, active, task, onReceive, thread, last_avail, reader, log>>

\* end: k_thread_suspend, wherever the thread waits.
Suspend ==
  /\ SketchRuns
  /\ sketch = "suspend"
  /\ task' = "suspended"
  /\ sketch' = "disable"
  /\ UNCHANGED <<pool, current, mic, power, active, onReceive, thread, last_avail, reader, log>>

PowerDown == power' = IF power > 0 THEN power - 1 ELSE 0

\* end: regulator_disable, and the status.
Deactivate ==
  /\ SketchRuns
  /\ sketch = "disable"
  /\ PowerDown
  /\ active' = FALSE
  /\ sketch' = "idle"
  /\ UNCHANGED <<pool, current, mic, task, onReceive, thread, last_avail, reader, log>>

\* onReceive with a function.
Register ==
  /\ SketchRuns
  /\ sketch = "idle"
  /\ ~onReceive
  /\ onReceive' = TRUE
  /\ UNCHANGED <<pool, current, device, thread, last_avail, sketch, reader, log>>

-----------------------------------------------------------------------------
(* read, by either reader *)

\* Whether a may take a step.
Runs(a) == IF a = "sketch" THEN SketchRuns ELSE ThreadRuns

Inside(a) == reading[a] # "out"

ReadCall(a, size) ==
  /\ Runs(a)
  /\ a \in Reader
  /\ \/ a = "sketch" /\ sketch = "idle" /\ sketch' = "read" /\ UNCHANGED thread
     \/ a = "callback" /\ thread = "callback" /\ thread' = "inRead" /\ UNCHANGED sketch
  /\ reading' = [reading EXCEPT ![a] = "check"]
  /\ want' = [want EXCEPT ![a] = size]
  /\ overlap' = (overlap \/ \E o \in Reader \ {a} : Inside(o))
  /\ UNCHANGED <<pool, current, device, onReceive, last_avail, new_block,
                 number, captured, consumed, delivered, failed, ended, took>>

\* The reader leaves read.
Returns(a) ==
  /\ reading' = [reading EXCEPT ![a] = "out"]
  /\ want' = [want EXCEPT ![a] = 0]
  /\ \/ a = "sketch" /\ sketch' = "idle" /\ UNCHANGED thread
     \/ a = "callback" /\ thread' = "returned" /\ UNCHANGED sketch

GoesOn(a, l) ==
  /\ reading' = [reading EXCEPT ![a] = l]
  /\ UNCHANGED <<thread, sketch, want>>

\* The loop condition, and the test of the active block.
ReadCheck(a) ==
  /\ Runs(a)
  /\ reading[a] = "check"
  /\ \/ want[a] = 0 /\ Returns(a)
     \/ want[a] > 0 /\ data # NoBlock /\ GoesOn(a, "copy")
     \/ want[a] > 0 /\ data = NoBlock /\ GoesOn(a, "get")
  /\ UNCHANGED <<pool, current, device, onReceive, last_avail, new_block, log>>

\* k_msgq_get(K_NO_WAIT).
ReadGet(a) ==
  /\ Runs(a)
  /\ reading[a] = "get"
  /\ \/ /\ queue = <<>>
        /\ Returns(a)
        /\ UNCHANGED <<queue, new_block>>
     \/ /\ queue # <<>>
        /\ new_block' = [new_block EXCEPT ![a] = Head(queue)]
        /\ queue' = Tail(queue)
        /\ GoesOn(a, "set")
  /\ UNCHANGED <<free, filled, buffer, current, device, onReceive, last_avail, log>>

Takes(a) == took' = IF thread = "read" THEN took ELSE took \union {a}

\* The block becomes the active one.
ReadSet(a) ==
  /\ Runs(a)
  /\ reading[a] = "set"
  /\ data' = new_block[a]
  /\ offset' = 0
  /\ new_block' = [new_block EXCEPT ![a] = NoBlock]
  /\ GoesOn(a, "copy")
  /\ Takes(a)
  /\ UNCHANGED <<pool, device, onReceive, last_avail,
                 number, captured, consumed, delivered, overlap, failed, ended>>

\* Mutant: what is left of the block does not limit the copy.
ReadCopy_NoLimit(a) ==
  /\ Runs(a)
  /\ reading[a] = "copy"
  /\ offset' = offset + want[a]
  /\ want' = [want EXCEPT ![a] = 0]
  /\ reading' = [reading EXCEPT ![a] = "free"]
  /\ delivered' = delivered + want[a]
  /\ Takes(a)
  /\ UNCHANGED <<pool, data, device, onReceive, thread, last_avail, sketch, new_block,
                 number, captured, consumed, overlap, failed, ended>>

\* memcpy of what is wanted and there.
ReadCopy(a) ==
  LET n == Least(want[a], BlockSize - offset) IN
  /\ Runs(a)
  /\ reading[a] = "copy"
  /\ offset' = offset + n
  /\ want' = [want EXCEPT ![a] = @ - n]
  /\ reading' = [reading EXCEPT ![a] = "free"]
  /\ delivered' = delivered + n
  /\ Takes(a)
  /\ UNCHANGED <<pool, data, device, onReceive, thread, last_avail, sketch, new_block,
                 number, captured, consumed, overlap, failed, ended>>

\* Mutant: the block that was given back stays the active one.
ReadFree_KeepsData(a) ==
  /\ Runs(a)
  /\ reading[a] = "free"
  /\ IF offset >= BlockSize
     THEN /\ free' = free \union ({data} \ {NoBlock})
          /\ consumed' = consumed + 1
     ELSE UNCHANGED <<free, consumed>>
  /\ GoesOn(a, "check")
  /\ UNCHANGED <<filled, queue, buffer, current, device, onReceive, last_avail, new_block,
                 number, captured, delivered, overlap, failed, ended, took>>

\* A block that is read to its end goes back to the slab.
ReadFree(a) ==
  /\ Runs(a)
  /\ reading[a] = "free"
  /\ IF offset >= BlockSize
     THEN /\ free' = free \union ({data} \ {NoBlock})
          /\ data' = NoBlock
          /\ consumed' = consumed + 1
     ELSE UNCHANGED <<free, data, consumed>>
  /\ GoesOn(a, "check")
  /\ UNCHANGED <<filled, queue, buffer, offset, device, onReceive, last_avail, new_block,
                 number, captured, delivered, overlap, failed, ended, took>>

Read(a) ==
  ReadCheck(a) \/ ReadGet(a) \/ ReadSet(a) \/ ReadCopy(a) \/ ReadFree(a)

-----------------------------------------------------------------------------
(* The microphone and the receiving thread *)

\* The driver fills a block of the slab; without one the samples are lost.
Capture(b) ==
  /\ mic
  /\ b \in free
  /\ captured < MaxCaptured
  /\ captured' = captured + 1
  /\ number' = [number EXCEPT ![b] = captured + 1]
  /\ free' = free \ {b}
  /\ filled' = Append(filled, b)
  /\ UNCHANGED <<queue, buffer, current, device, onReceive, thread, last_avail, sketch, reader,
                 consumed, delivered, overlap, failed, ended, took>>

\* pdm_read returns a block.
Receive ==
  /\ ThreadRuns
  /\ thread = "read"
  /\ filled # <<>>
  /\ buffer' = Head(filled)
  /\ filled' = Tail(filled)
  /\ thread' = "put"
  /\ UNCHANGED <<free, queue, current, device, onReceive, last_avail, sketch, reader, log>>

\* Mutant: the queue has room for one block less than the slab.
Put_ShortQueue ==
  /\ ThreadRuns
  /\ thread = "put"
  /\ buffer' = NoBlock
  /\ IF Len(queue) < NumBlocks - 1
     THEN /\ queue' = Append(queue, buffer)
          /\ last_avail' = IF onReceive THEN Available(data, offset, queue') ELSE 0
          /\ thread' = IF last_avail' > 0 THEN "callback" ELSE "read"
          /\ UNCHANGED free
     ELSE /\ free' = free \union {buffer}
          /\ thread' = "read"
          /\ UNCHANGED <<queue, last_avail>>
  /\ UNCHANGED <<filled, current, device, onReceive, sketch, reader, log>>

\* k_msgq_put(K_NO_WAIT): the callback is next if there is one; a full queue
\* drops the block.
Put ==
  /\ ThreadRuns
  /\ thread = "put"
  /\ buffer' = NoBlock
  /\ IF Len(queue) < NumBlocks
     THEN /\ queue' = Append(queue, buffer)
          /\ last_avail' = IF onReceive THEN Available(data, offset, queue') ELSE 0
          /\ thread' = IF last_avail' > 0 THEN "callback" ELSE "read"
          /\ UNCHANGED free
     ELSE /\ free' = free \union {buffer}
          /\ thread' = "read"
          /\ UNCHANGED <<queue, last_avail>>
  /\ UNCHANGED <<filled, current, device, onReceive, sketch, reader, log>>

\* The callback returns without a read.
CallbackIdle ==
  /\ ThreadRuns
  /\ thread = "callback"
  /\ thread' = "returned"
  /\ UNCHANGED <<pool, current, device, onReceive, last_avail, sketch, reader, log>>

\* Mutant: the callback is called again as long as anything is left.
AfterCallback_NoCatch ==
  LET current_avail == Available(data, offset, queue) IN
  /\ ThreadRuns
  /\ thread = "returned"
  /\ last_avail' = IF current_avail > 0 THEN current_avail ELSE 0
  /\ thread' = IF current_avail > 0 THEN "callback" ELSE "read"
  /\ took' = {}
  /\ UNCHANGED <<pool, current, device, onReceive, sketch, reader,
                 number, captured, consumed, delivered, overlap, failed, ended>>

\* Mutant: the callback is called once for a block.
AfterCallback_Once ==
  /\ ThreadRuns
  /\ thread = "returned"
  /\ last_avail' = 0
  /\ thread' = "read"
  /\ took' = {}
  /\ UNCHANGED <<pool, current, device, onReceive, sketch, reader,
                 number, captured, consumed, delivered, overlap, failed, ended>>

\* The loop calls the callback again while something is left, and gives up
\* when the callback has read nothing.
AfterCallback ==
  LET current_avail == Available(data, offset, queue)
      again == current_avail # last_avail /\ current_avail > 0
  IN
  /\ ThreadRuns
  /\ thread = "returned"
  /\ last_avail' = IF again THEN current_avail ELSE 0
  /\ thread' = IF again THEN "callback" ELSE "read"
  /\ took' = {}
  /\ UNCHANGED <<pool, current, device, onReceive, sketch, reader,
                 number, captured, consumed, delivered, overlap, failed, ended>>

\* end called by the callback: the thread suspends itself inside end.
CallbackEnds ==
  /\ ThreadRuns
  /\ EndsInside
  /\ thread = "callback"
  /\ active
  /\ mic' = FALSE
  /\ task' = "suspended"
  /\ thread' = "ending"
  /\ ended' = TRUE
  /\ UNCHANGED <<pool, current, power, active, onReceive, last_avail, sketch, reader,
                 number, captured, consumed, delivered, overlap, failed, took>>

\* The rest of that end, whenever the thread is resumed.
CallbackEnded ==
  /\ ThreadRuns
  /\ thread = "ending"
  /\ PowerDown
  /\ active' = FALSE
  /\ thread' = "returned"
  /\ UNCHANGED <<pool, current, mic, task, onReceive, last_avail, sketch, reader, log>>

-----------------------------------------------------------------------------
Init ==
  /\ free = Block /\ filled = <<>> /\ queue = <<>> /\ buffer = NoBlock
  /\ data = NoBlock /\ offset = 0
  /\ mic = FALSE /\ power = 0 /\ active = FALSE /\ task = "new"
  /\ onReceive = FALSE
  /\ thread = "read"
  /\ last_avail = 0
  /\ sketch = "idle"
  /\ reading = [a \in {"sketch", "callback"} |-> "out"]
  /\ want = [a \in {"sketch", "callback"} |-> 0]
  /\ new_block = [a \in {"sketch", "callback"} |-> NoBlock]
  /\ number = [b \in Block |-> 0]
  /\ captured = 0 /\ consumed = 0 /\ delivered = 0
  /\ overlap = FALSE /\ failed = 0 /\ ended = FALSE /\ took = {}

SketchStep ==
  \/ Begin   \/ BeginFails \/ ResumeThread \/ StartMic \/ Activate
  \/ End     \/ Suspend    \/ Deactivate   \/ Register
  \/ \E size \in Request : ReadCall("sketch", size)
  \/ Read("sketch")

\* What the receiving thread does by itself, and the callback's return.
ThreadStep ==
  \/ Receive \/ Put \/ CallbackIdle \/ AfterCallback \/ CallbackEnds \/ CallbackEnded
  \/ \E size \in Request : ReadCall("callback", size)
  \/ Read("callback")

Next == SketchStep \/ ThreadStep \/ \E b \in Block : Capture(b)

Spec == Init /\ [][Next]_vars

\* The thread runs when it can, and the user's callback returns.
FairSpec == Spec /\ WF_vars(ThreadStep)

-----------------------------------------------------------------------------
(* Properties *)

ActorReading == {"out", "check", "get", "set", "copy", "free"}

\* Every variable has its type; the active block is never read past its end.
TypeOK ==
  /\ free \in SUBSET Block
  /\ filled \in Seq(Block) /\ queue \in Seq(Block)
  /\ buffer \in Block \union {NoBlock} /\ data \in Block \union {NoBlock}
  /\ offset \in 0 .. BlockSize
  /\ mic \in BOOLEAN /\ power \in Nat /\ active \in BOOLEAN
  /\ task \in {"new", "ready", "suspended"}
  /\ onReceive \in BOOLEAN
  /\ thread \in {"read", "put", "callback", "inRead", "returned", "ending"}
  /\ last_avail \in Nat
  /\ sketch \in {"idle", "configure", "start", "activate", "suspend", "disable", "read"}
  /\ reading \in [{"sketch", "callback"} -> ActorReading]
  /\ want \in [{"sketch", "callback"} -> Nat]
  /\ new_block \in [{"sketch", "callback"} -> Block \union {NoBlock}]
  /\ number \in [Block -> Nat]
  /\ captured \in Nat /\ consumed \in Nat /\ delivered \in Nat
  /\ overlap \in BOOLEAN /\ failed \in Nat /\ ended \in BOOLEAN /\ took \in SUBSET {"sketch", "callback"}

Held(b) == IF b = NoBlock THEN <<>> ELSE <<b>>

\* The blocks on their way to the reader, the oldest first.
Unread ==
  Held(data) \o Held(new_block["sketch"]) \o Held(new_block["callback"])
    \o queue \o Held(buffer) \o filled

\* Every block is in one place: a block on its way is not in the slab, none is
\* on its way twice, and none has got lost, wherever end has suspended the
\* thread and however often begin has failed; unless two readers met in read.
BlockInOnePlace ==
  ~overlap =>
    /\ \A i, j \in DOMAIN Unread : i # j => Unread[i] # Unread[j]
    /\ free = Block \ {Unread[i] : i \in DOMAIN Unread}

\* What the microphone has filled is read once, in its order and to the last
\* byte, across end and begin: the queue is never full when a block comes.
CapturedOnceInOrder ==
  ~overlap =>
    /\ consumed + Len(Unread) = captured
    /\ \A i \in DOMAIN Unread : number[Unread[i]] = consumed + i
    /\ delivered = consumed * BlockSize + (IF data = NoBlock THEN 0 ELSE offset)

\* The thread goes back to the microphone once everything is read or the last
\* call of the callback read nothing: leftovers are never kept from a callback
\* that takes them, unless the sketch reads, too, while the callback waits.
LeftoversOffered ==
  [][thread = "returned" /\ thread' = "read" /\ ~overlap
       => Available(data, offset, queue) = 0 \/ took # {"callback"}]_vars

\* While active, the microphone is on, powered, and the thread takes its
\* blocks, also after begins that failed half-way; each of those leaves the
\* regulator enabled once more, and nothing else does; unless the callback has
\* called end.
StatusIsTrue ==
  sketch \in {"idle", "read"} /\ ~ended =>
    /\ active => mic /\ task = "ready"
    /\ power = failed + (IF active THEN 1 ELSE 0)

\* The loop over leftovers ends: the thread comes back to the microphone,
\* whatever the callback reads, unless it is suspended.
CallbacksEnd == thread = "callback" ~> (thread = "read" \/ task = "suspended")
=============================================================================
