---------------------------- MODULE ZephyrSerial ----------------------------
(***************************************************************************)
(* ZephyrSerial of cores/arduino: two ring buffers between the threads of  *)
(* a sketch and the interrupt of a UART, each with a binary semaphore.     *)
(*                                                                         *)
(* The interrupt tries to take the semaphore, goes on when it cannot, and  *)
(* gives it in any case: the semaphore a thread holds can so be given to   *)
(* another.  What keeps the data right for one thread is that the ring     *)
(* buffer of Zephyr is safe for one producer and one consumer; for several *)
(* threads it is not, and the two phases of a put and of a get (claim and  *)
(* copy, then finish) are steps of their own.                              *)
(***************************************************************************)
EXTENDS Naturals, Sequences

CONSTANTS
  Thread,     \* threads of the sketch that use the port
  Calls,      \* Calls[t]: the members that thread t calls
  Priority,   \* Priority[t]: the smaller, the more urgent
  NoThread,   \* nobody
  TxCap,      \* tx: CONFIG_ARDUINO_API_SERIAL_BUFFER_SIZE bytes
  RxCap,      \* rx: the same
  FifoCap,    \* bytes of the UART's own buffers
  ChunkSize,  \* the interrupt's buf
  MaxSent,    \* MaxSent[t]: bound on the bytes thread t writes
  MaxArrived  \* bound on the bytes the line carries

Ring == {"tx", "rx"}
TxOp == {"write", "availableForWrite"}
RxOp == {"begin", "available", "peek", "read"}
Operation == TxOp \union RxOp \union {"flush"}
RingOf(o) == IF o \in TxOp THEN "tx" ELSE "rx"

ASSUME SerialAssumption ==
  /\ NoThread \notin Thread
  /\ Calls \in [Thread -> SUBSET Operation]
  /\ Priority \in [Thread -> Nat]
  /\ TxCap \in Nat \ {0} /\ RxCap \in Nat \ {0} /\ FifoCap \in Nat \ {0}
  /\ ChunkSize \in Nat \ {0}
  /\ MaxSent \in [Thread -> Nat] /\ MaxArrived \in Nat

\* Written bytes, numbered by thread.
Byte == {b \in [by : Thread, n : Nat \ {0}] : b.n <= MaxSent[b.by]}

\* Received bytes, numbered as they arrive.
Arrival == 1 .. MaxArrived
NoByte == 0

VARIABLES
  txq,      \* tx ring: bytes between get.tail and put.tail
  claimed,  \* tx ring: bytes between put.tail and put.head
  rxq,      \* rx ring: bytes between get.tail and put.tail
  taken,    \* rx ring: how many of them lie before get.head
  sem,      \* count of tx.sem, rx.sem
  txIrq,    \* the interrupt is enabled for transmission
  rxIrq,    \* and for reception
  txFifo,   \* bytes in the UART on their way out
  rxFifo,   \* bytes in the UART that arrived
  pc,       \* pc[t]: where thread t is in its call
  op,       \* op[t]: the call
  left,     \* left[t]: size - idx of write
  got,      \* got[t]: what ring_buf_put or ring_buf_get returned
  byte,     \* byte[t]: data of read, peek
  written,  \* bytes of t that write took off its buffer (history)
  sent,     \* bytes on the wire (history)
  arrived,  \* bytes off the wire (history)
  lastRead, \* last byte that read consumed (history)
  overlap,  \* rings two threads have worked on at once (history)
  stolen    \* semaphores the interrupt gave while a thread held them (history)

txRing == <<txq, claimed>>
rxRing == <<rxq, taken>>
uart == <<txIrq, rxIrq, txFifo, rxFifo>>
locals == <<left, got, byte>>
log == <<written, sent, arrived, lastRead, overlap, stolen>>
vars == <<txRing, rxRing, sem, uart, pc, op, locals, log>>

Least(a, b) == IF a <= b THEN a ELSE b
First(n, q) == SubSeq(q, 1, Least(n, Len(q)))
Goto(t, l) == pc' = [pc EXCEPT ![t] = l]

\* A call returns, or goes on at l; the locals that are dead are reset.
NextOrReturn(t, l) ==
  /\ Goto(t, l)
  /\ op' = [op EXCEPT ![t] = IF l = "idle" THEN "none" ELSE @]

\* Threads blocked in k_sem_take, and threads between take and give.
Waiters(r) == {t \in Thread : pc[t] = "wait" /\ RingOf(op[t]) = r}
Holders(r) == {t \in Thread : pc[t] \in {"inside", "finish", "give"} /\ RingOf(op[t]) = r}
Working(r) == {t \in Thread : pc[t] = "finish" /\ RingOf(op[t]) = r}

\* k_sem_give hands the semaphore to a waiter, if there is one.
Wakes(r, w) == IF Waiters(r) = {} THEN w = NoThread ELSE w \in Waiters(r)

-----------------------------------------------------------------------------
(* The calls *)

Call(t, o, size) ==
  /\ pc[t] = "idle"
  /\ o \in Calls[t]
  /\ op' = [op EXCEPT ![t] = o]
  /\ left' = [left EXCEPT ![t] = size]
  /\ Goto(t, IF o = "flush" THEN "drain" ELSE "take")
  /\ UNCHANGED <<txRing, rxRing, sem, uart, got, byte, log>>

Write(t) == \E size \in 1 .. MaxSent[t] - written[t] : Call(t, "write", size)

\* Mutant: the semaphore is not waited for.
Take_NoWait(t) ==
  /\ pc[t] = "take"
  /\ sem' = [sem EXCEPT ![RingOf(op[t])] = 0]
  /\ Goto(t, "inside")
  /\ UNCHANGED <<txRing, rxRing, uart, op, locals, log>>

\* k_sem_take(K_FOREVER).
Take(t) ==
  LET r == RingOf(op[t]) IN
  /\ pc[t] = "take"
  /\ \/ sem[r] = 1 /\ sem' = [sem EXCEPT ![r] = 0] /\ Goto(t, "inside")
     \/ sem[r] = 0 /\ Goto(t, "wait") /\ UNCHANGED sem
  /\ UNCHANGED <<txRing, rxRing, uart, op, locals, log>>

Contend(t, r) == overlap' = IF Working(r) \ {t} = {} THEN overlap ELSE overlap \union {r}

\* write: ring_buf_put, first half: room is claimed and filled.
PutClaim(t) ==
  LET n == Least(left[t], TxCap - Len(txq) - Len(claimed)) IN
  /\ pc[t] = "inside"
  /\ op[t] = "write"
  /\ claimed' = claimed \o [i \in 1 .. n |-> [by |-> t, n |-> written[t] + i]]
  /\ got' = [got EXCEPT ![t] = n]
  /\ Contend(t, "tx")
  /\ Goto(t, "finish")
  /\ UNCHANGED <<txq, rxRing, sem, uart, op, left, byte, written, sent, arrived, lastRead, stolen>>

\* ring_buf_put, second half: the claim is published; whatever else is claimed
\* then is rolled back, and a finish that claims nothing any more fails.
\* write counts the bytes as written in either case.
PutFinish(t) ==
  /\ pc[t] = "finish"
  /\ op[t] = "write"
  /\ IF got[t] <= Len(claimed)
     THEN txq' = txq \o First(got[t], claimed) /\ claimed' = <<>>
     ELSE UNCHANGED txRing
  /\ left' = [left EXCEPT ![t] = @ - got[t]]
  /\ written' = [written EXCEPT ![t] = @ + got[t]]
  /\ Goto(t, "give")
  /\ UNCHANGED <<rxRing, sem, uart, op, got, byte, sent, arrived, lastRead, overlap, stolen>>

\* read, peek: ring_buf_get, ring_buf_peek, first half.
GetClaim(t) ==
  LET n == IF taken < Len(rxq) THEN 1 ELSE 0 IN
  /\ pc[t] = "inside"
  /\ op[t] \in {"read", "peek"}
  /\ taken' = taken + n
  /\ got' = [got EXCEPT ![t] = n]
  /\ byte' = [byte EXCEPT ![t] = IF n = 1 THEN rxq[taken + 1] ELSE NoByte]
  /\ Contend(t, "rx")
  /\ Goto(t, "finish")
  /\ UNCHANGED <<txRing, rxq, sem, uart, op, left, written, sent, arrived, lastRead, stolen>>

\* Mutant: read consumes nothing, like peek.
GetFinish_Peeks(t) ==
  /\ pc[t] = "finish"
  /\ op[t] \in {"read", "peek"}
  /\ taken' = 0
  /\ lastRead' = IF op[t] = "read" /\ got[t] = 1 THEN byte[t] ELSE lastRead
  /\ got' = [got EXCEPT ![t] = 0]
  /\ byte' = [byte EXCEPT ![t] = NoByte]
  /\ Goto(t, "give")
  /\ UNCHANGED <<txRing, rxq, sem, uart, op, left, written, sent, arrived, overlap, stolen>>

\* ring_buf_get, second half; ring_buf_peek finishes with 0 bytes.
GetFinish(t) ==
  LET n == IF op[t] = "read" THEN got[t] ELSE 0 IN
  /\ pc[t] = "finish"
  /\ op[t] \in {"read", "peek"}
  /\ IF n <= taken
     THEN rxq' = SubSeq(rxq, n + 1, Len(rxq)) /\ taken' = 0
     ELSE UNCHANGED rxRing
  /\ lastRead' = IF op[t] = "read" /\ got[t] = 1 THEN byte[t] ELSE lastRead
  /\ got' = [got EXCEPT ![t] = 0]
  /\ byte' = [byte EXCEPT ![t] = NoByte]
  /\ Goto(t, "give")
  /\ UNCHANGED <<txRing, sem, uart, op, left, written, sent, arrived, overlap, stolen>>

\* available, availableForWrite: the ring is only measured.
Look(t) ==
  /\ pc[t] = "inside"
  /\ op[t] \in {"available", "availableForWrite"}
  /\ Goto(t, "give")
  /\ UNCHANGED <<txRing, rxRing, sem, uart, op, locals, log>>

\* begin: ring_buf_reset of rx.
Reset(t) ==
  /\ pc[t] = "inside"
  /\ op[t] = "begin"
  /\ rxq' = <<>>
  /\ taken' = 0
  /\ Contend(t, "rx")
  /\ Goto(t, "give")
  /\ UNCHANGED <<txRing, sem, uart, op, locals, written, sent, arrived, lastRead, stolen>>

\* What follows the give, and the return of the calls that end there.
After(o) == CASE o = "write" -> "wrote" [] o = "begin" -> "enable" [] OTHER -> "idle"

\* Mutant: the semaphores are created with a limit of 2.
Give_CountsToTwo(t) ==
  LET r == RingOf(op[t]) IN
  \E w \in Thread \union {NoThread} :
    /\ pc[t] = "give"
    /\ Wakes(r, w)
    /\ pc' = [u \in Thread |-> IF u = t THEN After(op[t]) ELSE IF u = w THEN "inside" ELSE pc[u]]
    /\ sem' = [sem EXCEPT ![r] = IF w = NoThread THEN Least(@ + 1, 2) ELSE @]
    /\ op' = [op EXCEPT ![t] = IF After(@) = "idle" THEN "none" ELSE @]
    /\ UNCHANGED <<txRing, rxRing, uart, locals, log>>

\* k_sem_give.
Give(t) ==
  LET r == RingOf(op[t]) IN
  \E w \in Thread \union {NoThread} :
    /\ pc[t] = "give"
    /\ Wakes(r, w)
    /\ pc' = [u \in Thread |-> IF u = t THEN After(op[t]) ELSE IF u = w THEN "inside" ELSE pc[u]]
    /\ sem' = [sem EXCEPT ![r] = IF w = NoThread THEN 1 ELSE @]
    /\ op' = [op EXCEPT ![t] = IF After(@) = "idle" THEN "none" ELSE @]
    /\ UNCHANGED <<txRing, rxRing, uart, locals, log>>


\* Mutant: transmission is enabled only when the ring was full.
Wrote_EnablesWhenFull(t) ==
  /\ pc[t] = "wrote"
  /\ txIrq' = (txIrq \/ got[t] = 0)
  /\ got' = [got EXCEPT ![t] = 0]
  /\ NextOrReturn(t, IF left[t] = 0 THEN "idle" ELSE "take")
  /\ UNCHANGED <<txRing, rxRing, sem, rxIrq, txFifo, rxFifo, left, byte, log>>

\* write: transmission is enabled when the ring was full, and at the end.
Wrote(t) ==
  /\ pc[t] = "wrote"
  /\ txIrq' = (txIrq \/ got[t] = 0 \/ left[t] = 0)
  /\ got' = [got EXCEPT ![t] = 0]
  /\ NextOrReturn(t, IF left[t] = 0 THEN "idle" ELSE "take")
  /\ UNCHANGED <<txRing, rxRing, sem, rxIrq, txFifo, rxFifo, left, byte, log>>

EnableRx(t) ==
  /\ pc[t] = "enable"
  /\ rxIrq' = TRUE
  /\ NextOrReturn(t, "idle")
  /\ UNCHANGED <<txRing, rxRing, sem, txIrq, txFifo, rxFifo, locals, log>>

\* flush: the ring is empty; the semaphore is not taken.
Drained(t) ==
  /\ pc[t] = "drain"
  /\ txq = <<>>
  /\ Goto(t, "complete")
  /\ UNCHANGED <<txRing, rxRing, sem, uart, op, locals, log>>

\* Mutant: flush does not wait for the UART.
Complete_Early(t) ==
  /\ pc[t] = "complete"
  /\ NextOrReturn(t, "idle")
  /\ UNCHANGED <<txRing, rxRing, sem, uart, locals, log>>

\* flush: the last byte has left the UART.
Complete(t) ==
  /\ pc[t] = "complete"
  /\ txFifo = <<>>
  /\ NextOrReturn(t, "idle")
  /\ UNCHANGED <<txRing, rxRing, sem, uart, locals, log>>

ThreadStep(t) ==
  \/ Take(t)      \/ PutClaim(t) \/ PutFinish(t) \/ GetClaim(t) \/ GetFinish(t)
  \/ Look(t)      \/ Reset(t)    \/ Give(t)      \/ Wrote(t)    \/ EnableRx(t)
  \/ Drained(t)   \/ Complete(t)

-----------------------------------------------------------------------------
(* The UART and its interrupt *)

Pending == (rxIrq /\ rxFifo # <<>>) \/ (txIrq /\ Len(txFifo) < FifoCap)

\* The bytes that leave the ring: those the UART has room for.  Some drivers
\* report room only while their transmit interrupt is enabled.
Accepted(n) == n = Least(Len(txq), FifoCap - Len(txFifo)) \/ (n = 0 /\ ~txIrq)

\* Mutant: a chunk leaves the ring whether the UART took all of it or not.
IrqHandler_DropsChunk ==
  \E n \in 0 .. Len(txq), w \in [Ring -> Thread \union {NoThread}] :
    /\ Pending
    /\ \A r \in Ring : Wakes(r, w[r])
    /\ Accepted(n)
    /\ rxq' = rxq \o First(RxCap - Len(rxq), rxFifo)
    /\ rxFifo' = <<>>
    /\ txIrq' = (txIrq /\ txq # <<>>)
    /\ txFifo' = txFifo \o First(n, txq)
    /\ txq' = SubSeq(txq, (IF n = 0 THEN 0 ELSE Least(Len(txq), ChunkSize)) + 1, Len(txq))
    /\ pc' = [t \in Thread |-> IF \E r \in Ring : w[r] = t THEN "inside" ELSE pc[t]]
    /\ sem' = [r \in Ring |-> IF w[r] = NoThread THEN 1 ELSE sem[r]]
    /\ stolen' = stolen \union {r \in Ring : Holders(r) # {}}
    /\ UNCHANGED <<claimed, taken, rxIrq, op, locals, written, sent, arrived, lastRead, overlap>>

\* IrqHandler: rx is filled from the UART, what does not fit is dropped; then
\* the UART is filled from tx, and disabled when there was nothing for it.
\* Both semaphores are given, to a waiting thread if there is one.
IrqHandler ==
  \E n \in 0 .. Len(txq), w \in [Ring -> Thread \union {NoThread}] :
    /\ Pending
    /\ \A r \in Ring : Wakes(r, w[r])
    /\ Accepted(n)
    /\ rxq' = rxq \o First(RxCap - Len(rxq), rxFifo)
    /\ rxFifo' = <<>>
    /\ txIrq' = (txIrq /\ txq # <<>>)
    /\ txFifo' = txFifo \o First(n, txq)
    /\ txq' = SubSeq(txq, n + 1, Len(txq))
    /\ pc' = [t \in Thread |-> IF \E r \in Ring : w[r] = t THEN "inside" ELSE pc[t]]
    /\ sem' = [r \in Ring |-> IF w[r] = NoThread THEN 1 ELSE sem[r]]
    /\ stolen' = stolen \union {r \in Ring : Holders(r) # {}}
    /\ UNCHANGED <<claimed, taken, rxIrq, op, locals, written, sent, arrived, lastRead, overlap>>

\* A byte goes out on the wire.
Transmit ==
  /\ txFifo # <<>>
  /\ sent' = Append(sent, Head(txFifo))
  /\ txFifo' = Tail(txFifo)
  /\ UNCHANGED <<txRing, rxRing, sem, txIrq, rxIrq, rxFifo, pc, op, locals,
                 written, arrived, lastRead, overlap, stolen>>

\* A byte comes in; a full UART drops it.
Arrive ==
  /\ arrived < MaxArrived
  /\ arrived' = arrived + 1
  /\ rxFifo' = IF Len(rxFifo) < FifoCap THEN Append(rxFifo, arrived') ELSE rxFifo
  /\ UNCHANGED <<txRing, rxRing, sem, txIrq, rxIrq, txFifo, pc, op, locals,
                 written, sent, lastRead, overlap, stolen>>

-----------------------------------------------------------------------------
Init ==
  /\ txq = <<>> /\ claimed = <<>>
  /\ rxq = <<>> /\ taken = 0
  /\ sem = [r \in Ring |-> 1]
  /\ txIrq = FALSE /\ rxIrq = FALSE
  /\ txFifo = <<>> /\ rxFifo = <<>>
  /\ pc = [t \in Thread |-> "idle"]
  /\ op = [t \in Thread |-> "none"]
  /\ left = [t \in Thread |-> 0]
  /\ got = [t \in Thread |-> 0]
  /\ byte = [t \in Thread |-> NoByte]
  /\ written = [t \in Thread |-> 0]
  /\ sent = <<>>
  /\ arrived = 0
  /\ lastRead = NoByte
  /\ overlap = {}
  /\ stolen = {}

Next ==
  \/ \E t \in Thread :
       \/ Write(t)
       \/ \E o \in Operation \ {"write"} : Call(t, o, 0)
       \/ ThreadStep(t)
  \/ IrqHandler
  \/ Transmit
  \/ Arrive

Spec == Init /\ [][Next]_vars

\* A more urgent thread is in a call and does not wait: it has the processor,
\* also while it polls, for k_yield passes over the less urgent.
Preempted(t) ==
  \E u \in Thread : Priority[u] < Priority[t] /\ pc[u] \notin {"idle", "wait"}

\* A thread goes on unless it is preempted: between their calls, more urgent
\* threads leave the processor.  A pending interrupt is taken, the UART sends.
Fairness == /\ \A t \in Thread : WF_vars(~Preempted(t) /\ ThreadStep(t))
            /\ WF_vars(IrqHandler)
            /\ WF_vars(Transmit)

FairSpec == Spec /\ Fairness

-----------------------------------------------------------------------------
(* Properties *)

\* Every variable has its type; rings and semaphores keep their bounds.
TypeOK ==
  /\ txq \in Seq(Byte) /\ claimed \in Seq(Byte) /\ Len(txq) + Len(claimed) <= TxCap
  /\ rxq \in Seq(Arrival) /\ taken \in 0 .. Len(rxq) /\ Len(rxq) <= RxCap
  /\ sem \in [Ring -> {0, 1}]
  /\ txIrq \in BOOLEAN /\ rxIrq \in BOOLEAN
  /\ txFifo \in Seq(Byte) /\ Len(txFifo) <= FifoCap
  /\ rxFifo \in Seq(Arrival) /\ Len(rxFifo) <= FifoCap
  /\ pc \in [Thread -> {"idle", "take", "wait", "inside", "finish", "give",
                        "wrote", "enable", "drain", "complete"}]
  /\ op \in [Thread -> Operation \union {"none"}]
  /\ left \in [Thread -> Nat]
  /\ got \in [Thread -> Nat]
  /\ byte \in [Thread -> Arrival \union {NoByte}]
  /\ written \in [Thread -> Nat] /\ \A t \in Thread : written[t] + left[t] <= MaxSent[t]
  /\ sent \in Seq(Byte)
  /\ arrived \in 0 .. MaxArrived
  /\ lastRead \in Arrival \union {NoByte}
  /\ overlap \in SUBSET Ring /\ stolen \in SUBSET Ring

\* The bytes of thread t in q: their places and their numbers.
Own(q, t) == {i \in DOMAIN q : q[i].by = t}
Numbers(q, t) == {q[i].n : i \in Own(q, t)}

\* On the wire, in the UART or in the ring.
Out == sent \o txFifo \o txq

\* What write has taken from a thread is on the wire, in the UART or in the
\* ring, in its order, each byte once, however full the ring was and whenever
\* the interrupt came; unless two threads were inside ring_buf_put at once.
WrittenOnceInOrder ==
  "tx" \notin overlap =>
    \A t \in Thread :
      /\ Numbers(Out, t) = 1 .. written[t]
      /\ \A i, j \in Own(Out, t) : i < j => Out[i].n < Out[j].n

\* Two threads are on a ring at once only because the interrupt gave the
\* semaphore one of them held.
OverlapByInterrupt == overlap \subseteq stolen

\* A byte in the ring has an interrupt coming for it, or a write that will
\* enable it: no order of the interrupt's disable and a thread's put leaves a
\* byte behind.
NoByteStranded ==
  txq # <<>> => txIrq \/ \E t \in Thread : op[t] = "write" /\ pc[t] # "idle"

\* read returns the bytes in the order they came and none of them twice: what
\* is in the ring, whatever a full ring dropped or begin discarded, comes after
\* all that was read; unless two threads were on the ring at once.
ReadOnceInOrder ==
  "rx" \notin overlap =>
    \A i \in DOMAIN rxq : /\ lastRead < rxq[i]
                          /\ \A j \in DOMAIN rxq : i < j => rxq[i] < rxq[j]

\* When flush returns, all that its thread has written is on the wire.
FlushedIsSent ==
  [][\A t \in Thread : pc[t] = "complete" /\ pc'[t] = "idle" /\ "tx" \notin overlap
       => Numbers(sent, t) = 1 .. written[t]]_vars

\* flush of t waits for bytes that a less urgent thread has put into the ring;
\* their transmission is not enabled yet, and never will be.
Inverted(t) ==
  /\ pc[t] = "drain" /\ ~txIrq
  /\ \E u \in Thread : /\ Priority[t] < Priority[u]
                      /\ op[u] = "write" /\ pc[u] \in {"give", "wrote"}

=============================================================================
