----------------------- MODULE ZephyrSerialDataProofs -----------------------
(***************************************************************************)
(* Proofs about the data that ZephyrSerial moves: while no two threads     *)
(* work on a ring at once, bytes are read and written in order, each once. *)
(***************************************************************************)
EXTENDS ZephyrSerialProofs, Integers

USE SerialAssumption

\* At most one thread is between the two halves of a put or get.
Alone(r) == \A t, u \in Working(r) : t = u

\* A step that marks no ring is the only one on it.
LEMMA ContendAlone ==
  ASSUME NEW t \in Thread, NEW r \in Ring, Contend(t, r), r \notin overlap'
  PROVE  r \notin overlap /\ Working(r) \subseteq {t}
BY DEF Contend

\* The steps that leave the threads at work as they are.
LEMMA WorkingKept ==
  ASSUME TypeInv, NEW t \in Thread,
         \/ \E o \in Operation, size \in Nat : Call(t, o, size)
         \/ Take(t) \/ Look(t) \/ Give(t) \/ Wrote(t) \/ EnableRx(t)
         \/ Drained(t) \/ Complete(t) \/ Reset(t)
  PROVE  \A r \in Ring : Working(r)' = Working(r)
<1> USE DEF TypeInv, TypeOK
<1>1. \A u \in Thread \ {t} : op'[u] = op[u] /\ (pc'[u] = "finish" <=> pc[u] = "finish")
  <2>1. CASE Give(t)
    <3>1. PICK w \in Thread \union {NoThread} :
            /\ Wakes(RingOf(op[t]), w)
            /\ pc' = [u \in Thread |-> IF u = t THEN After(op[t])
                                       ELSE IF u = w THEN "inside" ELSE pc[u]]
            /\ op' = [op EXCEPT ![t] = IF After(@) = "idle" THEN "none" ELSE @]
      BY <2>1 DEF Give
    <3>2. w # NoThread => pc[w] = "wait"
      BY <3>1 DEF Wakes, Waiters
    <3>3. \A u \in Thread \ {t} : op'[u] = op[u]
      BY <3>1
    <3> HIDE DEF TypeInv, TypeOK
    <3>4. \A u \in Thread \ {t} : pc'[u] = IF u = w THEN "inside" ELSE pc[u]
      BY <3>1
    <3>5. \A u \in Thread : u = w => w # NoThread
      OBVIOUS
    <3>6. \A u \in Thread : u = w => pc[u] = "wait"
      BY <3>2, <3>5
    <3>7. QED
      BY <3>3, <3>4, <3>6
  <2>2. CASE ~Give(t)
    BY <2>2 DEF Call, Take, Look, Wrote, EnableRx, Drained, Complete, Reset, NextOrReturn, Goto
  <2>3. QED
    BY <2>1, <2>2
<1>2. pc[t] # "finish" /\ pc'[t] # "finish"
  <2>1. CASE Give(t)
    BY <2>1 DEF Give, After
  <2>2. CASE ~Give(t)
    BY <2>2 DEF Call, Take, Look, Wrote, EnableRx, Drained, Complete, Reset, NextOrReturn, Goto
  <2>3. QED
    BY <2>1, <2>2
<1> HIDE DEF TypeInv, TypeOK
<1>3. \A u \in Thread : (pc'[u] = "finish" <=> pc[u] = "finish")
                       /\ (pc[u] = "finish" => op'[u] = op[u])
  BY <1>1, <1>2
<1>4. QED
  BY <1>3 DEF Working

LEMMA WorkingOnIrq ==
  ASSUME TypeInv, IrqHandler
  PROVE  \A r \in Ring : Working(r)' = Working(r)
<1>1. PICK w \in [Ring -> Thread \union {NoThread}] :
        /\ \A r \in Ring : Wakes(r, w[r])
        /\ pc' = [t \in Thread |-> IF \E r \in Ring : w[r] = t THEN "inside" ELSE pc[t]]
        /\ op' = op
  BY DEF IrqHandler
<1>2. \A r \in Ring : w[r] # NoThread => pc[w[r]] = "wait"
  BY <1>1 DEF Wakes, Waiters
<1>3. \A t \in Thread : pc'[t] = "finish" <=> pc[t] = "finish"
  <2> SUFFICES ASSUME NEW t \in Thread PROVE pc'[t] = "finish" <=> pc[t] = "finish"
    OBVIOUS
  <2>1. CASE \E r \in Ring : w[r] = t
    <3>1. PICK r \in Ring : w[r] = t
      BY <2>1
    <3>2. pc[t] = "wait"
      BY <1>2, <3>1
    <3>3. QED
      BY <1>1, <2>1, <3>2
  <2>2. CASE ~\E r \in Ring : w[r] = t
    BY <1>1, <2>2
  <2>3. QED
    BY <2>1, <2>2
<1>4. QED
  BY <1>1, <1>3 DEF Working

LEMMA WriteIsCall ==
  ASSUME TypeInv, NEW t \in Thread,
         Write(t) \/ \E o \in Operation \ {"write"} : Call(t, o, 0)
  PROVE  \E o \in Operation, size \in Nat : Call(t, o, size)
<1>1. CASE Write(t)
  <2>1. PICK size \in 1 .. MaxSent[t] - written[t] : Call(t, "write", size)
    BY <1>1 DEF Write
  <2>2. size \in Nat /\ "write" \in Operation
    BY DEF TypeInv, TypeOK, Operation, TxOp
  <2>3. QED
    BY <2>1, <2>2
<1>2. QED
  BY <1>1

-----------------------------------------------------------------------------
(* Reception *)

Ascending(q) == \A i, j \in DOMAIN q : i < j => q[i] < q[j]

\* Bytes are numbered as they arrive: what was read, what the ring holds and
\* what the UART holds follow one another.
Ordered ==
  /\ lastRead <= arrived
  /\ Ascending(rxq) /\ Ascending(rxFifo)
  /\ \A i \in DOMAIN rxq : lastRead < rxq[i] /\ rxq[i] <= arrived
  /\ \A i \in DOMAIN rxFifo : lastRead < rxFifo[i] /\ rxFifo[i] <= arrived
  /\ \A i \in DOMAIN rxq, j \in DOMAIN rxFifo : rxq[i] < rxFifo[j]

\* What the thread at work has taken is the front of the ring.
FrontTaken ==
  /\ Alone("rx")
  /\ Working("rx") = {} => taken = 0
  /\ \A t \in Working("rx") : /\ got[t] = taken /\ taken <= 1
                              /\ taken = 1 => byte[t] = rxq[1]

ReadInv == "rx" \notin overlap => Ordered /\ FrontTaken

\* A step that leaves the receiving side alone.
LEMMA ReadKept ==
  ASSUME TypeInv, ReadInv,
         UNCHANGED <<rxq, taken, rxFifo, arrived, lastRead, byte>>,
         \A t \in Working("rx") : got'[t] = got[t],
         "rx" \in overlap => "rx" \in overlap',
         Working("rx")' = Working("rx")
  PROVE  ReadInv'
<1> SUFFICES ASSUME "rx" \notin overlap' PROVE Ordered' /\ FrontTaken'
  BY DEF ReadInv
<1>1. Ordered /\ FrontTaken
  BY DEF ReadInv
<1>2. Ordered'
  BY <1>1 DEF Ordered, Ascending
<1>3. FrontTaken'
  BY <1>1 DEF FrontTaken, Alone
<1>4. QED
  BY <1>2, <1>3

LEMMA GetClaimRead ==
  ASSUME TypeInv, ReadInv, NEW t \in Thread, GetClaim(t)
  PROVE  ReadInv'
<1> SUFFICES ASSUME "rx" \notin overlap' PROVE Ordered' /\ FrontTaken'
  BY DEF ReadInv
<1>1. "rx" \notin overlap /\ Working("rx") \subseteq {t}
  BY ContendAlone DEF GetClaim, Ring
<1>2. Working("rx") = {} /\ taken = 0
  <2>1. t \notin Working("rx")
    BY DEF GetClaim, Working
  <2>2. QED
    BY <1>1, <2>1 DEF ReadInv, FrontTaken
<1>3. Working("rx")' \subseteq {t}
  BY <1>2 DEF GetClaim, Goto, Working, TypeInv, TypeOK
<1>4. Working("rx")' = {t}
  <2>1. pc'[t] = "finish" /\ RingOf(op[t])' = "rx"
    BY DEF GetClaim, Goto, TypeInv, TypeOK, RingOf, TxOp
  <2>2. QED
    BY <1>3, <2>1 DEF Working
<1>5. /\ taken' = (IF 0 < Len(rxq) THEN 1 ELSE 0)
      /\ got' = [got EXCEPT ![t] = taken']
      /\ byte' = [byte EXCEPT ![t] = IF taken' = 1 THEN rxq[1] ELSE NoByte]
      /\ UNCHANGED <<rxq, rxFifo, arrived, lastRead>>
  BY <1>2 DEF GetClaim, uart, TypeInv, TypeOK
<1>6. Ordered'
  BY <1>1, <1>5 DEF ReadInv, Ordered, Ascending
<1>7. got'[t] = taken' /\ taken' <= 1 /\ (taken' = 1 => byte'[t] = rxq'[1])
  BY <1>5 DEF TypeInv, TypeOK
<1>8. FrontTaken'
  BY <1>4, <1>7 DEF FrontTaken, Alone
<1>9. QED
  BY <1>6, <1>8

LEMMA GetFinishRead ==
  ASSUME TypeInv, ReadInv, NEW t \in Thread, GetFinish(t)
  PROVE  ReadInv'
<1> SUFFICES ASSUME "rx" \notin overlap' PROVE Ordered' /\ FrontTaken'
  BY DEF ReadInv
<1>1. Ordered /\ FrontTaken
  BY DEF ReadInv, GetFinish
<1>2. t \in Working("rx")
  BY DEF GetFinish, Working, RingOf, TxOp
<1>3. Working("rx")' \subseteq Working("rx") \ {t}
  BY DEF GetFinish, Goto, Working, TypeInv, TypeOK
<1>4. Working("rx")' = {}
  BY <1>1, <1>2, <1>3 DEF FrontTaken, Alone
<1> DEFINE n == IF op[t] = "read" THEN got[t] ELSE 0
<1>5. n \in {0, 1} /\ n <= taken /\ taken \in 0 .. Len(rxq) /\ rxq \in Seq(Arrival)
  BY <1>1, <1>2, SMTT(60) DEF FrontTaken, TypeInv, TypeOK
<1>6. rxq' = SubSeq(rxq, n + 1, Len(rxq)) /\ taken' = 0
  BY <1>5 DEF GetFinish
<1>7. lastRead' = IF n = 1 THEN rxq[1] ELSE lastRead
  <2>1. n = 1 => taken = 1 /\ byte[t] = rxq[1]
    BY <1>1, <1>2, <1>5 DEF FrontTaken
  <2>2. lastRead' = IF n = 1 THEN byte[t] ELSE lastRead
    BY DEF GetFinish
  <2>3. QED
    BY <2>1, <2>2
<1>8. UNCHANGED <<rxFifo, arrived>>
  BY DEF GetFinish, uart
<1> HIDE DEF n
<1>9. FrontTaken'
  BY <1>4, <1>6 DEF FrontTaken, Alone
<1>10. Ordered'
  <2>1. CASE n = 0
    <3>1. rxq' = rxq
      BY <1>5, <1>6, <2>1
    <3>2. QED
      BY <1>1, <1>7, <1>8, <2>1, <3>1 DEF Ordered, Ascending
  <2>2. CASE n = 1
    <3>1. /\ DOMAIN rxq' = 1 .. Len(rxq) - 1
          /\ \A i \in DOMAIN rxq' : rxq'[i] = rxq[i + 1]
          /\ DOMAIN rxq = 1 .. Len(rxq) /\ Len(rxq) \in Nat /\ 1 <= Len(rxq)
      BY <1>5, <1>6, <2>2
    <3>2. lastRead' = rxq[1]
      BY <1>7, <2>2
    <3>3. \A i \in DOMAIN rxq' : i + 1 \in DOMAIN rxq /\ 1 \in DOMAIN rxq /\ 1 < i + 1
      BY <3>1
    <3>4. Ascending(rxq')
      BY <1>1, <3>1, <3>3 DEF Ordered, Ascending
    <3>5. \A i \in DOMAIN rxq' : lastRead' < rxq'[i] /\ rxq'[i] <= arrived
      BY <1>1, <3>1, <3>2, <3>3 DEF Ordered, Ascending
    <3>6. lastRead' <= arrived /\ \A j \in DOMAIN rxFifo : lastRead' < rxFifo[j]
      BY <1>1, <3>1, <3>2 DEF Ordered
    <3>7. \A i \in DOMAIN rxq', j \in DOMAIN rxFifo : rxq'[i] < rxFifo[j]
      BY <1>1, <3>1, <3>3 DEF Ordered
    <3>8. QED
      BY <1>1, <1>8, <3>4, <3>5, <3>6, <3>7 DEF Ordered
  <2>3. QED
    BY <1>5, <2>1, <2>2
<1>11. QED
  BY <1>9, <1>10

LEMMA ResetRead ==
  ASSUME TypeInv, ReadInv, NEW t \in Thread, Reset(t)
  PROVE  ReadInv'
<1> SUFFICES ASSUME "rx" \notin overlap' PROVE Ordered' /\ FrontTaken'
  BY DEF ReadInv
<1>1. "rx" \notin overlap /\ Working("rx") \subseteq {t}
  BY ContendAlone DEF Reset, Ring
<1>2. Working("rx") = {}
  BY <1>1 DEF Reset, Working
<1>3. Working("rx")' = {}
  BY <1>2, WorkingKept DEF Ring
<1>4. FrontTaken'
  BY <1>3 DEF FrontTaken, Alone, Reset
<1>5. Ordered'
  BY <1>1 DEF ReadInv, Ordered, Ascending, Reset, uart
<1>6. QED
  BY <1>4, <1>5

\* The interrupt appends the front of the UART's bytes and drops the rest.
LEMMA IrqRead ==
  ASSUME TypeInv, ReadInv, IrqHandler
  PROVE  ReadInv'
<1> SUFFICES ASSUME "rx" \notin overlap' PROVE Ordered' /\ FrontTaken'
  BY DEF ReadInv
<1>1. Ordered /\ FrontTaken
  BY DEF ReadInv, IrqHandler
<1>2. /\ rxq' = rxq \o First(RxCap - Len(rxq), rxFifo)
      /\ rxFifo' = <<>>
      /\ UNCHANGED <<taken, got, byte, arrived, lastRead>>
  BY DEF IrqHandler, locals
<1>3. Working("rx")' = Working("rx")
  BY WorkingOnIrq DEF Ring
<1> DEFINE k == Least(RxCap - Len(rxq), Len(rxFifo))
           m == Len(rxq)
<1>4. /\ rxq \in Seq(Arrival) /\ rxFifo \in Seq(Arrival) /\ m \in Nat
      /\ k \in 0 .. Len(rxFifo) /\ taken \in 0 .. m
  <2>1. rxq \in Seq(Arrival) /\ rxFifo \in Seq(Arrival) /\ taken \in 0 .. Len(rxq)
    BY DEF TypeInv, TypeOK
  <2>2. Len(rxq) <= RxCap
    BY DEF TypeInv, TypeOK
  <2>3. RxCap - Len(rxq) \in Nat /\ Len(rxFifo) \in Nat /\ Len(rxq) \in Nat
    <3>1. RxCap \in Nat
      OBVIOUS
    <3>2. Len(rxq) \in Nat /\ Len(rxFifo) \in Nat
      BY <2>1, LenProperties
    <3>3. QED
      BY <2>2, <3>1, <3>2
  <2>4. k \in 0 .. Len(rxFifo)
    BY <2>3 DEF Least
  <2>5. QED
    BY <2>1, <2>3, <2>4
<1>5. /\ First(RxCap - Len(rxq), rxFifo) \in Seq(Arrival)
      /\ Len(First(RxCap - Len(rxq), rxFifo)) = k
      /\ \A i \in 1 .. k : First(RxCap - Len(rxq), rxFifo)[i] = rxFifo[i]
  <2> HIDE DEF k
  <2>1. First(RxCap - Len(rxq), rxFifo) = SubSeq(rxFifo, 1, k)
    BY DEF First, k
  <2> DEFINE f == SubSeq(rxFifo, 1, k)
  <2>2. /\ f \in Seq(Arrival) /\ Len(f) = k
        /\ \A i \in 1 .. k : f[i] = rxFifo[i]
    BY <1>4
  <2> HIDE DEF f
  <2>3. QED
    BY <2>1, <2>2 DEF f
<1> HIDE DEF k, m
<1>6. /\ DOMAIN rxq' = 1 .. m + k
      /\ \A i \in 1 .. m : rxq'[i] = rxq[i]
      /\ \A i \in m + 1 .. m + k : rxq'[i] = rxFifo[i - m] /\ i - m \in DOMAIN rxFifo
  <2>1. /\ rxq' \in Seq(Arrival) /\ Len(rxq') = m + k
        /\ \A i \in 1 .. m + k : rxq'[i] = IF i <= m THEN rxq[i]
                                 ELSE First(RxCap - Len(rxq), rxFifo)[i - m]
    <3> DEFINE f == First(RxCap - Len(rxq), rxFifo)
    <3>1. rxq' = rxq \o f /\ f \in Seq(Arrival) /\ Len(f) = k
      BY <1>2, <1>5
    <3>2. rxq \in Seq(Arrival) /\ m = Len(rxq)
      BY <1>4 DEF m
    <3> HIDE DEF f
    <3>3. /\ rxq' \in Seq(Arrival) /\ Len(rxq') = m + k
          /\ \A i \in 1 .. m + k : rxq'[i] = IF i <= m THEN rxq[i] ELSE f[i - m]
      BY <3>1, <3>2, ConcatProperties
    <3>4. QED
      BY <3>3 DEF f
  <2>2. DOMAIN rxFifo = 1 .. Len(rxFifo)
    BY <1>4
  <2>3. \A i \in m + 1 .. m + k : i - m \in 1 .. k /\ i - m \in DOMAIN rxFifo
    BY <1>4, <2>2
  <2>4. DOMAIN rxq' = 1 .. m + k
    BY <2>1
  <2>5. \A i \in 1 .. m : rxq'[i] = rxq[i]
    BY <1>4, <2>1
  <2>6. \A i \in m + 1 .. m + k : rxq'[i] = rxFifo[i - m]
    <3> SUFFICES ASSUME NEW i \in m + 1 .. m + k PROVE rxq'[i] = rxFifo[i - m]
      OBVIOUS
    <3>1. i \in 1 .. m + k /\ ~(i <= m)
      BY <1>4
    <3>2. QED
      BY <1>5, <2>1, <2>3, <3>1
  <2>7. QED
    BY <2>3, <2>4, <2>5, <2>6
<1>7. DOMAIN rxq = 1 .. m
  BY <1>4 DEF m
<1>8. Ordered'
  <2>1. \A i \in DOMAIN rxq' : lastRead < rxq'[i] /\ rxq'[i] <= arrived
    BY <1>1, <1>4, <1>6, <1>7 DEF Ordered
  <2>2. Ascending(rxq')
    <3> SUFFICES ASSUME NEW i \in 1 .. m + k, NEW j \in 1 .. m + k, i < j
                 PROVE  rxq'[i] < rxq'[j]
      BY <1>6 DEF Ascending
    <3>1. CASE j <= m
      <4>1. i \in 1 .. m /\ j \in 1 .. m
        BY <1>4, <3>1
      <4>2. rxq[i] < rxq[j]
        BY <1>1, <1>7, <4>1 DEF Ordered, Ascending
      <4>3. QED
        BY <1>6, <4>1, <4>2
    <3>2. CASE i <= m /\ m < j
      <4>1. i \in 1 .. m /\ j \in m + 1 .. m + k
        BY <1>4, <3>2
      <4>2. j - m \in DOMAIN rxFifo /\ rxq'[j] = rxFifo[j - m]
        BY <1>6, <4>1
      <4>3. rxq[i] < rxFifo[j - m]
        BY <1>1, <1>7, <4>1, <4>2 DEF Ordered
      <4>4. QED
        BY <1>6, <4>1, <4>2, <4>3
    <3>3. CASE m < i
      <4>1. i \in m + 1 .. m + k /\ j \in m + 1 .. m + k /\ i - m < j - m
        BY <1>4, <3>3
      <4>2. QED
        BY <1>1, <1>6, <4>1 DEF Ordered, Ascending
    <3>4. QED
      BY <1>4, <3>1, <3>2, <3>3
  <2>3. QED
    BY <1>1, <1>2, <2>1, <2>2 DEF Ordered, Ascending
<1>9. FrontTaken'
  <2>1. taken = 1 => rxq'[1] = rxq[1]
    BY <1>4, <1>6
  <2>2. QED
    BY <1>1, <1>2, <1>3, <2>1 DEF FrontTaken, Alone
<1>10. QED
  BY <1>8, <1>9

LEMMA ArriveRead ==
  ASSUME TypeInv, ReadInv, Arrive
  PROVE  ReadInv'
<1> SUFFICES ASSUME "rx" \notin overlap' PROVE Ordered' /\ FrontTaken'
  BY DEF ReadInv
<1>1. Ordered /\ FrontTaken
  BY DEF ReadInv, Arrive
<1>2. UNCHANGED <<rxq, taken, got, byte, pc, op, lastRead>>
  BY DEF Arrive, rxRing, locals
<1>3. FrontTaken'
  BY <1>1, <1>2 DEF FrontTaken, Alone, Working
<1>4. /\ rxFifo \in Seq(Arrival) /\ arrived \in Nat /\ arrived' = arrived + 1
      /\ rxFifo' \in {rxFifo, Append(rxFifo, arrived + 1)}
      /\ rxq \in Seq(Arrival) /\ lastRead \in Nat
  BY DEF Arrive, TypeInv, TypeOK, Arrival, NoByte
<1>5. /\ \A i \in DOMAIN rxq : rxq[i] \in Nat
      /\ \A i \in DOMAIN rxFifo : rxFifo[i] \in Nat
  <2>1. Arrival \subseteq Nat
    BY DEF Arrival
  <2>2. \A q \in Seq(Arrival) : \A i \in DOMAIN q : q[i] \in Arrival
    OBVIOUS
  <2>3. QED
    BY <1>4, <2>1, <2>2
<1>6. CASE rxFifo' = rxFifo
  BY <1>1, <1>2, <1>3, <1>4, <1>5, <1>6 DEF Ordered, Ascending
<1>7. CASE rxFifo' = Append(rxFifo, arrived + 1)
  <2> DEFINE m == Len(rxFifo)
  <2>1. /\ m \in Nat /\ DOMAIN rxFifo = 1 .. m /\ DOMAIN rxFifo' = 1 .. m + 1
        /\ \A i \in 1 .. m : rxFifo'[i] = rxFifo[i]
        /\ rxFifo'[m + 1] = arrived + 1
    BY <1>4, <1>7
  <2> HIDE DEF m
  <2>2. \A i \in 1 .. m + 1 : i \in 1 .. m \/ i = m + 1
    BY <2>1
  <2>3. \A i \in DOMAIN rxFifo' : lastRead < rxFifo'[i] /\ rxFifo'[i] <= arrived + 1
    BY <1>1, <1>4, <1>5, <2>1, <2>2 DEF Ordered
  <2>4. Ascending(rxFifo')
    <3> SUFFICES ASSUME NEW i \in 1 .. m + 1, NEW j \in 1 .. m + 1, i < j
                 PROVE  rxFifo'[i] < rxFifo'[j]
      BY <2>1 DEF Ascending
    <3>1. i \in 1 .. m
      BY <2>1
    <3>2. CASE j \in 1 .. m
      BY <1>1, <2>1, <3>1, <3>2 DEF Ordered, Ascending
    <3>3. CASE j = m + 1
      <4>1. rxFifo'[j] = arrived + 1 /\ rxFifo'[i] = rxFifo[i] /\ i \in DOMAIN rxFifo
        BY <2>1, <3>1, <3>3
      <4>2. rxFifo[i] <= arrived /\ rxFifo[i] \in Nat
        BY <1>1, <1>5, <4>1 DEF Ordered
      <4>3. QED
        BY <1>4, <4>1, <4>2
    <3>4. QED
      BY <2>2, <3>2, <3>3
  <2>5. \A i \in DOMAIN rxq, j \in DOMAIN rxFifo' : rxq[i] < rxFifo'[j]
    BY <1>1, <1>4, <1>5, <2>1, <2>2 DEF Ordered
  <2>6. lastRead <= arrived + 1 /\ \A i \in DOMAIN rxq : rxq[i] <= arrived + 1
    BY <1>1, <1>4, <1>5 DEF Ordered
  <2>7. QED
    BY <1>1, <1>2, <1>3, <1>4, <2>3, <2>4, <2>5, <2>6 DEF Ordered
<1>8. QED
  BY <1>3, <1>4, <1>6, <1>7

LEMMA NextRead ==
  ASSUME TypeInv, ReadInv, [Next]_vars
  PROVE  ReadInv'
<1>1. ASSUME NEW t \in Thread,
             \/ \E o \in Operation, size \in Nat : Call(t, o, size)
             \/ Take(t) \/ Look(t) \/ Give(t) \/ Wrote(t) \/ EnableRx(t)
             \/ Drained(t) \/ Complete(t)
      PROVE  ReadInv'
  <2>1. Working("rx")' = Working("rx")
    BY <1>1, WorkingKept DEF Ring
  <2>2. UNCHANGED <<rxq, taken, rxFifo, arrived, lastRead, byte, overlap>>
    BY <1>1 DEF Call, Take, Look, Give, Wrote, EnableRx, Drained, Complete,
                rxRing, uart, locals, log
  <2>3. \A u \in Working("rx") : got'[u] = got[u]
    <3>1. CASE Wrote(t)
      BY <3>1 DEF Wrote, Working, TypeInv, TypeOK
    <3>2. CASE ~Wrote(t)
      BY <1>1, <3>2 DEF Call, Take, Look, Give, EnableRx, Drained, Complete, locals
    <3>3. QED
      BY <3>1, <3>2
  <2>4. QED
    BY <2>1, <2>2, <2>3, ReadKept
<1>2. ASSUME NEW t \in Thread, PutClaim(t) \/ PutFinish(t)
      PROVE  ReadInv'
  <2>1. Working("rx")' = Working("rx")
    BY <1>2 DEF PutClaim, PutFinish, Goto, Working, RingOf, TxOp, TypeInv, TypeOK
  <2>2. /\ UNCHANGED <<rxq, taken, rxFifo, arrived, lastRead, byte>>
        /\ "rx" \in overlap => "rx" \in overlap'
    BY <1>2 DEF PutClaim, PutFinish, Contend, rxRing, uart
  <2>3. \A u \in Working("rx") : got'[u] = got[u]
    BY <1>2 DEF PutClaim, PutFinish, Working, RingOf, TxOp, TypeInv, TypeOK
  <2>4. QED
    BY <2>1, <2>2, <2>3, ReadKept
<1>3. CASE Transmit \/ UNCHANGED vars
  <2>1. Working("rx")' = Working("rx")
    BY <1>3 DEF Transmit, vars, Working
  <2>2. UNCHANGED <<rxq, taken, rxFifo, arrived, lastRead, byte, got, overlap>>
    BY <1>3 DEF Transmit, vars, rxRing, uart, locals, log
  <2>3. QED
    BY <2>1, <2>2, ReadKept
<1>4. ASSUME NEW t \in Thread, Write(t) \/ \E o \in Operation \ {"write"} : Call(t, o, 0)
      PROVE  \E o \in Operation, size \in Nat : Call(t, o, size)
  BY <1>4, WriteIsCall
<1>5. QED
  BY <1>1, <1>2, <1>3, <1>4, GetClaimRead, GetFinishRead, ResetRead, IrqRead, ArriveRead
     DEF Next, ThreadStep

\* read returns the bytes in the order they came, none of them twice, for any
\* sizes of ring and UART, any overruns, peeks and begins in between, as long as
\* the interrupt has not let a second thread work on the ring.
THEOREM SerialReads == Spec => []ReadOnceInOrder
<1> DEFINE IInv == TypeInv /\ ReadInv
<1>1. Init => IInv
  BY InitType DEF Init, ReadInv, Ordered, Ascending, FrontTaken, Alone, Working, NoByte
<1>2. IInv /\ [Next]_vars => IInv'
  BY NextTypes, NextRead
<1>3. IInv => ReadOnceInOrder
  BY DEF ReadInv, Ordered, Ascending, ReadOnceInOrder
<1> HIDE DEF IInv
<1>4. QED
  BY <1>1, <1>2, <1>3, PTL DEF Spec

-----------------------------------------------------------------------------
(* Transmission *)

\* What is claimed is the put of the thread at work: the next bytes of its call.
Claiming ==
  /\ Alone("tx")
  /\ Working("tx") = {} => claimed = <<>>
  /\ \A t \in Working("tx") :
       /\ Len(claimed) = got[t]
       /\ \A i \in 1 .. got[t] : claimed[i] = [by |-> t, n |-> written[t] + i]

Delivered ==
  \A t \in Thread :
    /\ Numbers(Out, t) = 1 .. written[t]
    /\ \A i, j \in Own(Out, t) : i < j => Out[i].n < Out[j].n

\* A flush that has seen the ring empty waits for the UART only: the ring then
\* fills with bytes of others.
Passed ==
  \A t \in Thread : pc[t] = "complete" => Own(txq, t) = {}

WriteInv == "tx" \notin overlap => Claiming /\ Delivered /\ Passed

\* c is p and q behind it, as a predicate that the provers do not take apart.
Joins(c, p, q) == c = p \o q

\* The bytes of a thread in p and in q behind it.
LEMMA OwnOfConcat ==
  ASSUME NEW p \in Seq(Byte), NEW q \in Seq(Byte), NEW c, Joins(c, p, q), NEW t \in Thread
  PROVE  /\ \A i \in Own(c, t) : \/ i \in Own(p, t)
                                 \/ \E x \in Own(q, t) : i = Len(p) + x
         /\ \A i \in Own(p, t) : i \in Own(c, t) /\ c[i] = p[i]
         /\ \A i \in Own(q, t) : Len(p) + i \in Own(c, t) /\ c[Len(p) + i] = q[i]
         /\ Numbers(c, t) = Numbers(p, t) \union Numbers(q, t)
<1> DEFINE m == Len(p)
           k == Len(q)
<1>1. /\ c \in Seq(Byte) /\ Len(c) = m + k /\ m \in Nat /\ k \in Nat
      /\ \A i \in 1 .. m + k : c[i] = IF i <= m THEN p[i] ELSE q[i - m]
  BY ConcatProperties DEF Joins
<1>2. DOMAIN c = 1 .. m + k /\ DOMAIN p = 1 .. m /\ DOMAIN q = 1 .. k
  BY <1>1
<1> HIDE DEF m, k
<1>3. \A i \in 1 .. m : i \in 1 .. m + k /\ i <= m
  BY <1>1
<1>4. \A i \in 1 .. k : m + i \in 1 .. m + k /\ ~(m + i <= m) /\ (m + i) - m = i
  BY <1>1
<1>5. \A i \in 1 .. m + k : ~(i <= m) => i - m \in 1 .. k /\ m + (i - m) = i
  BY <1>1
<1>6. \A i \in 1 .. m + k : i <= m => i \in 1 .. m
  BY <1>1
<1>7. \A i \in 1 .. m : c[i] = p[i]
  BY <1>1, <1>3
<1>8. \A i \in 1 .. k : c[m + i] = q[i]
  BY <1>1, <1>4
<1>9. Own(c, t) = Own(p, t) \union {m + i : i \in Own(q, t)}
  <2>1. ASSUME NEW i \in Own(c, t) PROVE i \in Own(p, t) \union {m + x : x \in Own(q, t)}
    <3>1. i \in 1 .. m + k /\ c[i].by = t
      BY <1>2 DEF Own
    <3>2. CASE i <= m
      BY <1>2, <1>6, <1>7, <3>1, <3>2 DEF Own
    <3>3. CASE ~(i <= m)
      <4>1. i - m \in 1 .. k /\ m + (i - m) = i
        BY <1>5, <3>1, <3>3
      <4>2. i - m \in Own(q, t)
        BY <1>2, <1>8, <3>1, <4>1 DEF Own
      <4>3. QED
        BY <4>1, <4>2
    <3>4. QED
      BY <3>2, <3>3
  <2>2. Own(p, t) \subseteq Own(c, t)
    BY <1>2, <1>3, <1>7 DEF Own
  <2>3. \A i \in Own(q, t) : m + i \in Own(c, t)
    BY <1>2, <1>4, <1>8 DEF Own
  <2>4. QED
    BY <2>1, <2>2, <2>3
<1>10. \A i \in Own(p, t) : c[i] = p[i]
  BY <1>2, <1>7 DEF Own
<1>11. \A i \in Own(q, t) : c[m + i] = q[i]
  BY <1>2, <1>8 DEF Own
<1>12. Numbers(c, t) = Numbers(p, t) \union Numbers(q, t)
  <2>1. \A i \in Own(c, t) : \/ i \in Own(p, t) /\ c[i] = p[i]
                             \/ \E x \in Own(q, t) : c[i] = q[x]
    BY <1>9, <1>10, <1>11
  <2>2. Numbers(c, t) \subseteq Numbers(p, t) \union Numbers(q, t)
    BY <2>1 DEF Numbers
  <2>3. Numbers(p, t) \subseteq Numbers(c, t)
    BY <1>9, <1>10 DEF Numbers
  <2>4. Numbers(q, t) \subseteq Numbers(c, t)
    <3>1. \A x \in Own(q, t) : m + x \in Own(c, t) /\ c[m + x] = q[x]
      BY <1>9, <1>11
    <3>2. QED
      BY <3>1 DEF Numbers
  <2>5. QED
    BY <2>2, <2>3, <2>4
<1>13. QED
  BY <1>9, <1>10, <1>11, <1>12 DEF m

LEMMA ConcatBytes ==
  \A a, b, c \in Seq(Byte) : (a \o b) \o c = a \o (b \o c)
BY ConcatAssociative

LEMMA FourParts ==
  ASSUME NEW a \in Seq(Byte), NEW b \in Seq(Byte), NEW c \in Seq(Byte), NEW d \in Seq(Byte)
  PROVE  Joins((a \o b) \o (c \o d), a \o (b \o c), d)
<1>1. a \o b \in Seq(Byte)
  BY AppendedType
<1>2. (a \o b) \o c = a \o (b \o c)
  BY ConcatBytes
<1> DEFINE e == a \o b
<1> HIDE DEF e
<1>3. e \in Seq(Byte)
  BY <1>1 DEF e
<1>4. (e \o c) \o d = e \o (c \o d)
  BY <1>3, ConcatBytes
<1>5. QED
  BY <1>2, <1>4, Zenon DEF e, Joins

\* Bytes move on without overtaking.
LEMMA OutType == TypeInv => Out \in Seq(Byte)
<1>1. TypeInv => sent \in Seq(Byte) /\ txFifo \in Seq(Byte) /\ txq \in Seq(Byte)
  BY DEF TypeInv, TypeOK
<1>2. QED
  BY <1>1, AppendedType DEF Out

LEMMA OutOnIrq ==
  ASSUME TypeInv, NEW n \in 0 .. Len(txq),
         sent' = sent, txFifo' = txFifo \o First(n, txq),
         txq' = SubSeq(txq, n + 1, Len(txq))
  PROVE  /\ Out' = Out
         /\ \A t \in Thread : Own(txq, t) = {} => Own(txq', t) = {}
<1>1. /\ sent \in Seq(Byte) /\ txFifo \in Seq(Byte) /\ txq \in Seq(Byte)
      /\ Len(txq) \in Nat
  BY DEF TypeInv, TypeOK
<1>2. First(n, txq) = SubSeq(txq, 1, n)
  BY <1>1 DEF First, Least
<1> DEFINE f == SubSeq(txq, 1, n)
           r == SubSeq(txq, n + 1, Len(txq))
<1>3. f \in Seq(Byte) /\ r \in Seq(Byte)
  BY <1>1, SubSeqProperties
<1>4. f \o r = txq
  <2>1. /\ 1 \in 1 .. Len(txq) + 1 /\ n \in 1 - 1 .. Len(txq)
        /\ Len(txq) \in n .. Len(txq)
    BY <1>1
  <2>2. f \o r = SubSeq(txq, 1, Len(txq))
    BY <1>1, <2>1, ConcatAdjacentSubSeq
  <2>3. SubSeq(txq, 1, Len(txq)) = txq
    BY <1>1, SubSeqFull
  <2>4. QED
    BY <2>2, <2>3
<1>5. \A t \in Thread : Own(txq, t) = {} => Own(r, t) = {}
  <2>1. /\ DOMAIN r = 1 .. Len(txq) - n
        /\ \A i \in 1 .. Len(txq) - n : r[i] = txq[i + n] /\ i + n \in DOMAIN txq
    BY <1>1, SubSeqProperties
  <2> HIDE DEF r
  <2>2. QED
    BY <2>1 DEF Own
<1> HIDE DEF f, r
<1>6. Out' = (sent \o (txFifo \o f)) \o r
  BY <1>2 DEF Out, f, r
<1>7. Joins((sent \o txFifo) \o (f \o r), sent \o (txFifo \o f), r)
  BY <1>1, <1>3, FourParts
<1>8. QED
  BY <1>4, <1>5, <1>6, <1>7 DEF Out, Joins, r

LEMMA OutOnTransmit ==
  ASSUME TypeInv, Transmit
  PROVE  Out' = Out
<1>1. /\ sent \in Seq(Byte) /\ txFifo \in Seq(Byte) /\ txq \in Seq(Byte) /\ txFifo # <<>>
  BY DEF TypeInv, TypeOK, Transmit
<1>2. /\ Head(txFifo) \in Byte /\ Tail(txFifo) \in Seq(Byte)
      /\ <<Head(txFifo)>> \in Seq(Byte)
  BY <1>1, HeadTailProperties
<1>3. <<Head(txFifo)>> \o Tail(txFifo) = txFifo
  BY <1>1, <1>2
<1>4. sent' = sent \o <<Head(txFifo)>> /\ txFifo' = Tail(txFifo) /\ txq' = txq
  BY <1>1, <1>2, AppendIsConcat DEF Transmit, txRing
<1>5. (sent \o <<Head(txFifo)>>) \o Tail(txFifo) = sent \o txFifo
  BY <1>1, <1>2, <1>3, ConcatAssociative
<1>6. QED
  BY <1>4, <1>5 DEF Out

\* A step that leaves the transmitting side alone, or moves bytes on.
LEMMA WriteKept ==
  ASSUME TypeInv, WriteInv,
         UNCHANGED <<claimed, written>>,
         Out' = Out,
         \A t \in Working("tx") : got'[t] = got[t],
         "tx" \in overlap => "tx" \in overlap',
         Working("tx")' = Working("tx"),
         \A t \in Thread : pc'[t] = "complete" =>
           \/ txq' = <<>>
           \/ pc[t] = "complete" /\ (Own(txq, t) = {} => Own(txq', t) = {})
  PROVE  WriteInv'
<1> SUFFICES ASSUME "tx" \notin overlap' PROVE Claiming' /\ Delivered' /\ Passed'
  BY DEF WriteInv
<1>1. Claiming /\ Delivered /\ Passed
  BY DEF WriteInv
<1>2. Claiming'
  BY <1>1 DEF Claiming, Alone
<1>3. Delivered'
  BY <1>1 DEF Delivered, Numbers, Own
<1>4. Passed'
  BY <1>1 DEF Passed, Own
<1>5. QED
  BY <1>2, <1>3, <1>4

LEMMA PutClaimWrite ==
  ASSUME TypeInv, WriteInv, NEW t \in Thread, PutClaim(t)
  PROVE  WriteInv'
<1> SUFFICES ASSUME "tx" \notin overlap' PROVE Claiming' /\ Delivered' /\ Passed'
  BY DEF WriteInv
<1>1. "tx" \notin overlap /\ Working("tx") \subseteq {t}
  BY ContendAlone DEF PutClaim, Ring
<1>2. Working("tx") = {} /\ claimed = <<>>
  <2>1. t \notin Working("tx")
    BY DEF PutClaim, Working
  <2>2. QED
    BY <1>1, <2>1 DEF WriteInv, Claiming
<1>3. Working("tx")' \subseteq {t}
  BY <1>2 DEF PutClaim, Goto, Working, TypeInv, TypeOK
<1> DEFINE n == Least(left[t], TxCap - Len(txq) - Len(claimed))
           new == [i \in 1 .. n |-> [by |-> t, n |-> written[t] + i]]
<1>4. n \in Nat
  <2>1. left[t] \in Nat /\ TxCap - Len(txq) - Len(claimed) \in Nat
    BY DEF TypeInv, TypeOK
  <2>2. QED
    BY <2>1, LeastType
<1>5. claimed' = claimed \o new /\ got' = [got EXCEPT ![t] = n] /\ written' = written
  BY DEF PutClaim
<1> HIDE DEF n
<1>6. new \in Seq({[by |-> t, n |-> written[t] + i] : i \in 1 .. n}) /\ Len(new) = n
  BY <1>4
<1>7. claimed' = new
  BY <1>2, <1>5, <1>6, ConcatEmptySeq
<1>8. Claiming'
  <2>1. got'[t] = n
    BY <1>5 DEF TypeInv, TypeOK
  <2>2. \A i \in 1 .. n : new[i] = [by |-> t, n |-> written'[t] + i]
    BY <1>5
  <2>3. t \in Working("tx")'
    BY DEF PutClaim, Goto, Working, RingOf, TxOp, TypeInv, TypeOK
  <2> HIDE DEF new
  <2>4. QED
    BY <1>3, <1>6, <1>7, <2>1, <2>2, <2>3 DEF Claiming, Alone
<1>9. Delivered'
  <2>1. Out' = Out /\ written' = written
    BY DEF Out, PutClaim, uart
  <2>2. QED
    BY <1>1, <2>1 DEF WriteInv, Delivered, Numbers, Own
<1>10. Passed'
  BY <1>1 DEF WriteInv, Passed, PutClaim, Goto, TypeInv, TypeOK, Own
<1>11. QED
  BY <1>8, <1>9, <1>10

\* The next bytes of a thread go to the end of what it has written.
LEMMA PutFinishWrite ==
  ASSUME TypeInv, WriteInv, NEW t \in Thread, PutFinish(t)
  PROVE  WriteInv'
<1> SUFFICES ASSUME "tx" \notin overlap' PROVE Claiming' /\ Delivered' /\ Passed'
  BY DEF WriteInv
<1>1. Claiming /\ Delivered /\ Passed
  BY DEF WriteInv, PutFinish
<1>2. t \in Working("tx")
  BY DEF PutFinish, Working, RingOf, TxOp
<1>3. Working("tx")' = {}
  <2>1. Working("tx")' \subseteq Working("tx") \ {t}
    BY DEF PutFinish, Goto, Working, TypeInv, TypeOK
  <2>2. QED
    BY <1>1, <1>2, <2>1 DEF Claiming, Alone
<1>4. /\ Len(claimed) = got[t] /\ got[t] \in Nat /\ claimed \in Seq(Byte)
      /\ \A i \in 1 .. got[t] : claimed[i] = [by |-> t, n |-> written[t] + i]
      /\ written \in [Thread -> Nat]
  BY <1>1, <1>2 DEF Claiming, TypeInv, TypeOK
<1>5. First(got[t], claimed) = claimed
  BY <1>4, SubSeqFull DEF First, Least
<1>6. /\ txq' = txq \o claimed /\ claimed' = <<>>
      /\ sent' = sent /\ txFifo' = txFifo
      /\ written' = [written EXCEPT ![t] = written[t] + got[t]]
  BY <1>4, <1>5 DEF PutFinish, uart
<1>7. Claiming'
  BY <1>3, <1>6 DEF Claiming, Alone
<1>8. txq \in Seq(Byte) /\ sent \in Seq(Byte) /\ txFifo \in Seq(Byte) /\ Out \in Seq(Byte)
  BY OutType DEF TypeInv, TypeOK
<1>9. Out' = Out \o claimed
  <2>1. Out' = (sent \o txFifo) \o (txq \o claimed)
    BY <1>6 DEF Out
  <2>2. sent \o txFifo \in Seq(Byte)
    BY <1>8, AppendedType
  <2> DEFINE front == sent \o txFifo
  <2> HIDE DEF front
  <2>3. front \in Seq(Byte) /\ txq \in Seq(Byte) /\ claimed \in Seq(Byte)
    BY <1>4, <1>8, <2>2 DEF front
  <2>4. (front \o txq) \o claimed = front \o (txq \o claimed)
    BY <2>3, ConcatBytes
  <2>5. QED
    BY <2>1, <2>4 DEF Out, front
<1> DEFINE m == Len(Out)
           k == got[t]
           w == written[t]
<1>10. DOMAIN claimed = 1 .. k /\ k \in Nat /\ w \in Nat /\ m \in Nat
  <2>1. DOMAIN claimed = 1 .. k /\ k \in Nat /\ w \in Nat
    BY <1>4
  <2>2. m \in Nat
    BY <1>8, LenProperties
  <2>3. QED
    BY <2>1, <2>2
<1>11. Own(claimed, t) = 1 .. k /\ \A u \in Thread \ {t} : Own(claimed, u) = {}
  <2>1. \A i \in DOMAIN claimed : claimed[i].by = t
    <3> SUFFICES ASSUME NEW i \in 1 .. k PROVE claimed[i].by = t
      BY <1>10
    <3>1. claimed[i] = [by |-> t, n |-> w + i]
      BY <1>4
    <3>2. QED
      BY <3>1
  <2>2. QED
    BY <1>10, <2>1 DEF Own
<1>12. \A i \in 1 .. k : claimed[i].n = w + i
  <2> SUFFICES ASSUME NEW i \in 1 .. k PROVE claimed[i].n = w + i
    OBVIOUS
  <2>1. claimed[i] = [by |-> t, n |-> w + i]
    BY <1>4
  <2>2. QED
    BY <2>1
<1>13. \A u \in Thread :
         /\ \A i \in Own(Out', u) : i \in Own(Out, u) \/ \E x \in Own(claimed, u) : i = m + x
         /\ \A i \in Own(Out, u) : i \in Own(Out', u) /\ Out'[i] = Out[i]
         /\ \A i \in Own(claimed, u) : Out'[m + i] = claimed[i]
         /\ Numbers(Out', u) = Numbers(Out, u) \union Numbers(claimed, u)
  <2> SUFFICES ASSUME NEW u \in Thread
               PROVE  /\ \A i \in Own(Out', u) : \/ i \in Own(Out, u)
                                                 \/ \E x \in Own(claimed, u) : i = m + x
                      /\ \A i \in Own(Out, u) : i \in Own(Out', u) /\ Out'[i] = Out[i]
                      /\ \A i \in Own(claimed, u) : Out'[m + i] = claimed[i]
                      /\ Numbers(Out', u) = Numbers(Out, u) \union Numbers(claimed, u)
    OBVIOUS
  <2> DEFINE p == Out
             q == Out'
  <2>1. p \in Seq(Byte) /\ claimed \in Seq(Byte) /\ Joins(q, p, claimed) /\ m = Len(p)
    BY <1>4, <1>8, <1>9 DEF Joins
  <2> HIDE DEF p, q, m
  <2>2. /\ \A i \in Own(q, u) : i \in Own(p, u) \/ \E x \in Own(claimed, u) : i = m + x
        /\ \A i \in Own(p, u) : i \in Own(q, u) /\ q[i] = p[i]
        /\ \A i \in Own(claimed, u) : q[m + i] = claimed[i]
        /\ Numbers(q, u) = Numbers(p, u) \union Numbers(claimed, u)
    BY <2>1, OwnOfConcat
  <2>3. QED
    BY <2>2 DEF p, q
<1>14. written'[t] = w + k /\ \A u \in Thread \ {t} : written'[u] = written[u]
  BY <1>4, <1>6
<1>15. \A i \in Own(Out, t) : i \in 1 .. m /\ Out[i].n \in 1 .. w
  <2>1. DOMAIN Out = 1 .. m
    BY <1>8
  <2>2. QED
    BY <1>1, <2>1 DEF Delivered, Numbers, Own
<1> HIDE DEF m, k, w
<1>16. ASSUME NEW u \in Thread \ {t}
       PROVE  /\ Numbers(Out', u) = 1 .. written'[u]
              /\ \A i, j \in Own(Out', u) : i < j => Out'[i].n < Out'[j].n
  <2>1. Own(claimed, u) = {}
    BY <1>11
  <2>2. Own(Out', u) = Own(Out, u)
    <3>1. Own(Out', u) \subseteq Own(Out, u)
      BY <1>13, <2>1
    <3>2. Own(Out, u) \subseteq Own(Out', u)
      BY <1>13
    <3>3. QED
      BY <3>1, <3>2
  <2>3. Numbers(claimed, u) = {}
    BY <2>1 DEF Numbers
  <2>4. Numbers(Out', u) = 1 .. written'[u]
    BY <1>1, <1>13, <1>14, <2>3 DEF Delivered
  <2>5. QED
    BY <1>1, <1>13, <2>2, <2>4 DEF Delivered
<1>17. Numbers(Out', t) = 1 .. written'[t]
  <2>1. \A i \in 1 .. k : w + i \in w + 1 .. w + k
    BY <1>10
  <2>2. \A x \in w + 1 .. w + k : x - w \in 1 .. k /\ w + (x - w) = x
    BY <1>10
  <2>3. Numbers(claimed, t) = w + 1 .. w + k
    <3>1. Numbers(claimed, t) = {w + i : i \in 1 .. k}
      BY <1>11, <1>12 DEF Numbers
    <3>2. QED
      BY <2>1, <2>2, <3>1
  <2>4. (1 .. w) \union (w + 1 .. w + k) = 1 .. w + k
    BY <1>10
  <2>5. Numbers(Out, t) = 1 .. w
    BY <1>1 DEF Delivered, w
  <2>6. QED
    BY <1>13, <1>14, <2>3, <2>4, <2>5
<1>18. ASSUME NEW i \in Own(Out', t), NEW j \in Own(Out', t), i < j
       PROVE  Out'[i].n < Out'[j].n
  <2>1. \A x \in Own(Out', t) : x \in Own(Out, t) \/ \E y \in 1 .. k : x = m + y
    BY <1>11, <1>13
  <2>2. CASE i \in Own(Out, t) /\ j \in Own(Out, t)
    BY <1>1, <1>13, <1>18, <2>2 DEF Delivered
  <2>3. ASSUME i \in Own(Out, t), NEW y \in 1 .. k, j = m + y
        PROVE  Out'[i].n < Out'[j].n
    <3>1. Out'[j].n = w + y /\ Out'[i].n \in 1 .. w
      BY <1>11, <1>12, <1>13, <1>15, <2>3
    <3>2. QED
      BY <1>10, <3>1
  <2>4. ASSUME NEW x \in 1 .. k, i = m + x, j \in Own(Out, t)
        PROVE  FALSE
    BY <1>10, <1>15, <1>18, <2>4
  <2>5. ASSUME NEW x \in 1 .. k, NEW y \in 1 .. k, i = m + x, j = m + y
        PROVE  Out'[i].n < Out'[j].n
    <3>1. Out'[i].n = w + x /\ Out'[j].n = w + y
      BY <1>11, <1>12, <1>13, <2>5
    <3>2. QED
      BY <1>10, <1>18, <2>5, <3>1
  <2>6. QED
    BY <2>1, <2>2, <2>3, <2>4, <2>5
<1>19. Delivered'
  <2>1. \A u \in Thread : /\ Numbers(Out', u) = 1 .. written'[u]
                          /\ \A i, j \in Own(Out', u) : i < j => Out'[i].n < Out'[j].n
    BY <1>16, <1>17, <1>18
  <2>2. QED
    BY <2>1 DEF Delivered, Numbers, Own
<1>20. Passed'
  <2> SUFFICES ASSUME NEW u \in Thread, pc'[u] = "complete" PROVE Own(txq', u) = {}
    BY DEF Passed, Own
  <2>1. u # t /\ pc[u] = "complete"
    BY DEF PutFinish, Goto, TypeInv, TypeOK
  <2>2. Own(txq, u) = {} /\ Own(claimed, u) = {}
    BY <1>1, <1>11, <2>1 DEF Passed
  <2>3. Joins(txq', txq, claimed) /\ txq \in Seq(Byte) /\ claimed \in Seq(Byte)
    BY <1>4, <1>6, <1>8 DEF Joins
  <2>4. \A i \in Own(txq', u) : i \in Own(txq, u) \/ \E x \in Own(claimed, u) : i = Len(txq) + x
    BY <2>3, OwnOfConcat
  <2>5. QED
    BY <2>2, <2>4
<1>21. QED
  BY <1>7, <1>19, <1>20

LEMMA NextWrite ==
  ASSUME TypeInv, WriteInv, [Next]_vars
  PROVE  WriteInv'
<1>1. ASSUME NEW t \in Thread,
             \/ \E o \in Operation, size \in Nat : Call(t, o, size)
             \/ Take(t) \/ Look(t) \/ Wrote(t) \/ EnableRx(t)
             \/ Drained(t) \/ Complete(t) \/ Reset(t) \/ Give(t)
      PROVE  WriteInv'
  <2>1. Working("tx")' = Working("tx")
    BY <1>1, WorkingKept DEF Ring
  <2>2. /\ UNCHANGED <<claimed, written, sent, txFifo, txq>>
        /\ "tx" \in overlap => "tx" \in overlap'
    BY <1>1 DEF Call, Take, Look, Give, Wrote, EnableRx, Drained, Complete, Reset, Contend,
                txRing, uart, locals, log
  <2>3. \A u \in Working("tx") : got'[u] = got[u]
    <3>1. CASE Wrote(t)
      BY <3>1 DEF Wrote, Working, TypeInv, TypeOK
    <3>2. CASE ~Wrote(t)
      BY <1>1, <3>2 DEF Call, Take, Look, Give, EnableRx, Drained, Complete, Reset, locals
    <3>3. QED
      BY <3>1, <3>2
  <2>4. \A u \in Thread : pc'[u] = "complete" => txq' = <<>> \/ pc[u] = "complete"
    <3> USE DEF TypeInv, TypeOK
    <3>1. CASE Drained(t)
      BY <3>1 DEF Drained, txRing
    <3>2. CASE Give(t)
      BY <3>2 DEF Give, After
    <3>3. CASE ~Drained(t) /\ ~Give(t)
      BY <1>1, <3>3 DEF Call, Take, Look, Wrote, EnableRx, Complete, Reset, NextOrReturn, Goto
    <3>4. QED
      BY <3>1, <3>2, <3>3
  <2>5. QED
    BY <2>1, <2>2, <2>3, <2>4, WriteKept DEF Out
<1>2. ASSUME NEW t \in Thread, GetClaim(t) \/ GetFinish(t)
      PROVE  WriteInv'
  <2>1. Working("tx")' = Working("tx")
    BY <1>2 DEF GetClaim, GetFinish, Goto, Working, RingOf, TxOp, TypeInv, TypeOK
  <2>2. /\ UNCHANGED <<claimed, written, sent, txFifo, txq>>
        /\ "tx" \in overlap => "tx" \in overlap'
    BY <1>2 DEF GetClaim, GetFinish, Contend, txRing, uart
  <2>3. \A u \in Working("tx") : got'[u] = got[u]
    BY <1>2 DEF GetClaim, GetFinish, Working, RingOf, TxOp, TypeInv, TypeOK
  <2>4. \A u \in Thread : pc'[u] = "complete" => pc[u] = "complete"
    BY <1>2 DEF GetClaim, GetFinish, Goto, TypeInv, TypeOK
  <2>5. QED
    BY <2>1, <2>2, <2>3, <2>4, WriteKept DEF Out
<1>3. CASE IrqHandler
  <2>1. PICK n \in 0 .. Len(txq) :
          /\ txFifo' = txFifo \o First(n, txq)
          /\ txq' = SubSeq(txq, n + 1, Len(txq))
          /\ UNCHANGED <<claimed, locals, written, sent, overlap>>
    BY <1>3 DEF IrqHandler
  <2>2. Out' = Out /\ \A t \in Thread : Own(txq, t) = {} => Own(txq', t) = {}
    BY <2>1, OutOnIrq
  <2>3. Working("tx")' = Working("tx")
    BY <1>3, WorkingOnIrq DEF Ring
  <2>4. \A u \in Thread : pc'[u] = "complete" => pc[u] = "complete"
    BY <1>3 DEF IrqHandler
  <2>5. QED
    BY <2>1, <2>2, <2>3, <2>4, WriteKept DEF locals
<1>4. CASE Transmit
  <2>1. UNCHANGED <<claimed, written, got, overlap, pc, op, txq>>
    BY <1>4 DEF Transmit, txRing, locals
  <2>2. Working("tx")' = Working("tx")
    BY <2>1 DEF Working
  <2>3. QED
    BY <1>4, <2>1, <2>2, OutOnTransmit, WriteKept
<1>5. CASE Arrive \/ UNCHANGED vars
  <2>1. UNCHANGED <<claimed, written, got, overlap, pc, op, txq, sent, txFifo>>
    BY <1>5 DEF Arrive, vars, txRing, uart, locals, log
  <2>2. Working("tx")' = Working("tx") /\ Out' = Out
    BY <2>1 DEF Working, Out
  <2>3. QED
    BY <2>1, <2>2, WriteKept
<1>6. ASSUME NEW t \in Thread, Write(t) \/ \E o \in Operation \ {"write"} : Call(t, o, 0)
      PROVE  \E o \in Operation, size \in Nat : Call(t, o, size)
  BY <1>6, WriteIsCall
<1>7. QED
  BY <1>1, <1>2, <1>3, <1>4, <1>5, <1>6, PutClaimWrite, PutFinishWrite DEF Next, ThreadStep

LEMMA InitWrite == Init => WriteInv
<1> SUFFICES ASSUME Init PROVE WriteInv
  OBVIOUS
<1>1. Working("tx") = {} /\ claimed = <<>>
  BY DEF Init, Working
<1>2. Out = <<>>
  BY DEF Init, Out
<1>3. \A t \in Thread : Own(Out, t) = {} /\ Numbers(Out, t) = {} /\ 1 .. written[t] = {}
  <2>1. \A t \in Thread : Own(Out, t) = {}
    BY <1>2 DEF Own
  <2>2. \A t \in Thread : Numbers(Out, t) = {}
    BY <2>1 DEF Numbers
  <2>3. \A t \in Thread : written[t] = 0
    BY DEF Init
  <2>4. 1 .. 0 = {}
    OBVIOUS
  <2>5. QED
    BY <2>1, <2>2, <2>3, <2>4
<1>4. Delivered
  BY <1>3 DEF Delivered
<1>5. Passed
  BY DEF Init, Passed
<1>6. QED
  BY <1>1, <1>4, <1>5 DEF WriteInv, Claiming, Alone

\* What write takes off its buffer goes out in order, each byte once, for any
\* number of writers and any sizes of ring and UART, as long as the interrupt
\* has not let a second thread work on the ring.
THEOREM SerialWrites == Spec => []WrittenOnceInOrder
<1> DEFINE IInv == TypeInv /\ WriteInv
<1>1. Init => IInv
  BY InitType, InitWrite
<1>2. IInv /\ [Next]_vars => IInv'
  BY NextTypes, NextWrite
<1>3. IInv => WrittenOnceInOrder
  BY DEF WriteInv, Delivered, WrittenOnceInOrder
<1> HIDE DEF IInv
<1>4. QED
  BY <1>1, <1>2, <1>3, PTL DEF Spec

LEMMA FlushStep ==
  ASSUME TypeInv, CallPlace, WriteInv, [Next]_vars,
         NEW t \in Thread, pc[t] = "complete", pc'[t] = "idle", "tx" \notin overlap
  PROVE  Numbers(sent, t) = 1 .. written[t]
<1>1. Complete(t)
  <2> USE DEF TypeInv, TypeOK
  <2>1. ASSUME NEW u \in Thread, NEW o \in Operation, NEW size, Call(u, o, size) PROVE FALSE
    BY <2>1 DEF Call, Goto
  <2>2. ASSUME NEW u \in Thread, ThreadStep(u) PROVE u = t /\ Complete(u)
    <3>1. CASE Give(u)
      BY <3>1 DEF Give
    <3>2. CASE ~Give(u)
      BY <2>2, <3>2 DEF ThreadStep, Take, PutClaim, PutFinish, GetClaim, GetFinish, Look, Reset,
                        Wrote, EnableRx, Drained, Complete, NextOrReturn, Goto
    <3>3. QED
      BY <3>1, <3>2
  <2>3. ASSUME IrqHandler PROVE FALSE
    BY <2>3 DEF IrqHandler
  <2>4. ASSUME Transmit \/ Arrive \/ UNCHANGED vars PROVE FALSE
    BY <2>4 DEF Transmit, Arrive, vars
  <2>5. QED
    BY <2>1, <2>2, <2>3, <2>4 DEF Next, Write, Operation, TxOp
<1>2. txFifo = <<>> /\ Own(txq, t) = {} /\ Numbers(Out, t) = 1 .. written[t]
  BY <1>1 DEF Complete, WriteInv, Passed, Delivered
<1>3. sent \in Seq(Byte) /\ txq \in Seq(Byte) /\ Joins(Out, sent, txq)
  BY <1>2, ConcatEmptySeq DEF Out, Joins, TypeInv, TypeOK
<1>4. Numbers(Out, t) = Numbers(sent, t)
  <2>1. Numbers(txq, t) = {}
    BY <1>2 DEF Numbers
  <2>2. Numbers(Out, t) = Numbers(sent, t) \union Numbers(txq, t)
    BY <1>3, OwnOfConcat
  <2>3. QED
    BY <2>1, <2>2
<1>5. QED
  BY <1>2, <1>4

\* When flush returns, all that its thread has written is on the wire, although
\* it looks at ring and UART one after the other and without the semaphore.
THEOREM SerialFlush == Spec => FlushedIsSent
<1> DEFINE IInv == TypeInv /\ CallPlace /\ WriteInv
<1>1. Init => IInv
  BY InitType, InitWrite DEF Init, CallPlace
<1>2. IInv /\ [Next]_vars => IInv'
  BY NextTypes, NextPlace, NextWrite
<1>3. IInv /\ [Next]_vars =>
        [\A t \in Thread : pc[t] = "complete" /\ pc'[t] = "idle" /\ "tx" \notin overlap
           => Numbers(sent, t) = 1 .. written[t]]_vars
  BY FlushStep
<1> HIDE DEF IInv
<1>4. QED
  BY <1>1, <1>2, <1>3, PTL DEF Spec, FlushedIsSent
=============================================================================
