------------------------- MODULE ZephyrSerialProofs -------------------------
(***************************************************************************)
(* Proofs about ZephyrSerial, for any number of threads, any sizes of the  *)
(* rings and of the UART and any amount of data.                           *)
(***************************************************************************)
EXTENDS ZephyrSerial, SequenceTheorems, TLAPS

USE SerialAssumption

-----------------------------------------------------------------------------
(* Types *)

\* A put in progress has claimed no more than the thread has left to write.
ClaimInCall ==
  \A t \in Thread : pc[t] = "finish" /\ op[t] = "write" => got[t] <= left[t]

TypeInv == TypeOK /\ ClaimInCall

LEMMA LeastType ==
  ASSUME NEW a \in Nat, NEW b \in Nat
  PROVE  Least(a, b) \in Nat /\ Least(a, b) <= a /\ Least(a, b) <= b
BY DEF Least

LEMMA FirstType ==
  ASSUME NEW S, NEW q \in Seq(S), NEW n \in Nat
  PROVE  /\ First(n, q) \in Seq(S)
         /\ Len(First(n, q)) <= n /\ Len(First(n, q)) <= Len(q)
<1>1. Least(n, Len(q)) \in 0 .. Len(q) /\ Least(n, Len(q)) <= n
  <2>1. Len(q) \in Nat
    OBVIOUS
  <2>2. QED
    BY <2>1 DEF Least
<1>2. QED
  BY <1>1, SubSeqProperties DEF First

LEMMA RestType ==
  ASSUME NEW S, NEW q \in Seq(S), NEW n \in 0 .. Len(q)
  PROVE  /\ SubSeq(q, n + 1, Len(q)) \in Seq(S)
         /\ Len(SubSeq(q, n + 1, Len(q))) = Len(q) - n
BY SubSeqProperties

LEMMA AppendedType ==
  ASSUME NEW S, NEW p \in Seq(S), NEW q \in Seq(S)
  PROVE  p \o q \in Seq(S) /\ Len(p \o q) = Len(p) + Len(q)
BY ConcatProperties

LEMMA InitType == Init => TypeInv
<1> SUFFICES ASSUME Init PROVE TypeInv
  OBVIOUS
<1>1. \A S : <<>> \in Seq(S) /\ Len(<<>>) = 0
  OBVIOUS
<1>2. ClaimInCall
  BY DEF Init, ClaimInCall
<1>3. /\ txq \in Seq(Byte) /\ claimed \in Seq(Byte) /\ Len(txq) + Len(claimed) <= TxCap
      /\ rxq \in Seq(Arrival) /\ taken \in 0 .. Len(rxq) /\ Len(rxq) <= RxCap
      /\ txFifo \in Seq(Byte) /\ Len(txFifo) <= FifoCap
      /\ rxFifo \in Seq(Arrival) /\ Len(rxFifo) <= FifoCap
      /\ sent \in Seq(Byte)
  BY <1>1 DEF Init
<1>4. /\ written \in [Thread -> Nat]
      /\ \A t \in Thread : written[t] + left[t] <= MaxSent[t]
  BY DEF Init
<1>5. /\ sem \in [Ring -> {0, 1}] /\ txIrq \in BOOLEAN /\ rxIrq \in BOOLEAN
      /\ pc \in [Thread -> {"idle", "take", "wait", "inside", "finish", "give",
                            "wrote", "enable", "drain", "complete"}]
      /\ op \in [Thread -> Operation \union {"none"}]
  BY DEF Init
<1>6. /\ left \in [Thread -> Nat] /\ got \in [Thread -> Nat]
      /\ byte \in [Thread -> Arrival \union {NoByte}]
      /\ arrived \in 0 .. MaxArrived
      /\ lastRead \in Arrival \union {NoByte}
      /\ overlap \in SUBSET Ring /\ stolen \in SUBSET Ring
  BY DEF Init
<1>7. QED
  BY <1>2, <1>3, <1>4, <1>5, <1>6 DEF TypeInv, TypeOK

LEMMA CallTypes ==
  ASSUME TypeInv, NEW t \in Thread, NEW o \in Operation, NEW size \in Nat,
         written[t] + size <= MaxSent[t], Call(t, o, size)
  PROVE  TypeInv'
<1> USE DEF TypeInv, TypeOK, ClaimInCall, Call, Goto, txRing, rxRing, uart, log
<1>1. \A u \in Thread : written'[u] + left'[u] <= MaxSent[u]
  OBVIOUS
<1>2. ClaimInCall'
  OBVIOUS
<1>3. op' \in [Thread -> Operation \union {"none"}] /\ left' \in [Thread -> Nat]
  OBVIOUS
<1>4. QED
  BY <1>1, <1>2, <1>3

\* The claim has room in the ring, and its bytes are the next ones of the call.
LEMMA PutClaimTypes ==
  ASSUME TypeInv, NEW t \in Thread, PutClaim(t)
  PROVE  TypeInv'
<1> USE DEF TypeInv, TypeOK, ClaimInCall
<1> DEFINE n == Least(left[t], TxCap - Len(txq) - Len(claimed))
<1> DEFINE new == [i \in 1 .. n |-> [by |-> t, n |-> written[t] + i]]
<1>0. TxCap - Len(txq) - Len(claimed) \in Nat
  OBVIOUS
<1>1. n \in Nat /\ n <= left[t] /\ n <= TxCap - Len(txq) - Len(claimed)
  BY <1>0, LeastType
<1> HIDE DEF n
<1>2. \A i \in 1 .. n : [by |-> t, n |-> written[t] + i] \in Byte
  <2>1. \A i \in 1 .. n : written[t] + i \in Nat \ {0} /\ written[t] + i <= MaxSent[t]
    <3>1. /\ written[t] \in Nat /\ left[t] \in Nat /\ MaxSent[t] \in Nat
          /\ written[t] + left[t] <= MaxSent[t]
      OBVIOUS
    <3> HIDE DEF TypeInv, TypeOK, ClaimInCall
    <3>2. QED
      BY <1>1, <3>1
  <2>2. QED
    BY <2>1 DEF Byte
<1>3. new \in Seq(Byte) /\ Len(new) = n
  BY <1>1, <1>2
<1>4. claimed' = claimed \o new /\ got' = [got EXCEPT ![t] = n]
  BY DEF PutClaim, n
<1> HIDE DEF new
<1>5. claimed' \in Seq(Byte) /\ Len(claimed') = Len(claimed) + n
  BY <1>3, <1>4, AppendedType
<1>6. Len(txq') + Len(claimed') <= TxCap
  <2>1. txq' = txq
    BY DEF PutClaim
  <2>2. QED
    BY <1>1, <1>5, <2>1
<1>7. ClaimInCall'
  BY <1>1, <1>4 DEF PutClaim, Goto
<1>8. overlap' \in SUBSET Ring
  BY DEF PutClaim, Contend, Ring
<1>9. got' \in [Thread -> Nat]
  BY <1>1, <1>4
<1>10. QED
  BY <1>5, <1>6, <1>7, <1>8, <1>9 DEF PutClaim, Goto, rxRing, uart

LEMMA PutFinishTypes ==
  ASSUME TypeInv, NEW t \in Thread, PutFinish(t)
  PROVE  TypeInv'
<1> USE DEF TypeInv, TypeOK, ClaimInCall
<1>1. txq' \in Seq(Byte) /\ claimed' \in Seq(Byte) /\ Len(txq') + Len(claimed') <= TxCap
  <2>1. CASE got[t] <= Len(claimed)
    <3>1. /\ First(got[t], claimed) \in Seq(Byte)
          /\ Len(First(got[t], claimed)) <= Len(claimed)
      BY FirstType
    <3>2. txq' = txq \o First(got[t], claimed) /\ claimed' = <<>>
      BY <2>1 DEF PutFinish
    <3>3. QED
      BY <3>1, <3>2, AppendedType
  <2>2. CASE ~(got[t] <= Len(claimed))
    BY <2>2 DEF PutFinish, txRing
  <2>3. QED
    BY <2>1, <2>2
<1>2. got[t] <= left[t]
  BY DEF PutFinish
<1>3. /\ left' \in [Thread -> Nat] /\ written' \in [Thread -> Nat]
      /\ \A u \in Thread : written'[u] + left'[u] <= MaxSent[u]
  <2>1. got[t] \in Nat /\ left[t] - got[t] \in Nat /\ written[t] + got[t] \in Nat
    BY <1>2, SMTT(60)
  <2>2. /\ left' = [left EXCEPT ![t] = left[t] - got[t]]
        /\ written' = [written EXCEPT ![t] = written[t] + got[t]]
    BY DEF PutFinish
  <2>3. left' \in [Thread -> Nat] /\ written' \in [Thread -> Nat]
    BY <2>1, <2>2
  <2>4. (written[t] + got[t]) + (left[t] - got[t]) = written[t] + left[t]
    <3>1. written[t] \in Nat /\ got[t] \in Nat /\ left[t] \in Nat
      OBVIOUS
    <3> HIDE DEF TypeInv, TypeOK, ClaimInCall
    <3>2. QED
      BY <3>1
  <2>5. \A u \in Thread : written'[u] + left'[u] = written[u] + left[u]
    <3>1. written'[t] = written[t] + got[t] /\ left'[t] = left[t] - got[t]
      BY <2>2
    <3>2. \A u \in Thread \ {t} : written'[u] = written[u] /\ left'[u] = left[u]
      BY <2>2
    <3>3. QED
      BY <2>4, <3>1, <3>2
  <2>6. QED
    BY <2>3, <2>5
<1>4. ClaimInCall'
  BY DEF PutFinish, Goto
<1>5. QED
  BY <1>1, <1>3, <1>4 DEF PutFinish, Goto, rxRing, uart

LEMMA GetClaimTypes ==
  ASSUME TypeInv, NEW t \in Thread, GetClaim(t)
  PROVE  TypeInv'
<1> USE DEF TypeInv, TypeOK, ClaimInCall
<1>1. taken' \in 0 .. Len(rxq) /\ got' \in [Thread -> Nat]
  BY SMTT(60) DEF GetClaim
<1>2. byte' \in [Thread -> Arrival \union {NoByte}]
  <2>1. taken < Len(rxq) => rxq[taken + 1] \in Arrival
    OBVIOUS
  <2>2. QED
    BY <2>1 DEF GetClaim
<1>3. overlap' \in SUBSET Ring
  BY DEF GetClaim, Contend, Ring
<1>4. ClaimInCall'
  BY DEF GetClaim, Goto
<1>5. QED
  BY <1>1, <1>2, <1>3, <1>4 DEF GetClaim, Goto, txRing, uart

LEMMA GetFinishTypes ==
  ASSUME TypeInv, NEW t \in Thread, GetFinish(t)
  PROVE  TypeInv'
<1> USE DEF TypeInv, TypeOK, ClaimInCall
<1> DEFINE n == IF op[t] = "read" THEN got[t] ELSE 0
<1>1. rxq' \in Seq(Arrival) /\ taken' \in 0 .. Len(rxq') /\ Len(rxq') <= RxCap
  <2>1. CASE n <= taken
    <3>1. n \in 0 .. Len(rxq)
      BY <2>1
    <3>2. rxq' = SubSeq(rxq, n + 1, Len(rxq)) /\ taken' = 0
      BY <2>1 DEF GetFinish
    <3> HIDE DEF n
    <3>3. QED
      BY <3>1, <3>2, RestType, SMTT(60)
  <2>2. CASE ~(n <= taken)
    BY <2>2 DEF GetFinish, rxRing
  <2>3. QED
    BY <2>1, <2>2
<1>2. /\ got' \in [Thread -> Nat]
      /\ byte' \in [Thread -> Arrival \union {NoByte}]
      /\ lastRead' \in Arrival \union {NoByte}
  BY DEF GetFinish, NoByte
<1>3. ClaimInCall'
  BY DEF GetFinish, Goto
<1>4. QED
  BY <1>1, <1>2, <1>3 DEF GetFinish, Goto, txRing, uart

LEMMA GiveTypes ==
  ASSUME TypeInv, NEW t \in Thread, Give(t)
  PROVE  TypeInv'
<1> USE DEF TypeInv, TypeOK, ClaimInCall
<1>1. PICK w \in Thread \union {NoThread} :
        /\ Wakes(RingOf(op[t]), w)
        /\ pc' = [u \in Thread |-> IF u = t THEN After(op[t])
                                   ELSE IF u = w THEN "inside" ELSE pc[u]]
        /\ sem' = [sem EXCEPT ![RingOf(op[t])] = IF w = NoThread THEN 1 ELSE @]
        /\ op' = [op EXCEPT ![t] = IF After(@) = "idle" THEN "none" ELSE @]
        /\ UNCHANGED <<txRing, rxRing, uart, locals, log>>
  BY DEF Give
<1>2. After(op[t]) \in {"wrote", "enable", "idle"}
  BY DEF After
<1>3. pc' \in [Thread -> {"idle", "take", "wait", "inside", "finish", "give",
                          "wrote", "enable", "drain", "complete"}]
  BY <1>1, <1>2
<1>4. sem' \in [Ring -> {0, 1}] /\ op' \in [Thread -> Operation \union {"none"}]
  BY <1>1
<1>5. ClaimInCall'
  BY <1>1, <1>2 DEF locals
<1>6. QED
  BY <1>1, <1>3, <1>4, <1>5 DEF txRing, rxRing, uart, locals, log

\* The thread steps that touch neither the tx ring nor the data of a read.
LEMMA SmallStepTypes ==
  ASSUME TypeInv, NEW t \in Thread,
         \/ Take(t) \/ Look(t) \/ Reset(t) \/ Wrote(t) \/ EnableRx(t)
         \/ Drained(t) \/ Complete(t)
  PROVE  TypeInv'
<1> USE DEF TypeInv, TypeOK, ClaimInCall, Goto, NextOrReturn,
            txRing, rxRing, uart, locals, log
<1>1. CASE Take(t)
  BY <1>1 DEF Take
<1>2. CASE Look(t)
  BY <1>2 DEF Look
<1>3. CASE Reset(t)
  <2>0. <<>> \in Seq(Arrival) /\ Len(<<>>) = 0
    OBVIOUS
  <2>1. rxq' \in Seq(Arrival) /\ Len(rxq') = 0 /\ taken' = 0
    BY <1>3, <2>0 DEF Reset
  <2>2. overlap' \in SUBSET Ring
    BY <1>3 DEF Reset, Contend, Ring
  <2>3. QED
    BY <1>3, <2>1, <2>2, SMTT(60) DEF Reset
<1>4. CASE Wrote(t)
  BY <1>4 DEF Wrote
<1>5. CASE EnableRx(t)
  BY <1>5 DEF EnableRx
<1>6. CASE Drained(t)
  BY <1>6 DEF Drained
<1>7. CASE Complete(t)
  BY <1>7 DEF Complete
<1>8. QED
  BY <1>1, <1>2, <1>3, <1>4, <1>5, <1>6, <1>7

\* The interrupt moves what fits; the rest of rx is dropped, of tx it stays.
LEMMA IrqTypes ==
  ASSUME TypeInv, IrqHandler
  PROVE  TypeInv'
<1> USE DEF TypeInv, TypeOK, ClaimInCall
<1>1. PICK n \in 0 .. Len(txq), w \in [Ring -> Thread \union {NoThread}] :
        /\ Accepted(n)
        /\ rxq' = rxq \o First(RxCap - Len(rxq), rxFifo)
        /\ rxFifo' = <<>>
        /\ txIrq' = (txIrq /\ txq # <<>>)
        /\ txFifo' = txFifo \o First(n, txq)
        /\ txq' = SubSeq(txq, n + 1, Len(txq))
        /\ pc' = [t \in Thread |-> IF \E r \in Ring : w[r] = t THEN "inside" ELSE pc[t]]
        /\ sem' = [r \in Ring |-> IF w[r] = NoThread THEN 1 ELSE sem[r]]
        /\ stolen' = stolen \union {r \in Ring : Holders(r) # {}}
        /\ UNCHANGED <<claimed, taken, rxIrq, op, locals, written, sent, arrived, lastRead, overlap>>
  BY DEF IrqHandler
<1>2. rxq' \in Seq(Arrival) /\ Len(rxq') <= RxCap /\ taken' \in 0 .. Len(rxq')
  <2>1. RxCap - Len(rxq) \in Nat
    OBVIOUS
  <2>2. /\ First(RxCap - Len(rxq), rxFifo) \in Seq(Arrival)
        /\ Len(First(RxCap - Len(rxq), rxFifo)) <= RxCap - Len(rxq)
    BY <2>1, FirstType
  <2>3. /\ rxq' \in Seq(Arrival)
        /\ Len(rxq') = Len(rxq) + Len(First(RxCap - Len(rxq), rxFifo))
    BY <1>1, <2>2, AppendedType
  <2>4. taken' = taken
    BY <1>1
  <2>5. Len(First(RxCap - Len(rxq), rxFifo)) \in Nat
    BY <2>2
  <2>6. QED
    BY <2>2, <2>3, <2>4, <2>5
<1>3. txq' \in Seq(Byte) /\ claimed' \in Seq(Byte) /\ Len(txq') + Len(claimed') <= TxCap
  <2>1. txq' \in Seq(Byte) /\ Len(txq') = Len(txq) - n
    BY <1>1, RestType
  <2>2. claimed' = claimed
    BY <1>1
  <2>3. QED
    BY <2>1, <2>2
<1>4. txFifo' \in Seq(Byte) /\ Len(txFifo') <= FifoCap
  <2>1. n \in Nat /\ FifoCap - Len(txFifo) \in Nat
    OBVIOUS
  <2>2. n <= FifoCap - Len(txFifo)
    BY <1>1, <2>1 DEF Accepted, Least
  <2>3. First(n, txq) \in Seq(Byte) /\ Len(First(n, txq)) <= n
    BY <2>1, FirstType
  <2>4. txFifo' \in Seq(Byte) /\ Len(txFifo') = Len(txFifo) + Len(First(n, txq))
    BY <1>1, <2>3, AppendedType
  <2>5. Len(First(n, txq)) \in Nat
    BY <2>3
  <2>6. QED
    BY <2>1, <2>2, <2>3, <2>4, <2>5
<1>5. /\ pc' \in [Thread -> {"idle", "take", "wait", "inside", "finish", "give",
                             "wrote", "enable", "drain", "complete"}]
      /\ sem' \in [Ring -> {0, 1}]
  BY <1>1
<1>6. ClaimInCall'
  BY <1>1 DEF locals
<1>7. rxFifo' \in Seq(Arrival) /\ Len(rxFifo') <= FifoCap
  BY <1>1
<1>8. txIrq' \in BOOLEAN /\ rxIrq' \in BOOLEAN /\ stolen' \in SUBSET Ring
  BY <1>1
<1>9. QED
  BY <1>1, <1>2, <1>3, <1>4, <1>5, <1>6, <1>7, <1>8 DEF locals

LEMMA LineTypes ==
  ASSUME TypeInv, Transmit \/ Arrive
  PROVE  TypeInv'
<1> USE DEF TypeInv, TypeOK, ClaimInCall, locals, txRing, rxRing
<1>1. CASE Transmit
  <2>1. Head(txFifo) \in Byte /\ Tail(txFifo) \in Seq(Byte)
        /\ Len(Tail(txFifo)) = Len(txFifo) - 1
    BY <1>1, HeadTailProperties DEF Transmit
  <2>2. sent' \in Seq(Byte) /\ txFifo' \in Seq(Byte) /\ Len(txFifo') <= FifoCap
    BY <1>1, <2>1 DEF Transmit
  <2>3. QED
    BY <1>1, <2>2 DEF Transmit
<1>2. CASE Arrive
  <2>1. arrived' \in Arrival /\ arrived' \in 0 .. MaxArrived
    BY <1>2 DEF Arrive, Arrival
  <2>2. rxFifo' \in Seq(Arrival) /\ Len(rxFifo') <= FifoCap
    BY <1>2, <2>1 DEF Arrive
  <2>3. QED
    BY <1>2, <2>1, <2>2 DEF Arrive
<1>3. QED
  BY <1>1, <1>2

LEMMA NextTypes == TypeInv /\ [Next]_vars => TypeInv'
<1> SUFFICES ASSUME TypeInv, [Next]_vars PROVE TypeInv'
  OBVIOUS
<1>1. ASSUME NEW t \in Thread, Write(t) PROVE TypeInv'
  <2>1. PICK size \in 1 .. MaxSent[t] - written[t] : Call(t, "write", size)
    BY <1>1 DEF Write
  <2>2. size \in Nat /\ written[t] + size <= MaxSent[t]
    <3>1. written[t] \in Nat /\ MaxSent[t] \in Nat
      BY DEF TypeInv, TypeOK
    <3>2. QED
      BY <3>1
  <2>3. "write" \in Operation
    BY DEF Operation, TxOp
  <2>4. QED
    BY <2>1, <2>2, <2>3, CallTypes
<1>2. ASSUME NEW t \in Thread, NEW o \in Operation \ {"write"}, Call(t, o, 0) PROVE TypeInv'
  <2>1. written[t] + 0 <= MaxSent[t]
    BY DEF TypeInv, TypeOK
  <2>2. QED
    BY <1>2, <2>1, CallTypes
<1>3. ASSUME NEW t \in Thread, ThreadStep(t) PROVE TypeInv'
  BY <1>3, PutClaimTypes, PutFinishTypes, GetClaimTypes, GetFinishTypes,
     GiveTypes, SmallStepTypes DEF ThreadStep
<1>4. CASE IrqHandler
  BY <1>4, IrqTypes
<1>5. CASE Transmit \/ Arrive
  BY <1>5, LineTypes
<1>6. CASE UNCHANGED vars
  BY <1>6 DEF vars, txRing, rxRing, uart, locals, log, TypeInv, TypeOK, ClaimInCall
<1>7. QED
  BY <1>1, <1>2, <1>3, <1>4, <1>5, <1>6 DEF Next

\* Every variable has its type; the rings, the UART and the semaphores keep
\* their bounds, and no call writes more than it was given.
THEOREM SerialTypes == Spec => []TypeOK
<1>1. Init => TypeInv
  BY InitType
<1>2. TypeInv /\ [Next]_vars => TypeInv'
  BY NextTypes
<1>3. TypeInv => TypeOK
  BY DEF TypeInv
<1>4. QED
  BY <1>1, <1>2, <1>3, PTL DEF Spec

-----------------------------------------------------------------------------
(* Exclusion *)

\* Until the interrupt has given the semaphore of a ring over the head of its
\* holder, at most one thread is between take and give, none if it is free.
OneHolder ==
  \A r \in Ring : r \notin stolen =>
    /\ sem[r] = 1 => Holders(r) = {}
    /\ \A t, u \in Holders(r) : t = u

\* A free semaphore has no waiter: k_sem_give hands it on.
FreeHasNoWaiter == \A r \in Ring : sem[r] = 1 => Waiters(r) = {}

OverlapInv == OneHolder /\ OverlapByInterrupt

\* The ring of a call does not change while it runs.
LEMMA RingOfType == \A o : RingOf(o) \in Ring
BY DEF RingOf, Ring

\* A step that makes no thread a holder, gives nothing and marks nothing.
LEMMA OneHolderKept ==
  ASSUME OneHolder, UNCHANGED <<sem, stolen>>,
         \A r \in Ring : Holders(r)' \subseteq Holders(r)
  PROVE  OneHolder'
BY DEF OneHolder

\* A thread that works on a ring beside another does so in a stolen ring.
LEMMA ContendStolen ==
  ASSUME OverlapInv, NEW t \in Thread, NEW r \in Ring, t \in Holders(r),
         Contend(t, r), UNCHANGED stolen
  PROVE  OverlapByInterrupt'
<1>1. Working(r) \subseteq Holders(r)
  BY DEF Working, Holders
<1>2. Working(r) \ {t} # {} => r \in stolen
  BY <1>1 DEF OverlapInv, OneHolder
<1>3. QED
  BY <1>2 DEF OverlapInv, OverlapByInterrupt, Contend

LEMMA CallOverlap ==
  ASSUME TypeInv, OverlapInv, NEW t \in Thread, NEW o \in Operation, NEW size,
         Call(t, o, size)
  PROVE  OverlapInv'
<1>1. \A r \in Ring : Holders(r)' \subseteq Holders(r)
  BY DEF TypeInv, TypeOK, Call, Goto, Holders
<1>2. QED
  BY <1>1, OneHolderKept DEF OverlapInv, OverlapByInterrupt, Call, log

LEMMA TakeOverlap ==
  ASSUME TypeInv, OverlapInv, NEW t \in Thread, Take(t)
  PROVE  OverlapInv'
<1> USE DEF TypeInv, TypeOK, OverlapInv
<1>1. CASE sem[RingOf(op[t])] = 1 /\ sem' = [sem EXCEPT ![RingOf(op[t])] = 0] /\ Goto(t, "inside")
  <2> DEFINE s == RingOf(op[t])
  <2>1. \A r \in Ring : Holders(r)' = Holders(r) \union (IF r = s THEN {t} ELSE {})
    BY <1>1 DEF Take, Goto, Holders
  <2>2. s \in Ring
    BY RingOfType
  <2>3. sem'[s] = 0 /\ \A r \in Ring \ {s} : sem'[r] = sem[r]
    BY <1>1, <2>2
  <2> HIDE DEF s
  <2>4. s \notin stolen => Holders(s) = {}
    BY <1>1, <2>2 DEF OneHolder, s
  <2>5. stolen' = stolen /\ overlap' = overlap
    BY DEF Take, log
  <2>6. OneHolder'
    <3> SUFFICES ASSUME NEW r \in Ring, r \notin stolen
                 PROVE  /\ sem'[r] = 1 => Holders(r)' = {}
                        /\ \A v, u \in Holders(r)' : v = u
      BY <2>5 DEF OneHolder
    <3>1. CASE r = s
      <4>1. Holders(r)' = {t} /\ sem'[r] = 0
        BY <2>1, <2>3, <2>4, <3>1
      <4>2. QED
        BY <4>1
    <3>2. CASE r # s
      <4>1. sem'[r] = sem[r] /\ Holders(r)' = Holders(r)
        BY <2>1, <2>3, <3>2
      <4>2. QED
        BY <4>1 DEF OneHolder
    <3>3. QED
      BY <3>1, <3>2
  <2>7. QED
    BY <2>5, <2>6 DEF OverlapByInterrupt
<1>2. CASE Goto(t, "wait") /\ UNCHANGED sem
  <2>1. \A r \in Ring : Holders(r)' \subseteq Holders(r)
    BY <1>2 DEF Take, Goto, Holders
  <2>2. QED
    BY <1>2, <2>1, OneHolderKept DEF OverlapByInterrupt, Take, log
<1>3. QED
  BY <1>1, <1>2 DEF Take

\* The steps on a ring, all of a thread that holds its semaphore.
LEMMA InsideOverlap ==
  ASSUME TypeInv, OverlapInv, NEW t \in Thread,
         \/ PutClaim(t) \/ PutFinish(t) \/ GetClaim(t) \/ GetFinish(t)
         \/ Look(t) \/ Reset(t)
  PROVE  OverlapInv'
<1> USE DEF TypeInv, TypeOK, PutClaim, PutFinish, GetClaim, GetFinish, Look, Reset, Goto, log
<1>1. \A r \in Ring : Holders(r)' \subseteq Holders(r)
  BY DEF Holders
<1>2. UNCHANGED <<sem, stolen>>
  OBVIOUS
<1>3. OneHolder'
  BY <1>1, <1>2, OneHolderKept DEF OverlapInv
<1>4. CASE PutClaim(t)
  <2>1. "tx" \in Ring /\ t \in Holders("tx") /\ Contend(t, "tx")
    BY <1>4 DEF Holders, RingOf, TxOp, Ring
  <2>2. QED
    BY <1>2, <1>3, <2>1, ContendStolen DEF OverlapInv
<1>5. CASE GetClaim(t) \/ Reset(t)
  <2>1. "rx" \in Ring /\ t \in Holders("rx") /\ Contend(t, "rx")
    BY <1>5 DEF Holders, RingOf, TxOp, Ring
  <2>2. QED
    BY <1>2, <1>3, <2>1, ContendStolen DEF OverlapInv
<1>6. CASE PutFinish(t) \/ GetFinish(t) \/ Look(t)
  BY <1>3, <1>6 DEF OverlapInv, OverlapByInterrupt
<1>7. QED
  BY <1>4, <1>5, <1>6

\* The semaphore passes from its holder to one waiter, or becomes free.
LEMMA GiveOverlap ==
  ASSUME TypeInv, OverlapInv, NEW t \in Thread, Give(t)
  PROVE  OverlapInv'
<1> USE DEF TypeInv, TypeOK, OverlapInv
<1> DEFINE s == RingOf(op[t])
<1>1. PICK w \in Thread \union {NoThread} :
        /\ pc[t] = "give"
        /\ Wakes(s, w)
        /\ pc' = [u \in Thread |-> IF u = t THEN After(op[t])
                                   ELSE IF u = w THEN "inside" ELSE pc[u]]
        /\ sem' = [sem EXCEPT ![s] = IF w = NoThread THEN 1 ELSE @]
        /\ op' = [op EXCEPT ![t] = IF After(@) = "idle" THEN "none" ELSE @]
        /\ UNCHANGED <<txRing, rxRing, uart, locals, log>>
  BY DEF Give
<1>2. s \in Ring /\ t \in Holders(s)
  BY <1>1, RingOfType DEF Holders
<1>3. \A r \in Ring : Holders(r)' \subseteq
        (Holders(r) \ {t}) \union (IF r = s THEN {w} \ {NoThread} ELSE {})
  <2>1. After(op[t]) \in {"wrote", "enable", "idle"}
    BY DEF After
  <2>2. w # NoThread => w \in Thread /\ pc[w] = "wait" /\ RingOf(op[w]) = s
    BY <1>1 DEF Wakes, Waiters
  <2> HIDE DEF s
  <2>3. QED
    BY <1>1, <2>1, <2>2 DEF Holders
<1>4. /\ w = NoThread => sem'[s] = 1
      /\ w # NoThread => sem'[s] = sem[s]
      /\ \A r \in Ring \ {s} : sem'[r] = sem[r]
  BY <1>1, <1>2
<1>5. stolen' = stolen /\ overlap' = overlap
  BY <1>1 DEF log
<1> HIDE DEF s, TypeInv, TypeOK
<1>6. ASSUME s \notin stolen
      PROVE  Holders(s) \ {t} = {} /\ sem[s] # 1
  <2>1. sem[s] = 1 => Holders(s) = {}
    BY <1>2, <1>6 DEF OneHolder
  <2>2. \A u \in Holders(s) : u = t
    BY <1>2, <1>6 DEF OneHolder
  <2>3. QED
    BY <1>2, <2>1, <2>2
<1>7. OneHolder'
  <2> SUFFICES ASSUME NEW r \in Ring, r \notin stolen
               PROVE  /\ sem'[r] = 1 => Holders(r)' = {}
                      /\ \A v, u \in Holders(r)' : v = u
    BY <1>5 DEF OneHolder
  <2>1. CASE r = s
    <3>1. Holders(s) \ {t} = {} /\ sem[s] # 1
      BY <1>6, <2>1
    <3>2. Holders(r)' \subseteq (Holders(r) \ {t}) \union ({w} \ {NoThread})
      BY <1>3, <2>1
    <3>3. Holders(r)' \subseteq {w} \ {NoThread}
      BY <2>1, <3>1, <3>2
    <3>4. sem'[r] = 1 => w = NoThread
      BY <1>4, <2>1, <3>1
    <3>5. QED
      BY <3>3, <3>4
  <2>2. CASE r # s
    BY <1>3, <1>4, <2>2 DEF OneHolder
  <2>3. QED
    BY <2>1, <2>2
<1>8. QED
  BY <1>5, <1>7 DEF OverlapByInterrupt

LEMMA OutsideOverlap ==
  ASSUME TypeInv, OverlapInv, NEW t \in Thread,
         Wrote(t) \/ EnableRx(t) \/ Drained(t) \/ Complete(t)
  PROVE  OverlapInv'
<1>1. /\ pc'[t] \in {"take", "idle", "complete"}
      /\ \A u \in Thread \ {t} : pc'[u] = pc[u] /\ op'[u] = op[u]
  <2>1. PICK l \in {"take", "idle", "complete"} :
          /\ pc' = [pc EXCEPT ![t] = l]
          /\ op' \in {op, [op EXCEPT ![t] = IF l = "idle" THEN "none" ELSE @]}
    BY DEF Wrote, EnableRx, Drained, Complete, NextOrReturn, Goto
  <2>2. QED
    BY <2>1 DEF TypeInv, TypeOK
<1>2. \A r \in Ring : Holders(r)' \subseteq Holders(r)
  BY <1>1 DEF Holders
<1>3. UNCHANGED <<sem, stolen, overlap>>
  BY DEF Wrote, EnableRx, Drained, Complete, log
<1>4. QED
  BY <1>2, <1>3, OneHolderKept DEF OverlapInv, OverlapByInterrupt

\* The interrupt gives a semaphore that is held only to mark its ring.
LEMMA IrqOverlap ==
  ASSUME TypeInv, FreeHasNoWaiter, OverlapInv, IrqHandler
  PROVE  OverlapInv'
<1> USE DEF TypeInv, TypeOK, OverlapInv
<1>1. PICK w \in [Ring -> Thread \union {NoThread}] :
        /\ \A r \in Ring : Wakes(r, w[r])
        /\ pc' = [t \in Thread |-> IF \E r \in Ring : w[r] = t THEN "inside" ELSE pc[t]]
        /\ sem' = [r \in Ring |-> IF w[r] = NoThread THEN 1 ELSE sem[r]]
        /\ stolen' = stolen \union {r \in Ring : Holders(r) # {}}
        /\ UNCHANGED <<op, overlap>>
  BY DEF IrqHandler
<1>2. \A r \in Ring : w[r] # NoThread =>
        w[r] \in Thread /\ pc[w[r]] = "wait" /\ RingOf(op[w[r]]) = r
  BY <1>1 DEF Wakes, Waiters
<1>3. \A r \in Ring : Holders(r)' \subseteq Holders(r) \union ({w[r]} \ {NoThread})
  BY <1>1, <1>2 DEF Holders
<1>4. \A r \in Ring : r \notin stolen' => r \notin stolen /\ Holders(r) = {}
  BY <1>1
<1>5. \A r \in Ring : r \notin stolen' /\ w[r] # NoThread => sem'[r] # 1
  <2> SUFFICES ASSUME NEW r \in Ring, r \notin stolen', w[r] # NoThread
               PROVE  sem'[r] # 1
    OBVIOUS
  <2>1. w[r] \in Waiters(r)
    BY <1>2 DEF Waiters
  <2>2. sem'[r] = sem[r]
    BY <1>1
  <2>3. QED
    BY <2>1, <2>2 DEF FreeHasNoWaiter
<1>6. OneHolder'
  <2> SUFFICES ASSUME NEW r \in Ring, r \notin stolen'
               PROVE  /\ sem'[r] = 1 => Holders(r)' = {}
                      /\ \A v, u \in Holders(r)' : v = u
    BY DEF OneHolder
  <2>1. Holders(r)' \subseteq {w[r]} \ {NoThread}
    BY <1>3, <1>4
  <2>2. sem'[r] = 1 => w[r] = NoThread
    BY <1>5
  <2>3. QED
    BY <2>1, <2>2
<1>7. QED
  BY <1>1, <1>6 DEF OverlapByInterrupt

\* Only Take adds a waiter, when the semaphore is not free; only a give frees
\* one, when it has no waiter.
LEMMA WaitersKept ==
  ASSUME FreeHasNoWaiter, UNCHANGED sem, \A r \in Ring : Waiters(r)' \subseteq Waiters(r)
  PROVE  FreeHasNoWaiter'
BY DEF FreeHasNoWaiter

LEMMA NextFree ==
  ASSUME TypeInv, FreeHasNoWaiter, [Next]_vars
  PROVE  FreeHasNoWaiter'
<1> USE DEF TypeInv, TypeOK
<1>1. ASSUME NEW t \in Thread, NEW o \in Operation, NEW size, Call(t, o, size)
      PROVE  FreeHasNoWaiter'
  <2>1. \A r \in Ring : Waiters(r)' \subseteq Waiters(r)
    BY <1>1 DEF Call, Goto, Waiters
  <2>2. QED
    BY <1>1, <2>1, WaitersKept DEF Call
<1>2. ASSUME NEW t \in Thread, Take(t)
      PROVE  FreeHasNoWaiter'
  <2> DEFINE s == RingOf(op[t])
  <2>1. s \in Ring
    BY RingOfType
  <2>2. CASE sem' = [sem EXCEPT ![s] = 0] /\ Goto(t, "inside")
    <3>1. \A r \in Ring : Waiters(r)' \subseteq Waiters(r)
      BY <1>2, <2>2 DEF Take, Goto, Waiters
    <3>2. \A r \in Ring : sem'[r] = 1 => sem[r] = 1
      BY <2>1, <2>2
    <3>3. QED
      BY <3>1, <3>2 DEF FreeHasNoWaiter
  <2>3. CASE sem[s] = 0 /\ Goto(t, "wait") /\ UNCHANGED sem
    <3>1. \A r \in Ring \ {s} : Waiters(r)' \subseteq Waiters(r)
      BY <1>2, <2>3 DEF Take, Goto, Waiters
    <3> HIDE DEF s
    <3>2. \A r \in Ring : sem'[r] = 1 => r # s /\ sem[r] = 1
      BY <2>3
    <3>3. QED
      BY <3>1, <3>2 DEF FreeHasNoWaiter
  <2>4. QED
    BY <1>2, <2>2, <2>3 DEF Take
<1>3. ASSUME NEW t \in Thread,
             \/ PutClaim(t) \/ PutFinish(t) \/ GetClaim(t) \/ GetFinish(t) \/ Look(t)
             \/ Reset(t) \/ Wrote(t) \/ EnableRx(t) \/ Drained(t) \/ Complete(t)
      PROVE  FreeHasNoWaiter'
  <2> USE <1>3 DEF PutClaim, PutFinish, GetClaim, GetFinish, Look, Reset, Wrote,
                   EnableRx, Drained, Complete, NextOrReturn, Goto
  <2>1. \A r \in Ring : Waiters(r)' \subseteq Waiters(r)
    BY DEF Waiters
  <2>2. UNCHANGED sem
    OBVIOUS
  <2>3. QED
    BY <2>1, <2>2, WaitersKept
<1>4. ASSUME NEW t \in Thread, Give(t)
      PROVE  FreeHasNoWaiter'
  <2> DEFINE s == RingOf(op[t])
  <2>1. PICK w \in Thread \union {NoThread} :
          /\ Wakes(s, w)
          /\ pc' = [u \in Thread |-> IF u = t THEN After(op[t])
                                     ELSE IF u = w THEN "inside" ELSE pc[u]]
          /\ sem' = [sem EXCEPT ![s] = IF w = NoThread THEN 1 ELSE @]
          /\ op' = [op EXCEPT ![t] = IF After(@) = "idle" THEN "none" ELSE @]
    BY <1>4 DEF Give
  <2>2. s \in Ring /\ After(op[t]) # "wait"
    BY RingOfType DEF After
  <2> HIDE DEF s
  <2>3. \A r \in Ring : Waiters(r)' \subseteq Waiters(r)
    BY <2>1, <2>2 DEF Waiters
  <2>4. w = NoThread => Waiters(s) = {}
    BY <2>1 DEF Wakes, Waiters
  <2>5. \A r \in Ring : sem'[r] = 1 => sem[r] = 1 \/ (r = s /\ w = NoThread)
    BY <2>1, <2>2
  <2>6. QED
    BY <2>3, <2>4, <2>5 DEF FreeHasNoWaiter
<1>5. CASE IrqHandler
  <2>1. PICK w \in [Ring -> Thread \union {NoThread}] :
          /\ \A r \in Ring : Wakes(r, w[r])
          /\ pc' = [t \in Thread |-> IF \E r \in Ring : w[r] = t THEN "inside" ELSE pc[t]]
          /\ sem' = [r \in Ring |-> IF w[r] = NoThread THEN 1 ELSE sem[r]]
          /\ op' = op
    BY <1>5 DEF IrqHandler
  <2>2. \A r \in Ring : Waiters(r)' \subseteq Waiters(r)
    BY <2>1 DEF Waiters
  <2>3. \A r \in Ring : w[r] = NoThread => Waiters(r) = {}
    BY <2>1 DEF Wakes, Waiters
  <2>4. \A r \in Ring : sem'[r] = 1 => sem[r] = 1 \/ w[r] = NoThread
    BY <2>1
  <2>5. QED
    BY <2>2, <2>3, <2>4 DEF FreeHasNoWaiter
<1>6. CASE Transmit \/ Arrive \/ UNCHANGED vars
  <2>1. UNCHANGED <<sem, pc, op>>
    BY <1>6 DEF Transmit, Arrive, vars
  <2>2. QED
    BY <2>1 DEF FreeHasNoWaiter, Waiters
<1>7. QED
  BY <1>1, <1>2, <1>3, <1>4, <1>5, <1>6 DEF Next, Write, ThreadStep, Operation, TxOp

LEMMA NextOverlap ==
  ASSUME TypeInv, FreeHasNoWaiter, OverlapInv, [Next]_vars
  PROVE  OverlapInv'
<1>1. ASSUME NEW t \in Thread, NEW o \in Operation, NEW size, Call(t, o, size)
      PROVE  OverlapInv'
  BY <1>1, CallOverlap
<1>2. ASSUME NEW t \in Thread, ThreadStep(t)
      PROVE  OverlapInv'
  BY <1>2, TakeOverlap, InsideOverlap, GiveOverlap, OutsideOverlap DEF ThreadStep
<1>3. CASE IrqHandler
  BY <1>3, IrqOverlap
<1>4. CASE Transmit \/ Arrive \/ UNCHANGED vars
  <2>1. UNCHANGED <<sem, pc, op, overlap, stolen>>
    BY <1>4 DEF Transmit, Arrive, vars, log
  <2>2. \A r \in Ring : Holders(r)' = Holders(r)
    BY <2>1 DEF Holders
  <2>3. QED
    BY <2>1, <2>2 DEF OverlapInv, OneHolder, OverlapByInterrupt
<1>5. QED
  BY <1>1, <1>2, <1>3, <1>4 DEF Next, Write, Operation, TxOp

\* Two threads work on a ring at once only after the interrupt has given the
\* semaphore of that ring while a thread held it: Take, Give and the calls
\* between them keep every other pair apart.
THEOREM SerialOverlap == Spec => []OverlapByInterrupt
<1> DEFINE IInv == TypeInv /\ FreeHasNoWaiter /\ OverlapInv
<1>1. Init => IInv
  <2>1. Init => \A r \in Ring : Holders(r) = {} /\ Waiters(r) = {}
    BY DEF Init, Holders, Waiters
  <2>2. QED
    BY <2>1, InitType DEF Init, FreeHasNoWaiter, OverlapInv, OneHolder, OverlapByInterrupt
<1>2. IInv /\ [Next]_vars => IInv'
  BY NextTypes, NextFree, NextOverlap
<1>3. IInv => OverlapByInterrupt
  BY DEF OverlapInv
<1> HIDE DEF IInv
<1>4. QED
  BY <1>1, <1>2, <1>3, PTL DEF Spec

-----------------------------------------------------------------------------
(* No byte is stranded *)

\* The ends of flush and begin are reached by their own calls only.
CallPlace ==
  \A t \in Thread : /\ pc[t] \in {"drain", "complete"} => op[t] = "flush"
                    /\ pc[t] = "enable" => op[t] = "begin"

LEMMA NextPlace ==
  ASSUME TypeInv, CallPlace, [Next]_vars
  PROVE  CallPlace'
<1> USE DEF TypeInv, TypeOK, CallPlace
<1>1. ASSUME NEW t \in Thread, NEW o \in Operation, NEW size, Call(t, o, size)
      PROVE  CallPlace'
  BY <1>1 DEF Call, Goto
<1>2. ASSUME NEW t \in Thread,
             \/ Take(t) \/ PutClaim(t) \/ PutFinish(t) \/ GetClaim(t) \/ GetFinish(t)
             \/ Look(t) \/ Reset(t)
      PROVE  CallPlace'
  <2>1. op' = op /\ \E l \in {"inside", "wait", "finish", "give"} : Goto(t, l)
    BY <1>2 DEF Take, PutClaim, PutFinish, GetClaim, GetFinish, Look, Reset
  <2>2. QED
    BY <2>1 DEF Goto
<1>3. ASSUME NEW t \in Thread,
             Wrote(t) \/ EnableRx(t) \/ Drained(t) \/ Complete(t)
      PROVE  CallPlace'
  <2>1. CASE Drained(t)
    BY <2>1 DEF Drained, Goto
  <2>2. PICK l \in {"idle", "take"} :
          /\ pc' = [pc EXCEPT ![t] = l]
          /\ op' = [op EXCEPT ![t] = IF l = "idle" THEN "none" ELSE @]
        \/ Drained(t)
    BY <1>3 DEF Wrote, EnableRx, Complete, NextOrReturn, Goto
  <2>3. QED
    BY <2>1, <2>2
<1>4. ASSUME NEW t \in Thread, Give(t)
      PROVE  CallPlace'
  <2>1. \A u \in Thread \ {t} : op'[u] = op[u] /\ pc'[u] \in {"inside", pc[u]}
    BY <1>4 DEF Give
  <2>2. /\ pc'[t] = After(op[t])
        /\ op'[t] = IF After(op[t]) = "idle" THEN "none" ELSE op[t]
    BY <1>4 DEF Give
  <2>3. After(op[t]) = "enable" => op[t] = "begin"
    BY DEF After
  <2>4. After(op[t]) \in {"wrote", "enable", "idle"}
    BY DEF After
  <2>5. CallPlace' <=> \A u \in Thread : /\ pc'[u] \in {"drain", "complete"} => op'[u] = "flush"
                                         /\ pc'[u] = "enable" => op'[u] = "begin"
    OBVIOUS
  <2>6. QED
    BY <2>1, <2>2, <2>3, <2>4, <2>5
<1>5. CASE IrqHandler
  <2>1. op' = op /\ \A u \in Thread : pc'[u] \in {"inside", pc[u]}
    BY <1>5 DEF IrqHandler
  <2>2. QED
    BY <2>1
<1>6. CASE Transmit \/ Arrive \/ UNCHANGED vars
  BY <1>6 DEF Transmit, Arrive, vars
<1>7. QED
  BY <1>1, <1>2, <1>3, <1>4, <1>5, <1>6 DEF Next, Write, ThreadStep, Operation, TxOp

\* A thread is inside write.
Writing(t) == op[t] = "write" /\ pc[t] # "idle"

\* A step that puts nothing in the ring, disables nothing and ends no write.
LEMMA StrandedKept ==
  ASSUME NoByteStranded, txIrq => txIrq', txq' # <<>> => txq # <<>>,
         \A u \in Thread : Writing(u) => Writing(u)'
  PROVE  NoByteStranded'
BY DEF NoByteStranded, Writing

LEMMA NextStranded ==
  ASSUME TypeInv, CallPlace, NoByteStranded, [Next]_vars
  PROVE  NoByteStranded'
<1> USE DEF TypeInv, TypeOK
<1>1. ASSUME NEW t \in Thread, NEW o \in Operation, NEW size, Call(t, o, size)
      PROVE  NoByteStranded'
  <2>1. \A u \in Thread : Writing(u) => Writing(u)'
    BY <1>1 DEF Call, Goto, Writing
  <2>2. QED
    BY <1>1, <2>1, StrandedKept DEF Call, txRing, uart
<1>2. ASSUME NEW t \in Thread,
             \/ Take(t) \/ PutClaim(t) \/ GetClaim(t) \/ GetFinish(t) \/ Look(t) \/ Reset(t)
      PROVE  NoByteStranded'
  <2>1. /\ op' = op /\ txq' = txq /\ txIrq' = txIrq
        /\ \E l \in {"inside", "wait", "finish", "give"} : Goto(t, l)
    BY <1>2 DEF Take, PutClaim, GetClaim, GetFinish, Look, Reset, txRing, uart
  <2>2. \A u \in Thread : Writing(u) => Writing(u)'
    BY <2>1 DEF Goto, Writing
  <2>3. QED
    BY <2>1, <2>2, StrandedKept
<1>3. ASSUME NEW t \in Thread, PutFinish(t)
      PROVE  NoByteStranded'
  <2>1. Writing(t)'
    BY <1>3 DEF PutFinish, Goto, Writing
  <2>2. QED
    BY <2>1 DEF NoByteStranded, Writing
<1>4. ASSUME NEW t \in Thread, Give(t)
      PROVE  NoByteStranded'
  <2>1. \A u \in Thread : Writing(u) => Writing(u)'
    BY <1>4 DEF Give, After, Writing
  <2>2. QED
    BY <1>4, <2>1, StrandedKept DEF Give, txRing, uart
<1>5. ASSUME NEW t \in Thread, Wrote(t)
      PROVE  NoByteStranded'
  <2>1. CASE left[t] = 0
    BY <1>5, <2>1 DEF Wrote, NoByteStranded
  <2>2. CASE left[t] # 0
    <3>1. \A u \in Thread : Writing(u) => Writing(u)'
      BY <1>5, <2>2 DEF Wrote, NextOrReturn, Goto, Writing
    <3>2. QED
      BY <1>5, <3>1, StrandedKept DEF Wrote, txRing
  <2>3. QED
    BY <2>1, <2>2
<1>6. ASSUME NEW t \in Thread, EnableRx(t) \/ Drained(t) \/ Complete(t)
      PROVE  NoByteStranded'
  <2>1. op[t] # "write"
    BY <1>6 DEF EnableRx, Drained, Complete, CallPlace
  <2>2. \A u \in Thread : Writing(u) => Writing(u)'
    BY <1>6, <2>1 DEF EnableRx, Drained, Complete, NextOrReturn, Goto, Writing
  <2>3. QED
    BY <1>6, <2>2, StrandedKept DEF EnableRx, Drained, Complete, txRing, uart
<1>7. CASE IrqHandler
  <2>1. txIrq' = (txIrq /\ txq # <<>>) /\ op' = op
    BY <1>7 DEF IrqHandler
  <2>2. \A u \in Thread : Writing(u) => Writing(u)'
    BY <1>7 DEF IrqHandler, Writing
  <2>3. txq' # <<>> => txq # <<>>
    <3>1. PICK n \in 0 .. Len(txq) : txq' = SubSeq(txq, n + 1, Len(txq))
      BY <1>7 DEF IrqHandler
    <3>2. Len(txq') = Len(txq) - n /\ txq' \in Seq(Byte)
      BY <3>1, RestType
    <3>3. QED
      BY <3>2, EmptySeq
  <2>4. QED
    BY <2>1, <2>2, <2>3 DEF NoByteStranded, Writing
<1>8. CASE Transmit \/ Arrive \/ UNCHANGED vars
  BY <1>8 DEF Transmit, Arrive, vars, txRing, uart, NoByteStranded
<1>9. QED
  BY <1>1, <1>2, <1>3, <1>4, <1>5, <1>6, <1>7, <1>8
     DEF Next, Write, ThreadStep, Operation, TxOp

\* While a byte is in the tx ring the interrupt is enabled for it or a write is
\* on its way to enable it, in every order of puts, gives and interrupts.
THEOREM SerialNoByteStranded == Spec => []NoByteStranded
<1> DEFINE IInv == TypeInv /\ CallPlace /\ NoByteStranded
<1>1. Init => IInv
  BY InitType DEF Init, CallPlace, NoByteStranded
<1>2. IInv /\ [Next]_vars => IInv'
  BY NextTypes, NextPlace, NextStranded
<1>3. IInv => NoByteStranded
  OBVIOUS
<1> HIDE DEF IInv
<1>4. QED
  BY <1>1, <1>2, <1>3, PTL DEF Spec
=============================================================================
