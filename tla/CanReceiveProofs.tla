-------------------------- MODULE CanReceiveProofs --------------------------
(***************************************************************************)
(* Proofs about the receive path of ZephyrCAN and about its filters, for   *)
(* every capacity of the queues, every filter table and any number of      *)
(* frames and callbacks.                                                   *)
(***************************************************************************)
EXTENDS CanReceive, SequenceTheorems, TLAPS

USE CanAssumption

-----------------------------------------------------------------------------
(* Types *)

LEMMA InitType == Init => TypeOK
<1> SUFFICES ASSUME Init PROVE TypeOK
  OBVIOUS
<1>1. <<>> \in Seq(Frame) /\ Len(<<>>) = 0
  OBVIOUS
<1>2. /\ id \in [Kind -> FilterId \union {NoFilter}]
      /\ table \in [FilterId -> Kind \union {"unused"}]
  BY DEF Init
<1>3. arrived \in 0 .. MaxFrames
  BY DEF Init
<1>4. /\ rxq \in Seq(Frame) /\ Len(rxq) <= RxCap
      /\ cbq \in Seq(Frame) /\ Len(cbq) <= CbCap
      /\ sem \in Nat
  BY <1>1 DEF Init
<1>5. /\ fd \in BOOLEAN /\ begun \in BOOLEAN /\ started \in BOOLEAN
      /\ registering \in BOOLEAN
      /\ configured \in SUBSET Kind
  BY DEF Init
<1>6. QED
  BY <1>2, <1>3, <1>4, <1>5 DEF Init, TypeOK

\* The interrupt appends to a queue only while it has room.
LEMMA RxCallbackTypes ==
  ASSUME TypeOK, RxCallback
  PROVE  TypeOK'
<1> USE DEF TypeOK, RxCallback, control, registration, thread, log
<1>1. arrived' \in Frame /\ arrived' \in 0 .. MaxFrames
  BY DEF Frame
<1>2. ASSUME NEW q \in Seq(Frame), NEW cap \in Nat, Len(q) < cap
      PROVE  Append(q, arrived') \in Seq(Frame) /\ Len(Append(q, arrived')) <= cap
  BY <1>1, <1>2
<1>3. rxq' \in Seq(Frame) /\ Len(rxq') <= RxCap
  BY <1>2
<1>4. cbq' \in Seq(Frame) /\ Len(cbq') <= CbCap
  BY <1>2
<1>4a. sem' \in Nat
  OBVIOUS
<1>5. QED
  BY <1>1, <1>3, <1>4, <1>4a

LEMMA BeginTypes ==
  ASSUME TypeOK, NEW m \in {"normal", "fd"}, Begin(m)
  PROVE  TypeOK'
<1> USE DEF TypeOK, control, registration, thread, log
<1> DEFINE ks == IF configured = {} THEN Kind ELSE configured
<1>1. ks \subseteq Kind
  OBVIOUS
<1>2. PICK new \in Additions(ks) :
        /\ id' = [k \in Kind |-> IF k \in ks THEN new[k] ELSE id[k]]
        /\ table' = [i \in FilterId |-> IF \E k \in ks : new[k] = i
                                        THEN CHOOSE k \in ks : new[k] = i ELSE table[i]]
  BY DEF Begin
<1>3. new \in [ks -> FilterId \union {NoFilter}]
  BY DEF Additions
<1>4. id' \in [Kind -> FilterId \union {NoFilter}]
  BY <1>1, <1>2, <1>3
<1>5. table' \in [FilterId -> Kind \union {"unused"}]
  <2>1. ASSUME NEW i \in FilterId, \E k \in ks : new[k] = i
        PROVE  (CHOOSE k \in ks : new[k] = i) \in Kind
    BY <1>1, <2>1
  <2>2. QED
    BY <1>2, <2>1
<1>6. begun' \in BOOLEAN
  BY DEF Begin
<1>7. QED
  BY <1>4, <1>5, <1>6 DEF Begin

LEMMA TypeStep == TypeOK /\ [Next]_vars => TypeOK'
<1> SUFFICES ASSUME TypeOK, [Next]_vars PROVE TypeOK'
  OBVIOUS
<1> USE DEF TypeOK, control, registration, thread, log
<1>0. ASSUME NEW q \in Seq(Frame), q # <<>>
      PROVE  Head(q) \in Frame /\ Tail(q) \in Seq(Frame) /\ Len(Tail(q)) <= Len(q)
  BY <1>0
<1>1. ASSUME NEW k \in Kind, AddReceiveFilter(k) PROVE TypeOK'
  BY <1>1 DEF AddReceiveFilter
<1>2. ASSUME NEW m \in {"normal", "fd"}, BeginFails(m) PROVE TypeOK'
  <2>1. mode' \in {"normal", "fd"} /\ started' = FALSE /\ begun' = FALSE
    BY <1>2 DEF BeginFails
  <2>2. fd' = fd \/ fd' = (m = "fd")
    BY <1>2 DEF BeginFails
  <2>3. fd' \in BOOLEAN
    BY <2>2
  <2>4. QED
    BY <1>2, <2>1, <2>3, ZenonT(60) DEF BeginFails
<1>3. CASE End
  <2>1. table' \in [FilterId -> Kind \union {"unused"}]
    BY <1>3 DEF End
  <2>2. id' \in [Kind -> FilterId \union {NoFilter}]
    BY <1>3 DEF End
  <2>3. started' \in BOOLEAN /\ begun' \in BOOLEAN
    BY <1>3 DEF End
  <2>4. UNCHANGED <<configured, fd, mode, registration, rxq, cbq, sem, thread, log>>
    BY <1>3 DEF End
  <2>5. QED
    BY <2>1, <2>2, <2>3, <2>4
<1>4. ASSUME NEW f \in Callback \union {NoCallback}, OnReceive(f) PROVE TypeOK'
  BY <1>4 DEF OnReceive
<1>5. CASE SetUserData
  <2>1. userData' \in Data \union {NoData}
    BY <1>5 DEF SetUserData
  <2>2. registering' \in BOOLEAN
    BY <1>5 DEF SetUserData
  <2>3. UNCHANGED <<control, callback, rxq, cbq, sem, thread, log>>
    BY <1>5 DEF SetUserData
  <2>4. QED
    BY <2>1, <2>2, <2>3
<1>6. CASE Read
  BY <1>0, <1>6 DEF Read
<1>7. CASE Worker
  <2>1. CASE TakeSem
    BY <2>1 DEF TakeSem
  <2>2. CASE GetFrame
    BY <1>0, <2>2 DEF GetFrame
  <2>3. CASE Drained
    BY <2>3 DEF Drained
  <2>4. CASE LoadCallback
    BY <2>4 DEF LoadCallback
  <2>5. CASE CallCallback
    BY <2>5 DEF CallCallback
  <2>6. CASE CallbackReturns
    BY <2>6 DEF CallbackReturns
  <2>7. QED
    BY <1>7, <2>1, <2>2, <2>3, <2>4, <2>5, <2>6 DEF Worker
<1>8. CASE UNCHANGED vars
  BY <1>8 DEF vars
<1>9. QED
  BY <1>1, <1>2, <1>3, <1>4, <1>5, <1>6, <1>7, <1>8, BeginTypes, RxCallbackTypes DEF Next

\* Every variable has its type, and the queues keep their capacity.
THEOREM Typing == Spec => []TypeOK
BY InitType, TypeStep, PTL DEF Spec

-----------------------------------------------------------------------------
(* The queues *)

\* A frame that comes after all of a queue goes to its end in order.
LEMMA AppendKeepsOrder ==
  ASSUME NEW q \in Seq(Frame), NEW n \in Nat, NEW e \in Frame, InOrderAfter(n, q), n < e,
         \A i \in DOMAIN q : q[i] < e
  PROVE  /\ InOrderAfter(n, Append(q, e))
         /\ \A i \in DOMAIN Append(q, e) : Append(q, e)[i] <= e
         /\ ToSet(Append(q, e)) = ToSet(q) \union {e}
<1>1. /\ DOMAIN q = 1 .. Len(q) /\ Len(q) \in Nat
      /\ DOMAIN Append(q, e) = 1 .. Len(q) + 1
      /\ \A i \in 1 .. Len(q) : Append(q, e)[i] = q[i] /\ q[i] \in Frame
      /\ Append(q, e)[Len(q) + 1] = e
  BY AppendProperties
<1>2. \A i \in DOMAIN Append(q, e) : i \in 1 .. Len(q) \/ i = Len(q) + 1
  BY <1>1
<1>3. InOrderAfter(n, Append(q, e))
  BY <1>1, <1>2 DEF InOrderAfter, Frame
<1>4. \A i \in DOMAIN Append(q, e) : Append(q, e)[i] <= e
  BY <1>1, <1>2 DEF Frame
<1>5. ToSet(Append(q, e)) = ToSet(q) \union {e}
  BY <1>1, <1>2 DEF ToSet
<1>6. QED
  BY <1>3, <1>4, <1>5

\* The head comes before the rest, which stays in order.
LEMMA TailKeepsOrder ==
  ASSUME NEW q \in Seq(Frame), q # <<>>, NEW n \in Nat, InOrderAfter(n, q)
  PROVE  /\ Head(q) \in Frame /\ n < Head(q)
         /\ InOrderAfter(Head(q), Tail(q))
         /\ \A i \in DOMAIN Tail(q) : i + 1 \in DOMAIN q /\ Tail(q)[i] = q[i + 1]
         /\ ToSet(Tail(q)) = ToSet(q) \ {Head(q)}
         /\ Head(q) \in ToSet(q)
<1>1. /\ DOMAIN q = 1 .. Len(q) /\ Len(q) \in Nat /\ 1 \in DOMAIN q
      /\ Head(q) = q[1] /\ Head(q) \in Frame
      /\ Tail(q) \in Seq(Frame) /\ DOMAIN Tail(q) = 1 .. Len(q) - 1
      /\ \A i \in 1 .. Len(q) - 1 : Tail(q)[i] = q[i + 1]
      /\ \A i \in DOMAIN q : q[i] \in Nat
  BY HeadTailProperties DEF Frame
<1>2. n < Head(q)
  BY <1>1 DEF InOrderAfter
<1>3. \A i \in DOMAIN Tail(q) : i + 1 \in DOMAIN q /\ Tail(q)[i] = q[i + 1] /\ 1 < i + 1
  BY <1>1
<1>4. InOrderAfter(Head(q), Tail(q))
  <2>1. ASSUME NEW i \in DOMAIN Tail(q)
        PROVE  Head(q) < Tail(q)[i]
    BY <1>1, <1>3 DEF InOrderAfter
  <2>2. ASSUME NEW i \in DOMAIN Tail(q), NEW j \in DOMAIN Tail(q), i < j
        PROVE  Tail(q)[i] < Tail(q)[j]
    <3>1. i + 1 < j + 1
      BY <1>1, <2>2
    <3>2. QED
      BY <1>3, <3>1 DEF InOrderAfter
  <2>3. QED
    BY <2>1, <2>2 DEF InOrderAfter
<1>5. ToSet(Tail(q)) = ToSet(q) \ {Head(q)}
  <2>1. \A i \in DOMAIN q : i # 1 => i - 1 \in DOMAIN Tail(q) /\ Tail(q)[i - 1] = q[i] /\ q[i] # q[1]
    <3>1. ASSUME NEW i \in DOMAIN q, i # 1
          PROVE  i - 1 \in DOMAIN Tail(q) /\ (i - 1) + 1 = i /\ 1 < i
      BY <1>1, <3>1
    <3>2. ASSUME NEW i \in DOMAIN q, i # 1
          PROVE  q[1] < q[i]
      BY <1>1, <3>1, <3>2 DEF InOrderAfter
    <3>3. QED
      BY <1>1, <3>1, <3>2
  <2>2. \A i \in DOMAIN Tail(q) : Tail(q)[i] \in ToSet(q) /\ Tail(q)[i] # Head(q)
    <3>1. \A i \in DOMAIN Tail(q) : i + 1 # 1
      BY <1>1
    <3>2. QED
      BY <1>1, <1>3, <2>1, <3>1, ZenonT(60) DEF ToSet
  <2>3. ASSUME NEW x \in ToSet(q), x # Head(q) PROVE x \in ToSet(Tail(q))
    <3>1. PICK i \in DOMAIN q : x = q[i]
      BY DEF ToSet
    <3>2. i # 1
      BY <1>1, <2>3, <3>1
    <3>3. QED
      BY <2>1, <3>1, <3>2 DEF ToSet
  <2>4. ASSUME NEW x \in ToSet(Tail(q)) PROVE x \in ToSet(q) /\ x # Head(q)
    BY <2>2 DEF ToSet
  <2>5. QED
    BY <2>3, <2>4
<1>6. Head(q) \in ToSet(q)
  BY <1>1 DEF ToSet
<1>7. QED
  BY <1>1, <1>2, <1>3, <1>4, <1>5, <1>6

LEMMA InitReceiveInv == Init => ReceiveInv
<1> SUFFICES ASSUME Init PROVE ReceiveInv
  OBVIOUS
<1>1. TypeOK
  BY InitType
<1>2. DOMAIN rxq = {} /\ DOMAIN cbq = {} /\ ToSet(rxq) = {} /\ ToSet(cbq) = {}
  BY DEF Init, ToSet
<1>3. FramesOnceInOrder
  BY <1>2 DEF Init, FramesOnceInOrder, InOrderAfter
<1>4. WorkerHolds /\ QueuesArrived /\ NoFrameStranded
  BY <1>2 DEF Init, WorkerHolds, QueuesArrived, NoFrameStranded, NoFrame
<1>5. QED
  BY <1>1, <1>3, <1>4 DEF ReceiveInv

\* read() takes the oldest frame of its queue.
LEMMA ReadKeepsQueues ==
  ASSUME ReceiveInv, TypeOK', Read
  PROVE  ReceiveInv'
<1> USE DEF ReceiveInv, Read, control, registration, thread, log
<1>1. rxq \in Seq(Frame) /\ rxq # <<>> /\ lastRead \in Nat /\ InOrderAfter(lastRead, rxq)
  BY DEF TypeOK, FramesOnceInOrder, Frame, NoFrame
<1>2. /\ lastRead' \in Frame
      /\ InOrderAfter(lastRead', rxq')
      /\ \A i \in DOMAIN rxq' : i + 1 \in DOMAIN rxq /\ rxq'[i] = rxq[i + 1]
      /\ ToSet(rxq') = ToSet(rxq) \ {lastRead'}
      /\ lastRead' \in ToSet(rxq)
  BY <1>1, TailKeepsOrder
<1>3. FramesOnceInOrder'
  BY <1>2 DEF FramesOnceInOrder
<1>4. QueuesArrived'
  <2>1. \A n \in ToSet(rxq) : n <= arrived
    BY DEF QueuesArrived, ToSet
  <2>2. QED
    BY <1>2, <2>1 DEF QueuesArrived
<1>5. WorkerHolds' /\ NoFrameStranded'
  BY DEF WorkerHolds, NoFrameStranded
<1>6. QED
  BY <1>3, <1>4, <1>5

\* The interrupt puts the newest frame behind all others, in one queue.
LEMMA RxCallbackKeepsQueues ==
  ASSUME ReceiveInv, TypeOK', RxCallback
  PROVE  ReceiveInv'
<1> USE DEF ReceiveInv, control, registration, thread, log
<1>1. /\ arrived \in Nat /\ arrived' = arrived + 1 /\ arrived' \in Frame
      /\ UNCHANGED <<worker, frame, lastRead, lastCalled>>
      /\ rxq \in Seq(Frame) /\ cbq \in Seq(Frame) /\ sem \in Nat
      /\ lastRead \in Nat /\ lastCalled \in Nat /\ frame \in Nat
  BY DEF TypeOK, RxCallback, Frame, NoFrame
<1>2. /\ DOMAIN rxq = 1 .. Len(rxq) /\ \A i \in DOMAIN rxq : rxq[i] \in Nat
      /\ DOMAIN cbq = 1 .. Len(cbq) /\ \A i \in DOMAIN cbq : cbq[i] \in Nat
  BY <1>1 DEF Frame
<1>3. /\ \A i \in DOMAIN rxq : rxq[i] < arrived'
      /\ \A i \in DOMAIN cbq : cbq[i] < arrived'
      /\ lastRead < arrived' /\ lastCalled < arrived' /\ frame < arrived'
  BY <1>1, <1>2 DEF QueuesArrived
<1>4. arrived' \notin ToSet(rxq) /\ arrived' \notin ToSet(cbq) /\ arrived' # NoFrame
  BY <1>1, <1>2, <1>3 DEF ToSet, Frame, NoFrame
<1>5. WorkerHolds'
  BY <1>1 DEF WorkerHolds
<1>6. CASE UNCHANGED <<rxq, cbq, sem>>
  <2>1. FramesOnceInOrder' /\ NoFrameStranded'
    BY <1>1, <1>6 DEF FramesOnceInOrder, NoFrameStranded
  <2>2. QueuesArrived'
    BY <1>1, <1>2, <1>3, <1>6 DEF QueuesArrived
  <2>3. QED
    BY <1>5, <2>1, <2>2
<1>7. CASE cbq' = Append(cbq, arrived') /\ sem' = sem + 1 /\ UNCHANGED rxq
  <2>1. /\ InOrderAfter(lastCalled, cbq')
        /\ ToSet(cbq') = ToSet(cbq) \union {arrived'}
    BY <1>1, <1>3, <1>7, AppendKeepsOrder DEF FramesOnceInOrder
  <2>2. \A i \in DOMAIN cbq' : cbq'[i] <= arrived' /\ frame < cbq'[i]
    <3>1. /\ DOMAIN cbq' = 1 .. Len(cbq) + 1
          /\ \A i \in 1 .. Len(cbq) : cbq'[i] = cbq[i]
          /\ cbq'[Len(cbq) + 1] = arrived'
      BY <1>1, <1>7, AppendProperties
    <3>2. \A i \in DOMAIN cbq' : i \in DOMAIN cbq \/ i = Len(cbq) + 1
      BY <1>1, <1>2, <3>1
    <3>3. QED
      BY <1>1, <1>2, <1>3, <3>1, <3>2 DEF QueuesArrived
  <2>3. FramesOnceInOrder'
    BY <1>1, <1>3, <1>4, <1>7, <2>1 DEF FramesOnceInOrder
  <2>4. QueuesArrived'
    BY <1>1, <1>2, <1>3, <1>7, <2>2 DEF QueuesArrived
  <2>5. NoFrameStranded'
    BY <1>1, <1>7 DEF NoFrameStranded
  <2>6. QED
    BY <1>5, <2>3, <2>4, <2>5
<1>8. CASE rxq' = Append(rxq, arrived') /\ UNCHANGED <<cbq, sem>>
  <2>1. /\ InOrderAfter(lastRead, rxq')
        /\ ToSet(rxq') = ToSet(rxq) \union {arrived'}
        /\ \A i \in DOMAIN rxq' : rxq'[i] <= arrived'
    BY <1>1, <1>3, <1>8, AppendKeepsOrder DEF FramesOnceInOrder
  <2>2. FramesOnceInOrder'
    BY <1>1, <1>3, <1>4, <1>8, <2>1 DEF FramesOnceInOrder
  <2>3. QueuesArrived'
    BY <1>1, <1>2, <1>3, <1>8, <2>1 DEF QueuesArrived
  <2>4. NoFrameStranded'
    BY <1>1, <1>8 DEF NoFrameStranded
  <2>5. QED
    BY <1>5, <2>2, <2>3, <2>4
<1>9. QED
  BY <1>6, <1>7, <1>8 DEF RxCallback

\* The worker takes the oldest frame and keeps it to the end of the call.
LEMMA WorkerKeepsQueues ==
  ASSUME ReceiveInv, TypeOK', Worker
  PROVE  ReceiveInv'
<1> USE DEF ReceiveInv, control, registration, thread, log
<1>1. CASE GetFrame
  <2>1. /\ cbq \in Seq(Frame) /\ cbq # <<>> /\ lastCalled \in Nat
        /\ frame = NoFrame /\ worker' = "load"
        /\ InOrderAfter(lastCalled, cbq)
        /\ UNCHANGED <<rxq, sem, arrived, lastRead, lastCalled>>
    BY <1>1 DEF GetFrame, TypeOK, FramesOnceInOrder, WorkerHolds, Frame, NoFrame
  <2>2. /\ frame' \in Frame /\ lastCalled < frame'
        /\ InOrderAfter(frame', cbq')
        /\ \A i \in DOMAIN cbq' : i + 1 \in DOMAIN cbq /\ cbq'[i] = cbq[i + 1]
        /\ ToSet(cbq') = ToSet(cbq) \ {frame'}
        /\ frame' \in ToSet(cbq)
    BY <1>1, <2>1, TailKeepsOrder DEF GetFrame
  <2>3. \A i \in DOMAIN cbq' : cbq'[i] \in Nat
    <3>1. cbq' \in Seq(Frame)
      BY DEF TypeOK
    <3>2. QED
      BY <3>1, SMTT(60) DEF Frame
  <2>4. InOrderAfter(lastCalled, cbq')
    BY <2>1, <2>2, <2>3 DEF InOrderAfter, Frame
  <2>5. FramesOnceInOrder'
    BY <2>1, <2>2, <2>4 DEF FramesOnceInOrder
  <2>6. QueuesArrived'
    <3>1. \A n \in ToSet(cbq) : n <= arrived
      BY DEF QueuesArrived, ToSet
    <3>2. \A i \in DOMAIN cbq' : frame' < cbq'[i]
      BY <2>2 DEF InOrderAfter
    <3>3. QED
      BY <2>1, <2>2, <3>1, <3>2 DEF QueuesArrived
  <2>7. WorkerHolds' /\ NoFrameStranded'
    BY <2>1, <2>2 DEF WorkerHolds, NoFrameStranded, Frame, NoFrame
  <2>8. QED
    BY <2>5, <2>6, <2>7
<1>2. CASE TakeSem \/ Drained
  BY <1>2 DEF TakeSem, Drained, FramesOnceInOrder, QueuesArrived, WorkerHolds, NoFrameStranded
<1>3. CASE LoadCallback
  <2>1. /\ UNCHANGED <<rxq, cbq, sem, arrived, lastRead, lastCalled>>
        /\ worker = "load" /\ worker' \in {"call", "drain"}
        /\ worker' = "call" => frame' = frame
        /\ worker' = "drain" => frame' = NoFrame
    BY <1>3 DEF LoadCallback
  <2>2. 0 <= arrived /\ (\A i \in DOMAIN cbq : cbq[i] \in Nat /\ 0 < cbq[i])
    BY SMTT(60) DEF TypeOK, Frame
  <2>3. FramesOnceInOrder'
    BY <2>1, <2>2 DEF FramesOnceInOrder, ToSet, NoFrame
  <2>4. QueuesArrived'
    BY <2>1, <2>2 DEF QueuesArrived, NoFrame
  <2>5. QED
    BY <2>1, <2>3, <2>4 DEF WorkerHolds, NoFrameStranded
<1>4. CASE CallCallback
  <2>1. /\ UNCHANGED <<rxq, cbq, sem, arrived, lastRead, frame>>
        /\ worker = "call" /\ worker' = "inside" /\ lastCalled' = frame
    BY <1>4 DEF CallCallback
  <2>2. InOrderAfter(frame, cbq)
    BY DEF FramesOnceInOrder, QueuesArrived, InOrderAfter
  <2>3. FramesOnceInOrder'
    BY <2>1, <2>2 DEF FramesOnceInOrder
  <2>4. QED
    BY <2>1, <2>3 DEF QueuesArrived, WorkerHolds, NoFrameStranded
<1>5. CASE CallbackReturns
  <2>1. /\ UNCHANGED <<rxq, cbq, sem, arrived, lastRead, lastCalled>>
        /\ worker = "inside" /\ worker' = "drain" /\ frame' = NoFrame
    BY <1>5 DEF CallbackReturns
  <2>2. 0 <= arrived /\ (\A i \in DOMAIN cbq : cbq[i] \in Nat /\ 0 < cbq[i])
    BY SMTT(60) DEF TypeOK, Frame
  <2>3. FramesOnceInOrder'
    BY <2>1, <2>2 DEF FramesOnceInOrder, ToSet, NoFrame
  <2>4. QED
    BY <2>1, <2>2, <2>3 DEF QueuesArrived, WorkerHolds, NoFrameStranded, NoFrame
<1>6. QED
  BY <1>1, <1>2, <1>3, <1>4, <1>5 DEF Worker

LEMMA ReceiveInvStep == ReceiveInv /\ [Next]_vars => ReceiveInv'
<1> SUFFICES ASSUME ReceiveInv, [Next]_vars PROVE ReceiveInv'
  OBVIOUS
<1>0. TypeOK'
  BY TypeStep DEF ReceiveInv
<1>1. CASE UNCHANGED <<rxq, cbq, sem, frame, lastCalled, lastRead, arrived>>
           /\ (UNCHANGED worker \/ (worker = "none" /\ worker' = "take"))
  BY <1>0, <1>1 DEF ReceiveInv, FramesOnceInOrder, QueuesArrived, WorkerHolds, NoFrameStranded
<1>2. ASSUME \/ \E k \in Kind : AddReceiveFilter(k)
             \/ \E m \in {"normal", "fd"} : BeginFails(m) \/ Begin(m)
             \/ End
             \/ \E f \in Callback \union {NoCallback} : OnReceive(f)
             \/ SetUserData
             \/ UNCHANGED vars
      PROVE  /\ UNCHANGED <<rxq, cbq, sem, frame, lastCalled, lastRead, arrived>>
             /\ UNCHANGED worker \/ (worker = "none" /\ worker' = "take")
  BY <1>2 DEF AddReceiveFilter, BeginFails, Begin, End, OnReceive, SetUserData, vars, thread, log
<1>3. QED
  BY <1>0, <1>1, <1>2, ReadKeepsQueues, RxCallbackKeepsQueues, WorkerKeepsQueues DEF Next

\* The invariant of the receive path holds.
THEOREM Receiving == Spec => []ReceiveInv
BY InitReceiveInv, ReceiveInvStep, PTL DEF Spec

\* Frames reach read() and the callback in bus order, once and in one place.
THEOREM FrameDelivery == Spec => []FramesOnceInOrder
<1>1. ReceiveInv => FramesOnceInOrder
  BY DEF ReceiveInv
<1>2. QED
  BY <1>1, Receiving, PTL

\* No frame for the callback waits for a sleeping worker.
THEOREM NoLostWakeup == Spec => []NoFrameStranded
<1>1. ReceiveInv => NoFrameStranded
  BY DEF ReceiveInv
<1>2. QED
  BY <1>1, Receiving, PTL

-----------------------------------------------------------------------------
(* The controller *)

ControlInv == TypeOK /\ IdsInstalled /\ FlagsMatchMode /\ BegunIsListening

\* A begin that goes through leaves every id on an installed filter, and is
\* true only with one.
LEMMA BeginKeepsControl ==
  ASSUME ControlInv, NEW m \in {"normal", "fd"}, Begin(m)
  PROVE  IdsInstalled' /\ FlagsMatchMode' /\ BegunIsListening'
<1> USE DEF ControlInv
<1> DEFINE ks == IF configured = {} THEN Kind ELSE configured
<1>1. ks \subseteq Kind /\ "unused" \notin Kind
  BY DEF TypeOK, Kind
<1>2. PICK new \in Additions(ks) :
        /\ id' = [k \in Kind |-> IF k \in ks THEN new[k] ELSE id[k]]
        /\ table' = [i \in FilterId |-> IF \E k \in ks : new[k] = i
                                        THEN CHOOSE k \in ks : new[k] = i ELSE table[i]]
        /\ begun' = \E k \in Kind : id'[k] # NoFilter
        /\ started' = TRUE
  BY DEF Begin
<1>3. \A k \in ks : new[k] \in FilterId \union {NoFilter}
  BY DEF Additions
<1>4. IdsInstalled'
  <2>1. SUFFICES ASSUME NEW k \in Kind, id'[k] # NoFilter
                 PROVE  table'[id'[k]] # "unused"
    BY DEF IdsInstalled
  <2>2. id'[k] \in FilterId
    BY <1>2, <1>3, <2>1 DEF TypeOK
  <2>3. CASE \E j \in ks : new[j] = id'[k]
    <3>1. table'[id'[k]] \in ks
      BY <1>2, <2>2, <2>3
    <3>2. QED
      BY <1>1, <3>1
  <2>4. CASE ~\E j \in ks : new[j] = id'[k]
    <3>1. id'[k] = id[k] /\ table'[id'[k]] = table[id[k]]
      BY <1>2, <2>2, <2>4
    <3>2. QED
      BY <2>1, <3>1 DEF IdsInstalled
  <2>5. QED
    BY <2>3, <2>4
<1>5. FlagsMatchMode'
  <2>1. fd' = (m = "fd") /\ mode' = m
    BY DEF Begin
  <2>2. QED
    BY <2>1 DEF FlagsMatchMode
<1>6. BegunIsListening'
  <2>1. SUFFICES ASSUME NEW k \in Kind, id'[k] # NoFilter
                 PROVE  (Tracked \intersect Installed)' # {}
    BY <1>2 DEF BegunIsListening
  <2>2. id'[k] \in FilterId
    BY <1>2, <1>3, <2>1 DEF TypeOK
  <2>3. id'[k] \in Tracked' /\ id'[k] \in Installed'
    BY <1>4, <2>1, <2>2 DEF IdsInstalled, Tracked, Installed
  <2>4. QED
    BY <2>3
<1>7. QED
  BY <1>4, <1>5, <1>6

LEMMA ControlInvStep == ControlInv /\ [Next]_vars => ControlInv'
<1> SUFFICES ASSUME ControlInv, [Next]_vars PROVE ControlInv'
  OBVIOUS
<1>0. TypeOK'
  BY TypeStep DEF ControlInv
<1> USE DEF ControlInv, IdsInstalled, FlagsMatchMode, BegunIsListening, Tracked, Installed
<1>1. CASE UNCHANGED control
  BY <1>0, <1>1 DEF control
<1>2. ASSUME NEW k \in Kind, AddReceiveFilter(k) PROVE ControlInv'
  BY <1>0, <1>2 DEF AddReceiveFilter
<1>3. ASSUME NEW m \in {"normal", "fd"}, BeginFails(m) PROVE ControlInv'
  <2>1. UNCHANGED <<id, table>> /\ started' = FALSE /\ begun' = FALSE
    BY <1>3 DEF BeginFails
  <2>2. QED
    BY <1>0, <2>1
<1>4. ASSUME NEW m \in {"normal", "fd"}, Begin(m) PROVE ControlInv'
  BY <1>0, <1>4, BeginKeepsControl
<1>5. CASE End
  <2>1. (\A k \in Kind : id'[k] = NoFilter) /\ started' = FALSE /\ begun' = FALSE
    BY <1>5 DEF End
  <2>2. QED
    BY <1>0, <2>1
<1>6. ASSUME \/ \E f \in Callback \union {NoCallback} : OnReceive(f)
             \/ SetUserData \/ Read \/ RxCallback \/ Worker
             \/ UNCHANGED vars
      PROVE  UNCHANGED control
  BY <1>6 DEF OnReceive, SetUserData, Read, RxCallback, Worker, TakeSem, GetFrame, Drained,
              LoadCallback, CallCallback, CallbackReturns, vars
<1>7. QED
  BY <1>1, <1>2, <1>3, <1>4, <1>5, <1>6 DEF Next

LEMMA InitControlInv == Init => ControlInv
<1> SUFFICES ASSUME Init PROVE ControlInv
  OBVIOUS
<1>1. \A k \in Kind : id[k] = NoFilter
  BY DEF Init
<1>2. started = FALSE /\ begun = FALSE
  BY DEF Init
<1>3. QED
  BY <1>1, <1>2, InitType DEF ControlInv, IdsInstalled, FlagsMatchMode, BegunIsListening

\* The invariant of the controller holds.
THEOREM Controlling == Spec => []ControlInv
BY InitControlInv, ControlInvStep, PTL DEF Spec

\* A running controller sends FD frames exactly in FD mode, after any sequence
\* of calls and failures.
THEOREM ControllerState == Spec => []FlagsMatchMode
<1>1. ControlInv => FlagsMatchMode
  BY DEF ControlInv
<1>2. QED
  BY <1>1, Controlling, PTL

\* A begin that returned true is listening, after any such sequence.
THEOREM Listening == Spec => []BegunIsListening
<1>1. ControlInv => BegunIsListening
  BY DEF ControlInv
<1>2. QED
  BY <1>1, Controlling, PTL

\* begin from a clean table keeps track of every filter it installs.
LEMMA CleanBeginTracks ==
  ASSUME TypeOK, Tracked = {}, NEW m \in {"normal", "fd"}, Begin(m)
  PROVE  (Installed' \ Tracked') \subseteq (Installed \ Tracked)
<1> DEFINE ks == IF configured = {} THEN Kind ELSE configured
<1>1. PICK new \in Additions(ks) :
        /\ id' = [k \in Kind |-> IF k \in ks THEN new[k] ELSE id[k]]
        /\ table' = [i \in FilterId |-> IF \E k \in ks : new[k] = i
                                        THEN CHOOSE k \in ks : new[k] = i ELSE table[i]]
  BY DEF Begin
<1>2. ks \subseteq Kind
  BY DEF TypeOK
<1>3. SUFFICES ASSUME NEW i \in Installed', i \notin Tracked'
               PROVE  i \in Installed
  OBVIOUS
<1>4. i \in FilterId /\ i # NoFilter /\ table'[i] # "unused"
  BY DEF Installed
<1>5. ~\E k \in ks : new[k] = i
  <2>1. SUFFICES ASSUME NEW k \in ks, new[k] = i PROVE FALSE
    OBVIOUS
  <2>2. k \in Kind /\ id'[k] = i
    BY <1>1, <1>2, <2>1
  <2>3. QED
    BY <1>3, <1>4, <2>2 DEF Tracked
<1>6. QED
  BY <1>1, <1>4, <1>5 DEF Installed

\* end removes every filter it knows of, and only a begin after a begin makes
\* it lose one.
THEOREM FiltersTracked == Spec => FiltersLostByBeginOnly
<1>1. ASSUME ControlInv, [Next]_vars
      PROVE  \/ (Installed' \ Tracked') \subseteq (Installed \ Tracked)
             \/ Tracked # {} /\ \E m \in {"normal", "fd"} : Begin(m)
  <2>1. CASE UNCHANGED <<id, table>>
    BY <2>1 DEF Installed, Tracked
  <2>2. ASSUME NEW m \in {"normal", "fd"}, Begin(m)
        PROVE  \/ (Installed' \ Tracked') \subseteq (Installed \ Tracked)
               \/ Tracked # {} /\ \E n \in {"normal", "fd"} : Begin(n)
    BY <1>1, <2>2, CleanBeginTracks DEF ControlInv
  <2>3. CASE End
    <3>1. \A i \in FilterId : table'[i] # "unused" => table[i] # "unused" /\ i \notin Tracked
      BY <2>3 DEF End
    <3>2. QED
      BY <3>1 DEF Installed
  <2>4. ASSUME \/ \E k \in Kind : AddReceiveFilter(k)
               \/ \E m \in {"normal", "fd"} : BeginFails(m)
               \/ \E f \in Callback \union {NoCallback} : OnReceive(f)
               \/ SetUserData \/ Read \/ RxCallback \/ Worker
               \/ UNCHANGED vars
        PROVE  UNCHANGED <<id, table>>
    BY <2>4 DEF AddReceiveFilter, BeginFails, OnReceive, SetUserData, Read, RxCallback, Worker,
                TakeSem, GetFrame, Drained, LoadCallback, CallCallback, CallbackReturns, vars,
                control
  <2>5. QED
    BY <1>1, <2>1, <2>2, <2>3, <2>4 DEF Next
<1>2. ControlInv /\ [Next]_vars
        => [ (Installed' \ Tracked') \subseteq (Installed \ Tracked)
               \/ (Tracked # {} /\ \E m \in {"normal", "fd"} : Begin(m)) ]_vars
  BY <1>1
<1>3. QED
  BY <1>2, Controlling, PTL DEF Spec, FiltersLostByBeginOnly
=============================================================================
