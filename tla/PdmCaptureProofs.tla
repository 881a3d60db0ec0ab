---------------------------- MODULE PdmCaptureProofs ----------------------------
(***************************************************************************)
(* Proofs about PdmCapture, for any blocks, sizes and bounds.              *)
(***************************************************************************)
EXTENDS PdmCapture, FiniteSetTheorems, SequenceTheorems, TLAPS

Readers == {"sketch", "callback"}

-----------------------------------------------------------------------------
(* Types *)

\* Where a reader, a block in the thread's hand and a call of end can be.
PlaceInv ==
  /\ thread = "put" <=> buffer # NoBlock
  /\ reading["callback"] # "out" <=> thread = "inRead"
  /\ reading["sketch"] # "out" <=> sketch = "read"
  /\ \A a \in Readers : Inside(a) => a \in Reader
  /\ thread = "ending" => ended

TypeInv == TypeOK /\ PlaceInv

LEMMA AvailableType ==
  ASSUME NEW d \in Block \union {NoBlock}, NEW o \in 0 .. BlockSize, NEW q \in Seq(Block)
  PROVE  Available(d, o, q) \in Nat
<1>1. Len(q) * BlockSize \in Nat
  BY PdmAssumption, LenProperties
<1> QED BY <1>1, PdmAssumption DEF Available

LEMMA TypeInit == Init => TypeInv
<1> SUFFICES ASSUME Init PROVE TypeInv
  OBVIOUS
<1>1. /\ mic \in BOOLEAN /\ active \in BOOLEAN /\ onReceive \in BOOLEAN
      /\ overlap \in BOOLEAN /\ ended \in BOOLEAN
  BY Zenon DEF Init
<1>2. free \in SUBSET Block /\ filled \in Seq(Block) /\ queue \in Seq(Block)
  BY EmptySeq, Zenon DEF Init
<1>3. /\ buffer \in Block \union {NoBlock} /\ data \in Block \union {NoBlock}
      /\ offset \in 0 .. BlockSize /\ power \in Nat /\ last_avail \in Nat
      /\ captured \in Nat /\ consumed \in Nat /\ delivered \in Nat /\ failed \in Nat
  BY PdmAssumption DEF Init
<1>4. /\ task \in {"new", "ready", "suspended"}
      /\ thread \in {"read", "put", "callback", "inRead", "returned", "ending"}
      /\ sketch \in {"idle", "configure", "start", "activate", "suspend", "disable", "read"}
      /\ took \in SUBSET {"sketch", "callback"}
  BY DEF Init
<1>5. /\ reading \in [{"sketch", "callback"} -> ActorReading]
      /\ want \in [{"sketch", "callback"} -> Nat]
      /\ new_block \in [{"sketch", "callback"} -> Block \union {NoBlock}]
      /\ number \in [Block -> Nat]
  BY DEF Init, ActorReading
<1>6. PlaceInv
  BY DEF Init, PlaceInv, Inside, Readers
<1> QED BY <1>1, <1>2, <1>3, <1>4, <1>5, <1>6, Zenon DEF TypeInv, TypeOK

LEMMA PowerType == ASSUME TypeOK, PowerDown PROVE power' \in Nat
<1>1. power \in Nat
  BY DEF TypeOK
<1> QED BY <1>1 DEF PowerDown

\* The steps of the sketch other than read.
LEMMA SketchTypes ==
  ASSUME TypeInv,
         \/ Begin \/ BeginFails \/ ResumeThread \/ StartMic \/ Activate
         \/ End \/ Suspend \/ Deactivate \/ Register
  PROVE  TypeInv'
<1> USE DEF TypeInv, TypeOK, PlaceInv, Inside, pool, current, device, reader, log
<1>1. CASE Begin
  BY <1>1 DEF Begin
<1>2. CASE BeginFails
  BY <1>2 DEF BeginFails
<1>3. CASE ResumeThread
  BY <1>3 DEF ResumeThread
<1>4. CASE StartMic
  BY <1>4 DEF StartMic
<1>5. CASE Activate
  BY <1>5 DEF Activate
<1>6. CASE End
  BY <1>6 DEF End
<1>7. CASE Suspend
  BY <1>7 DEF Suspend
<1>8. CASE Deactivate
  <2>1. power' \in Nat
    BY <1>8, PowerType DEF Deactivate
  <2>2. UNCHANGED <<pool, current, mic, task, onReceive, thread, last_avail, reader, log>>
    BY <1>8 DEF Deactivate
  <2>3. sketch = "disable" /\ sketch' = "idle" /\ active' = FALSE
    BY <1>8 DEF Deactivate
  <2>4. PlaceInv'
    BY <2>2, <2>3
  <2>5. TypeOK'
    BY <2>1, <2>2, <2>3
  <2> QED BY <2>4, <2>5
<1>9. CASE Register
  BY <1>9 DEF Register
<1> QED BY <1>1, <1>2, <1>3, <1>4, <1>5, <1>6, <1>7, <1>8, <1>9

\* read, by either reader.
LEMMA ReadTypes ==
  ASSUME TypeInv, NEW a \in Readers,
         (\E size \in Request : ReadCall(a, size)) \/ Read(a)
  PROVE  TypeInv'
<1> USE DEF TypeInv, TypeOK, PlaceInv, Inside, Readers, pool, current, device, reader, log
<1>1. ASSUME NEW size \in Request, ReadCall(a, size) PROVE TypeInv'
  <2>1. size \in Nat
    BY PdmAssumption
  <2>2. overlap' \in BOOLEAN
    BY <1>1 DEF ReadCall
  <2> QED BY <1>1, <2>1, <2>2 DEF ReadCall, ActorReading
<1>2. CASE ReadCheck(a)
  BY <1>2 DEF ReadCheck, Returns, GoesOn, ActorReading
<1>3. CASE ReadGet(a)
  <2>1. queue # <<>> => Head(queue) \in Block /\ Tail(queue) \in Seq(Block)
    BY HeadTailProperties
  <2>2. CASE queue = <<>>
    BY <1>3, <2>2 DEF ReadGet, Returns, GoesOn, ActorReading
  <2>3. CASE queue # <<>>
    <3>1. queue' \in Seq(Block) /\ new_block' \in [{"sketch", "callback"} -> Block \union {NoBlock}]
      BY <1>3, <2>1, <2>3 DEF ReadGet
    <3>2. reading' = [reading EXCEPT ![a] = "set"] /\ UNCHANGED <<thread, sketch, want>>
      BY <1>3, <2>3 DEF ReadGet, GoesOn
    <3>3. reading' \in [{"sketch", "callback"} -> ActorReading]
      BY <3>2 DEF ActorReading
    <3>4. PlaceInv'
      BY <1>3, <3>2 DEF ReadGet
    <3>5. TypeOK'
      BY <1>3, <3>1, <3>2, <3>3 DEF ReadGet
    <3> QED BY <3>4, <3>5
  <2> QED BY <2>2, <2>3
<1>4. CASE ReadSet(a)
  BY <1>4, PdmAssumption DEF ReadSet, GoesOn, Takes, ActorReading
<1>5. CASE ReadCopy(a)
  <2> DEFINE n == Least(want[a], BlockSize - offset)
  <2>1. want[a] \in Nat /\ offset \in 0 .. BlockSize /\ BlockSize \in Nat
    BY PdmAssumption
  <2>2. n \in Nat /\ n <= want[a] /\ offset + n <= BlockSize
    BY <2>1 DEF Least
  <2> HIDE DEF n
  <2>3. want' = [want EXCEPT ![a] = want[a] - n] /\ offset' = offset + n /\ delivered' = delivered + n
    BY <1>5 DEF ReadCopy, n
  <2>4. want' \in [{"sketch", "callback"} -> Nat] /\ offset' \in 0 .. BlockSize /\ delivered' \in Nat
    BY <2>1, <2>2, <2>3
  <2> QED BY <1>5, <2>4 DEF ReadCopy, Takes, ActorReading
<1>6. CASE ReadFree(a)
  <2>1. free' \in SUBSET Block /\ data' \in Block \union {NoBlock} /\ consumed' \in Nat
    BY <1>6 DEF ReadFree
  <2> QED BY <1>6, <2>1 DEF ReadFree, GoesOn, ActorReading
<1> QED BY <1>1, <1>2, <1>3, <1>4, <1>5, <1>6 DEF Read

\* The receiving thread and the microphone.
LEMMA ThreadTypes ==
  ASSUME TypeInv,
         \/ Receive \/ Put \/ CallbackIdle \/ AfterCallback \/ CallbackEnds \/ CallbackEnded
         \/ \E b \in Block : Capture(b)
  PROVE  TypeInv'
<1> USE DEF TypeInv, TypeOK, PlaceInv, Inside, pool, current, device, reader, log
<1>1. CASE Receive
  <2>1. Head(filled) \in Block /\ Tail(filled) \in Seq(Block)
    BY <1>1, HeadTailProperties DEF Receive
  <2> QED BY <1>1, <2>1, PdmAssumption DEF Receive
<1>2. CASE Put
  <2>1. buffer \in Block
    BY <1>2 DEF Put
  <2>2. Append(queue, buffer) \in Seq(Block)
    BY <2>1, AppendProperties
  <2>3. Available(data, offset, Append(queue, buffer)) \in Nat
    BY <2>2, AvailableType
  <2>4. buffer' = NoBlock /\ thread' \in {"callback", "read"}
    BY <1>2 DEF Put
  <2>5. free' \in SUBSET Block /\ queue' \in Seq(Block) /\ last_avail' \in Nat
    <3>1. CASE Len(queue) < NumBlocks
      <4>1. free' = free /\ queue' = Append(queue, buffer)
        BY <1>2, <3>1 DEF Put
      <4>2. last_avail' = IF onReceive THEN Available(data, offset, queue') ELSE 0
        BY <1>2, <3>1, Zenon DEF Put
      <4>3. last_avail' \in Nat
        BY <2>3, <4>1, <4>2
      <4> QED BY <2>2, <4>1, <4>3
    <3>2. CASE ~(Len(queue) < NumBlocks)
      BY <1>2, <2>1, <3>2 DEF Put
    <3> QED BY <3>1, <3>2
  <2>6. thread = "put" /\ UNCHANGED <<filled, current, device, onReceive, sketch, reader, log>>
    BY <1>2 DEF Put
  <2>7. PlaceInv'
    BY <2>4, <2>6
  <2>8. TypeOK'
    BY <2>4, <2>5, <2>6
  <2> QED BY <2>7, <2>8
<1>3. CASE CallbackIdle
  BY <1>3 DEF CallbackIdle
<1>4. CASE AfterCallback
  <2>1. Available(data, offset, queue) \in Nat
    BY AvailableType
  <2>2. last_avail' \in Nat /\ thread' \in {"callback", "read"}
    BY <1>4, <2>1 DEF AfterCallback
  <2> QED BY <1>4, <2>2 DEF AfterCallback
<1>5. CASE CallbackEnds
  BY <1>5 DEF CallbackEnds
<1>6. CASE CallbackEnded
  <2>1. power' \in Nat
    BY <1>6, PowerType DEF CallbackEnded
  <2>2. PlaceInv'
    BY <1>6 DEF CallbackEnded
  <2>3. TypeOK'
    BY <1>6, <2>1 DEF CallbackEnded
  <2> QED BY <2>2, <2>3
<1>7. ASSUME NEW b \in Block, Capture(b) PROVE TypeInv'
  <2>1. Append(filled, b) \in Seq(Block)
    BY AppendProperties
  <2> QED BY <1>7, <2>1 DEF Capture
<1> QED BY <1>1, <1>2, <1>3, <1>4, <1>5, <1>6, <1>7

LEMMA TypeStep == TypeInv /\ [Next]_vars => TypeInv'
<1>1. ASSUME TypeInv, UNCHANGED vars PROVE TypeInv'
  BY <1>1 DEF vars, TypeInv, TypeOK, PlaceInv, Inside, pool, current, device, reader, log
<1> QED
  BY <1>1, SketchTypes, ReadTypes, ThreadTypes DEF Next, SketchStep, ThreadStep, Readers

LEMMA TypeInvariance == Spec => []TypeInv
  BY TypeInit, TypeStep, PTL DEF Spec

\* Every variable keeps its type, and the active block is never read past its
\* end, by either reader or both: PDM.cpp 303-340.
THEOREM Typing == Spec => []TypeOK
<1>1. TypeInv => TypeOK
  BY DEF TypeInv
<1> QED BY <1>1, TypeInvariance, PTL

-----------------------------------------------------------------------------
(* The status *)

\* What begin and end have done when they are half-way.
StatusInv ==
  ~ended =>
    /\ sketch \in {"idle", "read"} => /\ active => mic /\ task = "ready"
                                     /\ power = failed + (IF active THEN 1 ELSE 0)
    /\ sketch \in {"configure", "start", "activate"} => ~active /\ power = failed + 1
    /\ sketch \in {"start", "activate"} => task = "ready"
    /\ sketch = "activate" => mic
    /\ sketch \in {"suspend", "disable"} => active /\ power = failed + 1

LEMMA StatusStep == TypeInv /\ StatusInv /\ [Next]_vars => StatusInv'
<1> SUFFICES ASSUME TypeInv, StatusInv, [Next]_vars PROVE StatusInv'
  OBVIOUS
<1> USE DEF StatusInv, TypeInv, TypeOK, device
<1>1. CASE Begin
  BY <1>1, SMTT(60) DEF Begin, log
<1>2. CASE BeginFails
  BY <1>2, SMTT(60) DEF BeginFails
<1>3. CASE ResumeThread
  BY <1>3, SMTT(60) DEF ResumeThread, log
<1>4. CASE StartMic
  BY <1>4, SMTT(60) DEF StartMic, log
<1>5. CASE Activate
  BY <1>5, SMTT(60) DEF Activate, log
<1>6. CASE End
  BY <1>6, SMTT(60) DEF End, log
<1>7. CASE Suspend
  BY <1>7, SMTT(60) DEF Suspend, log
<1>8. CASE Deactivate
  BY <1>8, SMTT(60) DEF Deactivate, PowerDown, log
<1>9. ASSUME UNCHANGED <<mic, power, active, task, failed, ended>>,
             sketch' = sketch \/ {sketch, sketch'} \subseteq {"idle", "read"}
      PROVE  StatusInv'
  BY <1>9
<1>10. CASE Register
  BY <1>9, <1>10 DEF Register, log
<1>11. ASSUME NEW a \in Readers, (\E size \in Request : ReadCall(a, size)) \/ Read(a) PROVE StatusInv'
  <2>1. UNCHANGED <<mic, power, active, task, failed, ended>>
    BY <1>11 DEF ReadCall, Read, ReadCheck, ReadGet, ReadSet, ReadCopy, ReadFree, log
  <2>2. sketch' = sketch \/ {sketch, sketch'} \subseteq {"idle", "read"}
    BY <1>11 DEF ReadCall, Read, ReadCheck, ReadGet, ReadSet, ReadCopy, ReadFree, Returns, GoesOn,
                 PlaceInv, Readers
  <2> QED BY <1>9, <2>1, <2>2
<1>12. CASE Receive \/ Put \/ CallbackIdle \/ AfterCallback \/ \E b \in Block : Capture(b)
  BY <1>9, <1>12 DEF Receive, Put, CallbackIdle, AfterCallback, Capture, log
<1>13. CASE CallbackEnds
  BY <1>13 DEF CallbackEnds
<1>14. CASE CallbackEnded
  <2>1. ended /\ ended' = ended
    BY <1>14 DEF CallbackEnded, PlaceInv, log
  <2> QED BY <2>1
<1>15. CASE UNCHANGED vars
  BY <1>9, <1>15 DEF vars, log
<1> QED
  BY <1>1, <1>2, <1>3, <1>4, <1>5, <1>6, <1>7, <1>8, <1>10, <1>11, <1>12, <1>13, <1>14, <1>15
  DEF Next, SketchStep, ThreadStep, Readers

\* While the library is active the microphone is on, powered, and the thread
\* runs; each begin that failed leaves the regulator enabled once more.
THEOREM StatusTrue == Spec => []StatusIsTrue
<1>1. Init => StatusInv
  BY DEF Init, StatusInv
<1>2. StatusInv => StatusIsTrue
  BY DEF StatusInv, StatusIsTrue
<1> QED BY <1>1, <1>2, TypeInvariance, StatusStep, PTL DEF Spec

-----------------------------------------------------------------------------
(* Chains of blocks *)

\* The blocks u are different, are what is missing in the slab fr, and hold the
\* captures after the first cons up to capt in their order.
Chain(u, fr, num, cons, capt) ==
  /\ u \in Seq(Block)
  /\ \A i, j \in 1 .. Len(u) : i # j => u[i] # u[j]
  /\ fr \subseteq Block
  /\ \A x \in Block : x \in fr <=> \A i \in 1 .. Len(u) : u[i] # x
  /\ cons + Len(u) = capt
  /\ \A i \in 1 .. Len(u) : num[u[i]] = cons + i

LEMMA ChainAppend ==
  ASSUME NEW u, NEW fr, NEW num \in [Block -> Nat], NEW cons \in Nat, NEW capt \in Nat,
         Chain(u, fr, num, cons, capt), NEW b \in fr
  PROVE  Chain(Append(u, b), fr \ {b}, [num EXCEPT ![b] = capt + 1], cons, capt + 1)
<1> DEFINE v == Append(u, b)  m == [num EXCEPT ![b] = capt + 1]  n == Len(u)
<1>1. u \in Seq(Block) /\ b \in Block /\ n \in Nat
  BY LenProperties DEF Chain
<1>2. /\ v \in Seq(Block) /\ Len(v) = n + 1 /\ v[n + 1] = b
      /\ \A i \in 1 .. n : v[i] = u[i]
  BY <1>1, AppendProperties
<1> HIDE DEF v
<1>3. \A i \in 1 .. n : u[i] # b /\ u[i] \in Block
  BY <1>1, ElementOfSeq DEF Chain
<1>4. ASSUME NEW i \in 1 .. Len(v), NEW j \in 1 .. Len(v), i # j PROVE v[i] # v[j]
  <2>1. CASE i \in 1 .. n /\ j \in 1 .. n
    BY <1>2, <1>4, <2>1 DEF Chain
  <2>2. CASE i = n + 1 /\ j \in 1 .. n
    BY <1>2, <1>3, <2>2
  <2>3. CASE j = n + 1 /\ i \in 1 .. n
    BY <1>2, <1>3, <2>3
  <2> QED BY <1>1, <1>2, <1>4, <2>1, <2>2, <2>3
<1>5. ASSUME NEW x \in Block PROVE x \in fr \ {b} <=> \A i \in 1 .. Len(v) : v[i] # x
  <2>1. ASSUME \A i \in 1 .. Len(v) : v[i] # x PROVE b # x /\ \A i \in 1 .. n : u[i] # x
    <3>1. n + 1 \in 1 .. Len(v) /\ \A i \in 1 .. n : i \in 1 .. Len(v)
      BY <1>1, <1>2
    <3> QED BY <1>2, <2>1, <3>1
  <2>2. ASSUME b # x, \A i \in 1 .. n : u[i] # x, NEW i \in 1 .. Len(v) PROVE v[i] # x
    <3>1. i = n + 1 \/ i \in 1 .. n
      BY <1>1, <1>2
    <3> QED BY <1>2, <2>2, <3>1
  <2>3. x \in fr <=> \A i \in 1 .. n : u[i] # x
    BY DEF Chain
  <2> QED BY <2>1, <2>2, <2>3
<1>6. cons + Len(v) = capt + 1
  <2>1. cons + n = capt
    BY DEF Chain
  <2>2. n \in Nat /\ Len(v) = n + 1
    BY <1>1, <1>2
  <2> QED BY <2>1, <2>2
<1>7. \A i \in 1 .. Len(v) : m[v[i]] = cons + i
  <2> SUFFICES ASSUME NEW i \in 1 .. Len(v) PROVE m[v[i]] = cons + i
    OBVIOUS
  <2>1. CASE i = n + 1
    <3>1. m[b] = capt + 1
      BY <1>1
    <3>2. cons + n = capt /\ n \in Nat
      BY <1>1 DEF Chain
    <3>3. v[i] = b
      BY <1>2, <2>1
    <3>4. m[v[i]] = capt + 1
      BY <3>1, <3>3
    <3>5. cons + i = capt + 1
      BY <2>1, <3>2
    <3> QED BY <3>4, <3>5
  <2>2. CASE i \in 1 .. n
    <3>1. num[u[i]] = cons + i
      BY <2>2 DEF Chain
    <3> QED BY <1>2, <1>3, <2>2, <3>1
  <2> QED BY <1>1, <1>2, <2>1, <2>2
<1>8. fr \ {b} \subseteq Block
  BY DEF Chain
<1>9. Chain(v, fr \ {b}, m, cons, capt + 1)
  BY <1>2, <1>4, <1>5, <1>6, <1>7, <1>8 DEF Chain
<1> QED BY <1>9 DEF v

LEMMA ChainDrop ==
  ASSUME NEW v \in Seq(Block), NEW x \in Block, NEW fr, NEW num, NEW cons \in Nat, NEW capt \in Nat,
         Chain(<<x>> \o v, fr, num, cons, capt)
  PROVE  Chain(v, fr \union {x}, num, cons + 1, capt)
<1> DEFINE u == <<x>> \o v  n == Len(v)
<1>1. <<x>> \in Seq(Block) /\ Len(<<x>>) = 1 /\ <<x>>[1] = x
  OBVIOUS
<1>2. n \in Nat
  BY LenProperties
<1>3. /\ Len(u) = n + 1 /\ u[1] = x
      /\ \A i \in 1 .. n + 1 : u[i] = IF i <= 1 THEN <<x>>[i] ELSE v[i - 1]
  BY <1>1, <1>2, ConcatProperties
<1>4. \A i \in 1 .. n : u[i + 1] = v[i] /\ i + 1 \in 1 .. Len(u) /\ i + 1 # 1
  BY <1>2, <1>3
<1>5. Chain(u, fr, num, cons, capt)
  OBVIOUS
<1> HIDE DEF u
<1>6. \A i \in 1 .. n : v[i] # x
  BY <1>2, <1>3, <1>4, <1>5 DEF Chain
<1>7. ASSUME NEW i \in 1 .. n, NEW j \in 1 .. n, i # j PROVE v[i] # v[j]
  <2>1. i + 1 \in 1 .. Len(u) /\ j + 1 \in 1 .. Len(u) /\ i + 1 # j + 1
    BY <1>2, <1>3, <1>7
  <2>2. u[i + 1] # u[j + 1]
    BY <1>5, <2>1 DEF Chain
  <2> QED BY <1>4, <2>2
<1>8. ASSUME NEW y \in Block PROVE y \in fr \union {x} <=> \A i \in 1 .. n : v[i] # y
  <2>1. (\A i \in 1 .. Len(u) : u[i] # y) <=> x # y /\ \A i \in 1 .. n : v[i] # y
    <3>1. \A i \in 1 .. Len(u) : i = 1 \/ (i - 1 \in 1 .. n /\ u[i] = v[i - 1])
      BY <1>2, <1>3
    <3>2. 1 \in 1 .. Len(u)
      BY <1>2, <1>3
    <3>3. ASSUME \A i \in 1 .. Len(u) : u[i] # y PROVE x # y /\ \A i \in 1 .. n : v[i] # y
      BY <1>3, <1>4, <3>2, <3>3
    <3>4. ASSUME x # y, \A i \in 1 .. n : v[i] # y, NEW i \in 1 .. Len(u) PROVE u[i] # y
      BY <1>3, <3>1, <3>4
    <3> QED BY <3>3, <3>4
  <2>2. y \in fr <=> \A i \in 1 .. Len(u) : u[i] # y
    BY <1>5 DEF Chain
  <2> QED BY <1>6, <2>1, <2>2
<1>9. fr \union {x} \subseteq Block
  BY <1>5 DEF Chain
<1>10. cons + 1 + n = capt
  BY <1>2, <1>3, <1>5 DEF Chain
<1>11. \A i \in 1 .. n : num[v[i]] = cons + 1 + i
  <2> SUFFICES ASSUME NEW i \in 1 .. n PROVE num[v[i]] = cons + 1 + i
    OBVIOUS
  <2>1. num[u[i + 1]] = cons + (i + 1)
    BY <1>4, <1>5 DEF Chain
  <2> QED BY <1>4, <2>1
<1> QED BY <1>7, <1>8, <1>9, <1>10, <1>11 DEF Chain

\* There are no more blocks on their way than the slab has.
LEMMA ChainRoom ==
  ASSUME NEW u, NEW fr, NEW num, NEW cons, NEW capt, Chain(u, fr, num, cons, capt)
  PROVE  Len(u) <= NumBlocks
<1>1. /\ Len(u) \in Nat /\ u \in [1 .. Len(u) -> Block]
      /\ \A i, j \in 1 .. Len(u) : i # j => u[i] # u[j]
  BY LenProperties DEF Chain
<1>2. IsFiniteSet(1 .. Len(u)) /\ Cardinality(1 .. Len(u)) = Len(u)
  BY <1>1, FS_Interval
<1>3. IsFiniteSet(Block) /\ NumBlocks \in Nat
  BY PdmAssumption, FS_CardinalityType DEF NumBlocks
<1>4. ~(Cardinality(Block) < Cardinality(1 .. Len(u)))
  BY <1>1, <1>2, <1>3, FS_PigeonHole
<1> QED BY <1>1, <1>2, <1>3, <1>4 DEF NumBlocks

-----------------------------------------------------------------------------
(* The blocks on their way *)

\* The steps move blocks along Unread without changing it, except for a capture,
\* which appends, and the end of a block, which takes its head off.

LEMMA HeldType == ASSUME NEW x \in Block \union {NoBlock} PROVE Held(x) \in Seq(Block)
  BY EmptySeq DEF Held

LEMMA HeldBlock == ASSUME NEW x \in Block PROVE Held(x) = <<x>>
  BY PdmAssumption DEF Held

LEMMA HeldNone == Held(NoBlock) = <<>>
  BY DEF Held

LEMMA HeadThenTail ==
  ASSUME NEW s \in Seq(Block), s # <<>>
  PROVE  Head(s) \in Block /\ Tail(s) \in Seq(Block) /\ <<Head(s)>> \o Tail(s) = s
<1>1. Head(s) \in Block /\ Tail(s) \in Seq(Block) /\ Len(Tail(s)) = Len(s) - 1
      /\ \A i \in 1 .. Len(Tail(s)) : Tail(s)[i] = s[i + 1]
  BY HeadTailProperties
<1>2. Len(s) \in Nat \ {0} /\ s \in [1 .. Len(s) -> Block]
  BY LenProperties, EmptySeq
<1> DEFINE h == <<Head(s)>>  t == Tail(s)  u == h \o t
<1>3. h \in Seq(Block) /\ Len(h) = 1 /\ h[1] = s[1]
  BY <1>1
<1>4. u \in Seq(Block) /\ Len(u) = Len(s)
      /\ \A i \in 1 .. Len(s) : u[i] = IF i <= 1 THEN h[i] ELSE t[i - 1]
  BY <1>1, <1>2, <1>3, ConcatProperties
<1>5. u \in [1 .. Len(s) -> Block]
  BY <1>4, LenProperties
<1> HIDE DEF u
<1>6. ASSUME NEW i \in 1 .. Len(s) PROVE u[i] = s[i]
  <2>1. CASE i = 1
    BY <1>3, <1>4, <2>1
  <2>2. CASE i # 1
    BY <1>1, <1>2, <1>4, <2>2
  <2> QED BY <2>1, <2>2
<1>7. u = s
  BY <1>2, <1>5, <1>6
<1> QED BY <1>1, <1>7 DEF u

\* One reader at a time, and what it has made of the active block.
ReaderInv ==
  /\ ~(Inside("sketch") /\ Inside("callback"))
  /\ \A a \in Readers :
       /\ reading[a] = "set" <=> new_block[a] # NoBlock
       /\ reading[a] \in {"get", "set"} => data = NoBlock
       /\ reading[a] \in {"copy", "free"} => data # NoBlock

\* Unread of any blocks d, s, c, b and sequences q, f.
Path(d, s, c, q, b, f) == Held(d) \o Held(s) \o Held(c) \o q \o Held(b) \o f

AnyBlock == Block \union {NoBlock}

LEMMA PathType ==
  ASSUME NEW d \in AnyBlock, NEW s \in AnyBlock, NEW c \in AnyBlock, NEW q \in Seq(Block)
  PROVE  /\ Held(d) \o Held(s) \o Held(c) \in Seq(Block)
         /\ Held(d) \o Held(s) \o Held(c) \o q \in Seq(Block)
         /\ \A b \in AnyBlock : Held(d) \o Held(s) \o Held(c) \o q \o Held(b) \in Seq(Block)
         /\ \A b \in AnyBlock, f \in Seq(Block) : Path(d, s, c, q, b, f) \in Seq(Block)
<1>1. \A x \in AnyBlock : Held(x) \in Seq(Block)
  BY HeldType DEF AnyBlock
<1>2. Held(d) \o Held(s) \in Seq(Block)
  BY <1>1, ConcatProperties
<1>3. Held(d) \o Held(s) \o Held(c) \in Seq(Block)
  BY <1>1, <1>2, ConcatProperties
<1>4. Held(d) \o Held(s) \o Held(c) \o q \in Seq(Block)
  BY <1>3, ConcatProperties
<1>5. \A b \in AnyBlock : Held(d) \o Held(s) \o Held(c) \o q \o Held(b) \in Seq(Block)
  BY <1>1, <1>4, ConcatProperties
<1>6. \A b \in AnyBlock, f \in Seq(Block) : Path(d, s, c, q, b, f) \in Seq(Block)
  BY <1>5, ConcatProperties DEF Path
<1> QED BY <1>3, <1>4, <1>5, <1>6

\* Receive: a block goes from the driver to the hand of the thread.
LEMMA PathReceive ==
  ASSUME NEW d \in AnyBlock, NEW s \in AnyBlock, NEW c \in AnyBlock, NEW q \in Seq(Block),
         NEW f \in Seq(Block), f # <<>>
  PROVE  Path(d, s, c, q, Head(f), Tail(f)) = Path(d, s, c, q, NoBlock, f)
<1> DEFINE p == Held(d) \o Held(s) \o Held(c) \o q
<1>1. p \in Seq(Block)
  BY PathType
<1>2. Head(f) \in Block /\ Tail(f) \in Seq(Block) /\ <<Head(f)>> \o Tail(f) = f
  BY HeadThenTail
<1>3. Held(Head(f)) = <<Head(f)>> /\ Held(NoBlock) = <<>> /\ <<Head(f)>> \in Seq(Block)
  BY <1>2, HeldBlock, HeldNone
<1> HIDE DEF p
<1>4. (p \o <<Head(f)>>) \o Tail(f) = p \o (<<Head(f)>> \o Tail(f))
  BY <1>1, <1>2, <1>3, ConcatAssociative
<1>5. p \o <<>> = p
  BY <1>1, ConcatEmptySeq
<1>6. (p \o Held(Head(f))) \o Tail(f) = (p \o Held(NoBlock)) \o f
  BY <1>2, <1>3, <1>4, <1>5
<1> QED BY <1>6 DEF Path, p

\* Put: from there to the end of the queue.
LEMMA PathPut ==
  ASSUME NEW d \in AnyBlock, NEW s \in AnyBlock, NEW c \in AnyBlock, NEW q \in Seq(Block),
         NEW f \in Seq(Block), NEW x \in Block
  PROVE  /\ Path(d, s, c, Append(q, x), NoBlock, f) = Path(d, s, c, q, x, f)
         /\ Len(q) < Len(Path(d, s, c, q, x, f))
<1> DEFINE p == Held(d) \o Held(s) \o Held(c)
<1>1. p \in Seq(Block) /\ p \o q \in Seq(Block)
  BY PathType
<1>2. Held(x) = <<x>> /\ Held(NoBlock) = <<>> /\ <<x>> \in Seq(Block) /\ Len(<<x>>) = 1
  BY HeldBlock, HeldNone
<1> HIDE DEF p
<1>3. Append(q, x) = q \o <<x>> /\ Append(q, x) \in Seq(Block)
  BY AppendIsConcat, AppendProperties
<1>4. (p \o q) \o <<x>> = p \o (q \o <<x>>)
  BY <1>1, <1>2, ConcatAssociative
<1>5. p \o Append(q, x) \in Seq(Block)
  BY <1>1, <1>3, ConcatProperties
<1>6. (p \o Append(q, x)) \o <<>> = p \o Append(q, x)
  BY <1>5, ConcatEmptySeq
<1>7. ((p \o Append(q, x)) \o Held(NoBlock)) \o f = ((p \o q) \o Held(x)) \o f
  BY <1>2, <1>3, <1>4, <1>6
<1>8. /\ Len(p) \in Nat /\ Len(q) \in Nat /\ Len(f) \in Nat
      /\ Len(p \o q) = Len(p) + Len(q)
      /\ (p \o q) \o <<x>> \in Seq(Block)
      /\ Len((p \o q) \o <<x>>) = Len(p) + Len(q) + 1
  BY <1>1, <1>2, ConcatProperties, LenProperties
<1>9. Len(((p \o q) \o <<x>>) \o f) = Len(p) + Len(q) + 1 + Len(f)
  BY <1>8, ConcatProperties
<1>10. Len(q) < Len(((p \o q) \o Held(x)) \o f)
  BY <1>2, <1>8, <1>9
<1> QED BY <1>7, <1>10 DEF Path, p

Longer(f, x) == Append(f, x)

\* Capture: a block comes to the end.
LEMMA PathCapture ==
  ASSUME NEW d \in AnyBlock, NEW s \in AnyBlock, NEW c \in AnyBlock, NEW q \in Seq(Block),
         NEW b \in AnyBlock, NEW f \in Seq(Block), NEW x \in Block
  PROVE  Path(d, s, c, q, b, Longer(f, x)) = Longer(Path(d, s, c, q, b, f), x)
<1> DEFINE p == Held(d) \o Held(s) \o Held(c) \o q \o Held(b)
<1>1. p \in Seq(Block) /\ <<x>> \in Seq(Block)
  BY PathType
<1> HIDE DEF p
<1>2. p \o f \in Seq(Block)
  BY <1>1, ConcatProperties
<1>3. Append(f, x) = f \o <<x>> /\ Append(p \o f, x) = (p \o f) \o <<x>>
  BY <1>2, AppendIsConcat
<1>4. (p \o f) \o <<x>> = p \o (f \o <<x>>)
  BY <1>1, ConcatAssociative
<1>5. p \o Append(f, x) = Append(p \o f, x)
  BY <1>3, <1>4
<1> QED BY <1>5 DEF Path, Longer, p

\* read: a block goes from the head of the queue to the reader,
LEMMA PathGet ==
  ASSUME NEW q \in Seq(Block), q # <<>>, NEW b \in AnyBlock, NEW f \in Seq(Block)
  PROVE  /\ Path(NoBlock, Head(q), NoBlock, Tail(q), b, f)
               = Path(NoBlock, NoBlock, NoBlock, q, b, f)
         /\ Path(NoBlock, NoBlock, Head(q), Tail(q), b, f)
               = Path(NoBlock, NoBlock, NoBlock, q, b, f)
<1> DEFINE e == <<>>  h == <<Head(q)>>
<1>1. Head(q) \in Block /\ Tail(q) \in Seq(Block) /\ h \o Tail(q) = q
  BY HeadThenTail
<1>2. Held(Head(q)) = h /\ Held(NoBlock) = e /\ h \in Seq(Block) /\ e \in Seq(Block)
  BY <1>1, HeldBlock, HeldNone, EmptySeq
<1>3. e \o e = e /\ e \o h = h /\ h \o e = h /\ e \o q = q
  BY <1>2, ConcatEmptySeq
<1> HIDE DEF e, h
<1>4. ((e \o h) \o e) \o Tail(q) = ((e \o e) \o e) \o q
  BY <1>1, <1>3
<1>5. ((e \o e) \o h) \o Tail(q) = ((e \o e) \o e) \o q
  BY <1>1, <1>3
<1> QED BY <1>2, <1>4, <1>5 DEF Path

\* then it is the active one,
LEMMA PathSet ==
  ASSUME NEW x \in Block, NEW q, NEW b, NEW f
  PROVE  /\ Path(x, NoBlock, NoBlock, q, b, f) = Path(NoBlock, x, NoBlock, q, b, f)
         /\ Path(x, NoBlock, NoBlock, q, b, f) = Path(NoBlock, NoBlock, x, q, b, f)
<1> DEFINE e == <<>>  h == <<x>>
<1>1. Held(x) = h /\ Held(NoBlock) = e /\ h \in Seq(Block) /\ e \in Seq(Block)
  BY HeldBlock, HeldNone, EmptySeq
<1>2. e \o e = e /\ e \o h = h /\ h \o e = h
  BY <1>1, ConcatEmptySeq
<1> HIDE DEF e, h
<1>3. (h \o e) \o e = (e \o h) \o e /\ (h \o e) \o e = (e \o e) \o h
  BY <1>2
<1> QED BY <1>1, <1>3 DEF Path

\* and at its end it goes.
LEMMA PathFree ==
  ASSUME NEW x \in Block, NEW q \in Seq(Block), NEW b \in AnyBlock, NEW f \in Seq(Block)
  PROVE  Path(x, NoBlock, NoBlock, q, b, f) = <<x>> \o Path(NoBlock, NoBlock, NoBlock, q, b, f)
<1> DEFINE e == <<>>  h == <<x>>  g == Held(b)
<1>1. /\ <<x>> = h /\ Held(x) = h /\ Held(NoBlock) = e /\ Held(b) = g
      /\ h \in Seq(Block) /\ e \in Seq(Block) /\ g \in Seq(Block)
  BY HeldBlock, HeldNone, HeldType, EmptySeq DEF AnyBlock
<1>2. e \o e = e /\ h \o e = h /\ e \o q = q
  BY <1>1, ConcatEmptySeq
<1> HIDE DEF e, h, g
<1>3. q \o g \in Seq(Block)
  BY <1>1, ConcatProperties
<1>4. (h \o q) \o g = h \o (q \o g)
  BY <1>1, ConcatAssociative
<1>5. (h \o (q \o g)) \o f = h \o ((q \o g) \o f)
  <2> DEFINE r == q \o g
  <2>1. h \in Seq(Block) /\ r \in Seq(Block)
    BY <1>1, <1>3
  <2> HIDE DEF r
  <2>2. (h \o r) \o f = h \o (r \o f)
    BY <2>1, ConcatAssociative, SMTT(60)
  <2> QED BY <2>2 DEF r
<1>6. ((((h \o e) \o e) \o q) \o g) \o f = h \o (((((e \o e) \o e) \o q) \o g) \o f)
  BY <1>2, <1>4, <1>5
<1> QED BY <1>1, <1>6 DEF Path

-----------------------------------------------------------------------------
(* The pool *)

\* The bytes that have been delivered are the blocks that are done and the part
\* of the active one.
Account == delivered = consumed * BlockSize + (IF data = NoBlock THEN 0 ELSE offset)

InTransit == Chain(Unread, free, number, consumed, captured)

PoolInv == ~overlap => ReaderInv /\ InTransit /\ Account

LEMMA UnreadPath ==
  Unread = Path(data, new_block["sketch"], new_block["callback"], queue, buffer, filled)
  BY DEF Unread, Path

\* While one reader is inside read, the other one has no block.
LEMMA OtherOutside ==
  ASSUME TypeInv, ReaderInv, NEW a \in Readers, NEW o \in Readers \ {a}, Inside(a)
  PROVE  reading[o] = "out" /\ new_block[o] = NoBlock
<1>1. reading[o] = "out"
  BY DEF ReaderInv, Readers, Inside
<1> QED BY <1>1 DEF ReaderInv, Readers

LEMMA PoolCall ==
  ASSUME TypeInv, PoolInv, NEW a \in Readers, NEW size \in Request, ReadCall(a, size)
  PROVE  PoolInv'
<1> SUFFICES ASSUME ~overlap' PROVE ReaderInv' /\ InTransit' /\ Account'
  BY DEF PoolInv
<1>1. ~overlap /\ \A o \in Reader \ {a} : ~Inside(o)
  BY Zenon DEF ReadCall
<1>2. ReaderInv /\ InTransit /\ Account
  BY <1>1 DEF PoolInv
<1>3. reading' = [reading EXCEPT ![a] = "check"] /\ UNCHANGED <<new_block, data>>
  BY DEF ReadCall, current
<1>4. \A o \in Readers \ {a} : reading[o] = "out"
  BY <1>1 DEF TypeInv, PlaceInv, Inside
<1>5. ReaderInv'
  <2>1. reading[a] = "out"
    BY DEF ReadCall, TypeInv, PlaceInv, Readers
  <2>2. \A o \in Readers : reading'[o] = IF o = a THEN "check" ELSE reading[o]
    BY <1>3 DEF TypeInv, TypeOK, Readers
  <2> QED BY <1>2, <1>3, <1>4, <2>1, <2>2 DEF ReaderInv, Readers, Inside
<1> QED BY <1>2, <1>5 DEF ReadCall, InTransit, Account, Unread, pool, current

\* A step of a reader that leaves its place in read or read altogether and
\* keeps the blocks where they are.
LEMMA PoolCheck ==
  ASSUME TypeInv, PoolInv, NEW a \in Readers, ReadCheck(a)
  PROVE  PoolInv'
<1> SUFFICES ASSUME ~overlap PROVE ReaderInv' /\ InTransit' /\ Account'
  BY DEF PoolInv, ReadCheck, log
<1>1. ReaderInv /\ InTransit /\ Account
  BY DEF PoolInv
<1>2. /\ UNCHANGED <<new_block, data>>
      /\ \/ reading' = [reading EXCEPT ![a] = "out"]
         \/ reading' = [reading EXCEPT ![a] = "copy"] /\ data # NoBlock
         \/ reading' = [reading EXCEPT ![a] = "get"] /\ data = NoBlock
  BY DEF ReadCheck, Returns, GoesOn, current
<1>3. reading[a] = "check"
  BY DEF ReadCheck
<1>4. ReaderInv'
  <2>1. \A o \in Readers \ {a} : reading[o] = "out" /\ reading'[o] = "out" /\ new_block[o] = NoBlock
    BY <1>1, <1>2, <1>3, OtherOutside DEF Inside, TypeInv, TypeOK, Readers
  <2>2. new_block[a] = NoBlock
    BY <1>1, <1>3 DEF ReaderInv
  <2>3. \/ reading'[a] = "out"
        \/ reading'[a] = "copy" /\ data # NoBlock
        \/ reading'[a] = "get" /\ data = NoBlock
    BY <1>2 DEF TypeInv, TypeOK, Readers
  <2> QED BY <1>2, <2>1, <2>2, <2>3 DEF ReaderInv, Readers, Inside
<1> QED BY <1>1, <1>4 DEF ReadCheck, InTransit, Account, Unread, pool, current, log

LEMMA PoolGet ==
  ASSUME TypeInv, PoolInv, NEW a \in Readers, ReadGet(a)
  PROVE  PoolInv'
<1> SUFFICES ASSUME ~overlap PROVE ReaderInv' /\ InTransit' /\ Account'
  BY DEF PoolInv, ReadGet, log
<1>1. ReaderInv /\ InTransit /\ Account /\ reading[a] = "get" /\ data = NoBlock
  BY DEF PoolInv, ReadGet, ReaderInv
<1>2. new_block[a] = NoBlock
  BY <1>1 DEF ReaderInv
<1>3. \A o \in Readers \ {a} : reading[o] = "out" /\ new_block[o] = NoBlock
  BY <1>1, OtherOutside DEF Inside
<1>4. new_block["sketch"] = NoBlock /\ new_block["callback"] = NoBlock
  BY <1>2, <1>3 DEF Readers
<1>5. data' = NoBlock /\ Account'
  BY <1>1 DEF ReadGet, Account, current, log
<1>6. CASE queue = <<>>
  <2>1. reading' = [reading EXCEPT ![a] = "out"] /\ UNCHANGED <<queue, new_block>>
    BY <1>6 DEF ReadGet, Returns
  <2>2. \A o \in Readers : reading'[o] = "out" /\ new_block'[o] = NoBlock
    BY <1>2, <1>3, <2>1 DEF TypeInv, TypeOK, Readers
  <2>3. ReaderInv'
    BY <2>2 DEF ReaderInv, Readers, Inside
  <2> QED BY <1>1, <1>5, <2>1, <2>3 DEF ReadGet, InTransit, Unread, current, log
<1>7. CASE queue # <<>>
  <2>1. /\ reading' = [reading EXCEPT ![a] = "set"] /\ queue' = Tail(queue)
        /\ new_block' = [new_block EXCEPT ![a] = Head(queue)]
        /\ UNCHANGED <<data, buffer, filled, free, number, consumed, captured>>
    BY <1>7 DEF ReadGet, GoesOn, current, log
  <2>2. /\ queue \in Seq(Block) /\ buffer \in AnyBlock /\ filled \in Seq(Block)
        /\ Head(queue) \in Block /\ Head(queue) # NoBlock
    BY <1>7, HeadThenTail, PdmAssumption DEF TypeInv, TypeOK, AnyBlock
  <2>3. /\ \A o \in Readers \ {a} : reading'[o] = "out" /\ new_block'[o] = NoBlock
        /\ reading'[a] = "set" /\ new_block'[a] = Head(queue)
    BY <1>3, <2>1 DEF TypeInv, TypeOK, Readers
  <2>4. ReaderInv'
    BY <1>5, <2>2, <2>3 DEF ReaderInv, Readers, Inside
  <2>5. \/ new_block'["sketch"] = Head(queue) /\ new_block'["callback"] = NoBlock
        \/ new_block'["sketch"] = NoBlock /\ new_block'["callback"] = Head(queue)
    BY <2>3 DEF Readers
  <2>6. Unread' = Path(NoBlock, new_block'["sketch"], new_block'["callback"], Tail(queue), buffer, filled)
    BY <1>1, <2>1 DEF Unread, Path
  <2>7. Unread = Path(NoBlock, NoBlock, NoBlock, queue, buffer, filled)
    BY <1>1, <1>4, UnreadPath
  <2>8. Unread' = Unread
    BY <1>7, <2>2, <2>5, <2>6, <2>7, PathGet
  <2> QED BY <1>1, <1>5, <2>1, <2>4, <2>8 DEF InTransit
<1> QED BY <1>6, <1>7

LEMMA PoolSet ==
  ASSUME TypeInv, PoolInv, NEW a \in Readers, ReadSet(a)
  PROVE  PoolInv'
<1> SUFFICES ASSUME ~overlap PROVE ReaderInv' /\ InTransit' /\ Account'
  BY DEF PoolInv, ReadSet
<1>1. ReaderInv /\ InTransit /\ Account /\ reading[a] = "set" /\ data = NoBlock
  BY DEF PoolInv, ReadSet, ReaderInv
<1> DEFINE x == new_block[a]
<1>2. x \in Block
  BY <1>1 DEF ReaderInv, TypeInv, TypeOK, Readers
<1>3. \A o \in Readers \ {a} : reading[o] = "out" /\ new_block[o] = NoBlock
  BY <1>1, OtherOutside DEF Inside
<1>4. /\ data' = x /\ offset' = 0 /\ reading' = [reading EXCEPT ![a] = "copy"]
      /\ new_block' = [new_block EXCEPT ![a] = NoBlock]
      /\ UNCHANGED <<queue, buffer, filled, free, number, consumed, captured, delivered>>
  BY DEF ReadSet, GoesOn, pool
<1>5. /\ \A o \in Readers \ {a} : reading'[o] = "out" /\ new_block'[o] = NoBlock
      /\ reading'[a] = "copy" /\ new_block'[a] = NoBlock
  BY <1>3, <1>4 DEF TypeInv, TypeOK, Readers
<1>6. ReaderInv'
  BY <1>2, <1>4, <1>5, PdmAssumption DEF ReaderInv, Readers, Inside
<1>7. Account'
  BY <1>1, <1>4 DEF Account
<1>8. \/ new_block["sketch"] = x /\ new_block["callback"] = NoBlock
      \/ new_block["sketch"] = NoBlock /\ new_block["callback"] = x
  BY <1>3 DEF Readers
<1>9. Unread = Path(NoBlock, new_block["sketch"], new_block["callback"], queue, buffer, filled)
  BY <1>1, UnreadPath
<1>10. Unread' = Path(x, NoBlock, NoBlock, queue, buffer, filled)
  <2>1. new_block'["sketch"] = NoBlock /\ new_block'["callback"] = NoBlock
    BY <1>5 DEF Readers
  <2> QED BY <1>4, <2>1 DEF Unread, Path
<1>11. Unread' = Unread
  BY <1>2, <1>8, <1>9, <1>10, PathSet
<1> QED BY <1>1, <1>4, <1>6, <1>7, <1>11 DEF InTransit

LEMMA PoolCopy ==
  ASSUME TypeInv, PoolInv, NEW a \in Readers, ReadCopy(a)
  PROVE  PoolInv'
<1> SUFFICES ASSUME ~overlap PROVE ReaderInv' /\ InTransit' /\ Account'
  BY DEF PoolInv, ReadCopy
<1>1. ReaderInv /\ InTransit /\ Account /\ reading[a] = "copy" /\ data # NoBlock
  BY DEF PoolInv, ReadCopy, ReaderInv
<1> DEFINE n == Least(want[a], BlockSize - offset)
<1>2. /\ offset' = offset + n /\ delivered' = delivered + n
      /\ reading' = [reading EXCEPT ![a] = "free"]
      /\ UNCHANGED <<pool, data, new_block, number, consumed, captured>>
  BY DEF ReadCopy
<1>3. ReaderInv'
  <2>1. \A o \in Readers \ {a} : reading[o] = "out"
    BY <1>1, OtherOutside DEF Inside
  <2>2. reading'[a] = "free" /\ \A o \in Readers \ {a} : reading'[o] = reading[o]
    BY <1>2 DEF TypeInv, TypeOK, Readers
  <2> QED BY <1>1, <1>2, <2>1, <2>2 DEF ReaderInv, Readers, Inside
<1>4. Account'
  <2>1. want[a] \in Nat /\ offset \in 0 .. BlockSize /\ BlockSize \in Nat
    BY PdmAssumption DEF TypeInv, TypeOK, Readers
  <2>2. n \in Nat
    BY <2>1 DEF Least
  <2> DEFINE done == consumed * BlockSize
  <2>3. done \in Nat
    BY <2>1 DEF TypeInv, TypeOK
  <2>4. delivered = done + offset
    BY <1>1 DEF Account
  <2> HIDE DEF done, n
  <2>5. delivered' = done + offset'
    BY <1>2, <2>1, <2>2, <2>3, <2>4
  <2> QED BY <1>1, <1>2, <2>5 DEF Account, done
<1> QED BY <1>1, <1>2, <1>3, <1>4 DEF InTransit, Unread, pool

LEMMA PoolFree ==
  ASSUME TypeInv, PoolInv, NEW a \in Readers, ReadFree(a)
  PROVE  PoolInv'
<1> SUFFICES ASSUME ~overlap PROVE ReaderInv' /\ InTransit' /\ Account'
  BY DEF PoolInv, ReadFree
<1>1. ReaderInv /\ InTransit /\ Account /\ reading[a] = "free" /\ data # NoBlock
  BY DEF PoolInv, ReadFree, ReaderInv
<1>2. /\ reading' = [reading EXCEPT ![a] = "check"]
      /\ UNCHANGED <<filled, queue, buffer, offset, new_block, number, captured, delivered>>
  BY DEF ReadFree, GoesOn
<1>3. \A o \in Readers \ {a} : reading[o] = "out" /\ new_block[o] = NoBlock
  BY <1>1, OtherOutside DEF Inside
<1>4. /\ \A o \in Readers \ {a} : reading'[o] = "out" /\ new_block'[o] = NoBlock
      /\ reading'[a] = "check" /\ new_block'[a] = NoBlock
  BY <1>1, <1>2, <1>3 DEF TypeInv, TypeOK, Readers, ReaderInv
<1>5. ReaderInv'
  BY <1>4 DEF ReaderInv, Readers, Inside
<1>6. CASE ~(offset >= BlockSize)
  BY <1>1, <1>2, <1>5, <1>6 DEF ReadFree, InTransit, Account, Unread
<1>7. CASE offset >= BlockSize
  <2>1. data \in Block /\ offset = BlockSize /\ BlockSize \in Nat
    BY <1>1, <1>7, PdmAssumption DEF TypeInv, TypeOK
  <2>2. free' = free \union {data} /\ data' = NoBlock /\ consumed' = consumed + 1
    BY <1>1, <1>7 DEF ReadFree
  <2>3. /\ new_block["sketch"] = NoBlock /\ new_block["callback"] = NoBlock
        /\ new_block'["sketch"] = NoBlock /\ new_block'["callback"] = NoBlock
    BY <1>2, <1>4 DEF Readers
  <2> DEFINE v == Path(NoBlock, NoBlock, NoBlock, queue, buffer, filled)
  <2>4. queue \in Seq(Block) /\ filled \in Seq(Block) /\ buffer \in AnyBlock /\ NoBlock \in AnyBlock
    BY DEF TypeInv, TypeOK, AnyBlock
  <2>5. v \in Seq(Block)
    BY <2>4, PathType
  <2>6. Unread = <<data>> \o v
    BY <2>1, <2>3, <2>4, UnreadPath, PathFree
  <2>7. Unread' = v
    BY <1>2, <2>2, <2>3 DEF Unread, Path
  <2> HIDE DEF v
  <2>8. consumed \in Nat /\ captured \in Nat /\ delivered \in Nat
    BY DEF TypeInv, TypeOK
  <2>9. Chain(v, free \union {data}, number, consumed + 1, captured)
    BY <1>1, <2>1, <2>5, <2>6, <2>8, ChainDrop DEF InTransit
  <2>10. InTransit'
    BY <1>2, <2>2, <2>7, <2>9 DEF InTransit
  <2>11. Account'
    <3>1. (consumed + 1) * BlockSize = consumed * BlockSize + BlockSize
      BY <2>1, <2>8
    <3>2. delivered = consumed * BlockSize + BlockSize
      BY <1>1, <2>1 DEF Account
    <3>3. delivered' = (consumed + 1) * BlockSize + 0
      BY <1>2, <2>1, <2>8, <3>1, <3>2
    <3> QED BY <2>2, <3>3 DEF Account
  <2> QED BY <1>5, <2>10, <2>11
<1> QED BY <1>6, <1>7

LEMMA PoolReceive ==
  ASSUME TypeInv, PoolInv, Receive
  PROVE  PoolInv'
<1> SUFFICES ASSUME ~overlap PROVE ReaderInv' /\ InTransit' /\ Account'
  BY DEF PoolInv, Receive, log
<1>1. ReaderInv /\ InTransit /\ Account
  BY DEF PoolInv
<1>2. /\ buffer = NoBlock /\ filled # <<>> /\ buffer' = Head(filled) /\ filled' = Tail(filled)
      /\ UNCHANGED <<free, queue, current, reader, log>>
  BY DEF Receive, TypeInv, PlaceInv
<1>3. ReaderInv' /\ Account'
  BY <1>1, <1>2 DEF ReaderInv, Account, Inside, current, reader, log
<1> DEFINE s == new_block["sketch"]  c == new_block["callback"]
<1>4. /\ data \in AnyBlock /\ s \in AnyBlock /\ c \in AnyBlock
      /\ queue \in Seq(Block) /\ filled \in Seq(Block)
  BY DEF TypeInv, TypeOK, AnyBlock
<1>5. Unread = Path(data, s, c, queue, NoBlock, filled)
  BY <1>2, UnreadPath
<1>6. Unread' = Path(data, s, c, queue, Head(filled), Tail(filled))
  BY <1>2 DEF Unread, Path, current, reader
<1> HIDE DEF s, c
<1>7. Unread' = Unread
  BY <1>2, <1>4, <1>5, <1>6, PathReceive
<1> QED BY <1>1, <1>2, <1>3, <1>7 DEF InTransit, log

\* The queue has as many places as the slab has blocks: it is never full while
\* the thread has a block in its hand.
LEMMA PoolPut ==
  ASSUME TypeInv, PoolInv, Put
  PROVE  PoolInv'
<1> SUFFICES ASSUME ~overlap PROVE ReaderInv' /\ InTransit' /\ Account'
  BY DEF PoolInv, Put, log
<1>1. ReaderInv /\ InTransit /\ Account
  BY DEF PoolInv
<1> DEFINE s == new_block["sketch"]  c == new_block["callback"]
<1>2. /\ data \in AnyBlock /\ s \in AnyBlock /\ c \in AnyBlock
      /\ queue \in Seq(Block) /\ filled \in Seq(Block)
  BY DEF TypeInv, TypeOK, AnyBlock
<1>3. buffer \in Block
  BY DEF Put, TypeInv, TypeOK, PlaceInv
<1>4. Unread = Path(data, s, c, queue, buffer, filled)
  BY UnreadPath
<1> HIDE DEF s, c
<1>5. Len(queue) < NumBlocks
  <2>1. Len(queue) < Len(Unread)
    BY <1>2, <1>3, <1>4, PathPut
  <2>2. Len(Unread) <= NumBlocks
    BY <1>1, ChainRoom DEF InTransit
  <2>3. Len(queue) \in Nat /\ NumBlocks \in Nat /\ Len(Unread) \in Nat
    BY <1>1, <1>2, LenProperties, PdmAssumption, FS_CardinalityType DEF NumBlocks, InTransit, Chain
  <2> QED BY <2>1, <2>2, <2>3
<1>6. /\ buffer' = NoBlock /\ queue' = Append(queue, buffer)
      /\ UNCHANGED <<free, filled, current, reader, log>>
  BY <1>5 DEF Put
<1>7. ReaderInv' /\ Account'
  BY <1>1, <1>6 DEF ReaderInv, Account, Inside, current, reader, log
<1>8. Unread' = Path(data, s, c, Append(queue, buffer), NoBlock, filled)
  BY <1>6 DEF Unread, Path, current, reader, s, c
<1>9. Unread' = Unread
  BY <1>2, <1>3, <1>4, <1>8, PathPut
<1> QED BY <1>1, <1>6, <1>7, <1>9 DEF InTransit, log

LEMMA PoolCapture ==
  ASSUME TypeInv, PoolInv, NEW b \in Block, Capture(b)
  PROVE  PoolInv'
<1> SUFFICES ASSUME ~overlap PROVE ReaderInv' /\ InTransit' /\ Account'
  BY DEF PoolInv, Capture
<1>1. ReaderInv /\ InTransit /\ Account
  BY DEF PoolInv
<1>2. /\ b \in free /\ free' = free \ {b} /\ filled' = Append(filled, b)
      /\ captured' = captured + 1 /\ number' = [number EXCEPT ![b] = captured + 1]
      /\ UNCHANGED <<queue, buffer, current, reader, consumed, delivered>>
  BY DEF Capture
<1>3. ReaderInv' /\ Account'
  BY <1>1, <1>2 DEF ReaderInv, Account, Inside, current, reader
<1> DEFINE s == new_block["sketch"]  c == new_block["callback"]
<1>4. /\ data \in AnyBlock /\ s \in AnyBlock /\ c \in AnyBlock /\ buffer \in AnyBlock
      /\ queue \in Seq(Block) /\ filled \in Seq(Block)
  BY DEF TypeInv, TypeOK, AnyBlock
<1>5. Unread = Path(data, s, c, queue, buffer, filled)
  BY UnreadPath
<1>6. Unread' = Path(data, s, c, queue, buffer, Append(filled, b))
  BY <1>2 DEF Unread, Path, current, reader
<1> HIDE DEF s, c
<1>7. Unread' = Append(Unread, b)
  <2>1. Path(data, s, c, queue, buffer, Longer(filled, b))
          = Longer(Path(data, s, c, queue, buffer, filled), b)
    BY <1>4, PathCapture
  <2> QED BY <1>5, <1>6, <2>1, Zenon DEF Longer
<1>8. Chain(Append(Unread, b), free \ {b}, [number EXCEPT ![b] = captured + 1], consumed, captured + 1)
  <2>1. number \in [Block -> Nat] /\ consumed \in Nat /\ captured \in Nat
    BY DEF TypeInv, TypeOK
  <2> QED BY <1>1, <1>2, <2>1, ChainAppend DEF InTransit
<1>9. InTransit'
  BY <1>2, <1>7, <1>8 DEF InTransit
<1> QED BY <1>3, <1>9

\* The steps that move no block.
LEMMA PoolKept ==
  ASSUME PoolInv,
         UNCHANGED <<pool, current, reader, number, captured, consumed, delivered, overlap>>
  PROVE  PoolInv'
<1>1. UNCHANGED <<ReaderInv, Account>>
  BY DEF ReaderInv, Account, Inside, current, reader
<1>2. UNCHANGED Unread
  BY DEF Unread, pool, current, reader
<1>3. UNCHANGED InTransit
  BY <1>2 DEF InTransit, pool
<1> QED BY <1>1, <1>3 DEF PoolInv

LEMMA PoolStep == TypeInv /\ PoolInv /\ [Next]_vars => PoolInv'
<1> SUFFICES ASSUME TypeInv, PoolInv, [Next]_vars PROVE PoolInv'
  OBVIOUS
<1>1. ASSUME NEW a \in Readers, (\E size \in Request : ReadCall(a, size)) \/ Read(a) PROVE PoolInv'
  BY <1>1, PoolCall, PoolCheck, PoolGet, PoolSet, PoolCopy, PoolFree DEF Read
<1>2. CASE Begin \/ BeginFails \/ ResumeThread \/ StartMic \/ Activate
  BY <1>2, PoolKept DEF Begin, BeginFails, ResumeThread, StartMic, Activate, log
<1>3. CASE End \/ Suspend \/ Deactivate \/ Register
  BY <1>3, PoolKept DEF End, Suspend, Deactivate, Register, log
<1>4. CASE CallbackIdle \/ AfterCallback \/ CallbackEnds \/ CallbackEnded
  BY <1>4, PoolKept DEF CallbackIdle, AfterCallback, CallbackEnds, CallbackEnded, log
<1>5. CASE Receive \/ Put \/ \E b \in Block : Capture(b)
  BY <1>5, PoolReceive, PoolPut, PoolCapture
<1>6. CASE UNCHANGED vars
  BY <1>6, PoolKept DEF vars, log
<1> QED
  BY <1>1, <1>2, <1>3, <1>4, <1>5, <1>6 DEF Next, SketchStep, ThreadStep, Readers

LEMMA PoolInit == Init => PoolInv
<1> SUFFICES ASSUME Init PROVE ReaderInv /\ InTransit /\ Account
  BY DEF PoolInv
<1>1. ReaderInv
  BY DEF Init, ReaderInv, Readers, Inside
<1>2. Account
  BY PdmAssumption DEF Init, Account
<1>3. Unread = <<>>
  <2>1. <<>> \o <<>> = <<>>
    BY ConcatEmptySeq, EmptySeq
  <2>2. Unread = <<>> \o <<>> \o <<>> \o <<>> \o <<>> \o <<>>
    BY HeldNone DEF Init, Unread
  <2> QED BY <2>1, <2>2
<1>4. <<>> \in Seq(Block) /\ Len(<<>>) = 0
  BY EmptySeq
<1>5. Chain(<<>>, Block, number, 0, 0)
  BY <1>4 DEF Chain
<1>6. InTransit
  BY <1>3, <1>5 DEF Init, InTransit
<1> QED BY <1>1, <1>2, <1>6

LEMMA PoolInvariance == Spec => [](TypeInv /\ PoolInv)
<1>1. Init => TypeInv /\ PoolInv
  BY TypeInit, PoolInit
<1>2. TypeInv /\ PoolInv /\ [Next]_vars => TypeInv' /\ PoolInv'
  BY TypeStep, PoolStep
<1> QED BY <1>1, <1>2, PTL DEF Spec

\* No block is lost or in two places, for any number of blocks, while readers
\* do not meet inside read: PDM.cpp 173-207 and 303-340.
THEOREM NoBlockLost == Spec => []BlockInOnePlace
<1>1. TypeInv /\ PoolInv => BlockInOnePlace
  <2> SUFFICES ASSUME TypeInv, InTransit
               PROVE  /\ \A i, j \in DOMAIN Unread : i # j => Unread[i] # Unread[j]
                      /\ free = Block \ {Unread[i] : i \in DOMAIN Unread}
    BY DEF PoolInv, BlockInOnePlace
  <2>1. DOMAIN Unread = 1 .. Len(Unread)
    BY LenProperties DEF InTransit, Chain
  <2>2. \A i, j \in DOMAIN Unread : i # j => Unread[i] # Unread[j]
    BY <2>1 DEF InTransit, Chain
  <2>3. \A x : x \in free <=> x \in Block /\ ~(\E i \in DOMAIN Unread : Unread[i] = x)
    BY <2>1 DEF InTransit, Chain
  <2> QED BY <2>2, <2>3
<1> QED BY <1>1, PoolInvariance, PTL

\* What has been captured is read once, in its order and to the last byte, and
\* none is dropped by the queue.
THEOREM ReadOnceInOrder == Spec => []CapturedOnceInOrder
<1>1. TypeInv /\ PoolInv => CapturedOnceInOrder
  <2> SUFFICES ASSUME TypeInv, InTransit, Account
               PROVE  /\ consumed + Len(Unread) = captured
                      /\ \A i \in DOMAIN Unread : number[Unread[i]] = consumed + i
                      /\ delivered = consumed * BlockSize + (IF data = NoBlock THEN 0 ELSE offset)
    BY DEF PoolInv, CapturedOnceInOrder
  <2>1. DOMAIN Unread = 1 .. Len(Unread)
    BY LenProperties DEF InTransit, Chain
  <2> QED BY <2>1 DEF InTransit, Chain, Account
<1> QED BY <1>1, PoolInvariance, PTL

-----------------------------------------------------------------------------
(* Leftovers *)

\* The sketch has no turn between Receive and Put, and took is empty unless a
\* callback is under way.
ThreadInv ==
  /\ thread = "put" => task = "ready"
  /\ thread \in {"read", "put"} => took = {}

\* A reader copies only what is wanted and there: at least one byte.
WantInv ==
  /\ \A a \in Readers : reading[a] \in {"get", "set", "copy"} => want[a] > 0
  /\ data # NoBlock /\ (\A a \in Readers : reading[a] # "free") => offset < BlockSize

\* What is left, the block included that the callback has in its hand.
Left == Available(data, offset, queue) + (IF reading["callback"] = "set" THEN BlockSize ELSE 0)

InCallback == thread \in {"callback", "inRead", "returned", "ending"}

\* While the thread waits for the callback, last_avail is what is left as long
\* as nobody has taken data, and more than that once the callback has.
WaitInv ==
  InCallback =>
    \/ "sketch" \in took
    \/ Left = last_avail /\ (took = {} \/ reading["callback"] = "copy")
    \/ Left < last_avail /\ ("callback" \in took \/ reading["sketch"] = "set")

OfferInv == ThreadInv /\ (~overlap => WantInv /\ WaitInv)

\* What is available after each step of read.
LEMMA AvailableGet ==
  ASSUME NEW o \in 0 .. BlockSize, NEW q \in Seq(Block), q # <<>>
  PROVE  Available(NoBlock, o, q) = Available(NoBlock, o, Tail(q)) + BlockSize
<1>1. Len(q) \in Nat /\ Len(Tail(q)) = Len(q) - 1 /\ BlockSize \in Nat
  BY HeadTailProperties, LenProperties, PdmAssumption
<1> DEFINE n == Len(q)
<1> HIDE DEF n
<1>2. n * BlockSize = (n - 1) * BlockSize + BlockSize
  BY <1>1 DEF n
<1> QED BY <1>1, <1>2 DEF Available, n

LEMMA AvailableSet ==
  ASSUME NEW x \in Block, NEW o \in 0 .. BlockSize, NEW q \in Seq(Block)
  PROVE  Available(x, 0, q) = Available(NoBlock, o, q) + BlockSize
<1>1. Len(q) * BlockSize \in Nat /\ BlockSize \in Nat /\ x # NoBlock
  BY LenProperties, PdmAssumption
<1> QED BY <1>1 DEF Available

LEMMA AvailableCopy ==
  ASSUME NEW x \in Block, NEW o \in 0 .. BlockSize, NEW q \in Seq(Block),
         NEW n \in Nat \ {0}, o + n <= BlockSize
  PROVE  Available(x, o + n, q) < Available(x, o, q)
<1>1. Len(q) * BlockSize \in Nat /\ BlockSize \in Nat /\ x # NoBlock
  BY LenProperties, PdmAssumption
<1> QED BY <1>1 DEF Available

LEMMA AvailableFree ==
  ASSUME NEW x \in Block, NEW o \in 0 .. BlockSize, NEW q \in Seq(Block), o >= BlockSize
  PROVE  Available(NoBlock, o, q) = Available(x, o, q)
<1>1. Len(q) * BlockSize \in Nat /\ BlockSize \in Nat /\ x # NoBlock
  BY LenProperties, PdmAssumption
<1> QED BY <1>1 DEF Available

LEMMA LeftType == ASSUME TypeInv PROVE Left \in Nat /\ Available(data, offset, queue) \in Nat
<1>1. Available(data, offset, queue) \in Nat
  BY AvailableType DEF TypeInv, TypeOK
<1> QED BY <1>1, PdmAssumption DEF Left

LEMMA ThreadInvStep == TypeInv /\ ThreadInv /\ [Next]_vars => ThreadInv'
<1> SUFFICES ASSUME TypeInv, ThreadInv, [Next]_vars PROVE ThreadInv'
  OBVIOUS
<1> USE DEF ThreadInv, device, reader, log
<1>1. CASE Begin \/ BeginFails \/ ResumeThread \/ StartMic \/ Activate \/ End \/ Deactivate \/ Register
  BY <1>1 DEF Begin, BeginFails, ResumeThread, StartMic, Activate, End, Deactivate, Register
<1>2. CASE Suspend
  BY <1>2 DEF Suspend, SketchRuns, ThreadRuns
<1>3. ASSUME NEW a \in Readers, NEW size \in Request, ReadCall(a, size) PROVE ThreadInv'
  BY <1>3 DEF ReadCall
<1>4. ASSUME NEW a \in Readers, Read(a) PROVE ThreadInv'
  <2>1. a = "callback" => thread = "inRead"
    BY <1>4 DEF Read, ReadCheck, ReadGet, ReadSet, ReadCopy, ReadFree, TypeInv, PlaceInv
  <2>2. task' = task
    BY <1>4 DEF Read, ReadCheck, ReadGet, ReadSet, ReadCopy, ReadFree
  <2>3. thread' = thread \/ (a = "callback" /\ thread' = "returned")
    BY <1>4 DEF Read, ReadCheck, ReadGet, ReadSet, ReadCopy, ReadFree, Returns, GoesOn, Readers
  <2>4. took' = took \/ Takes(a)
    BY <1>4 DEF Read, ReadCheck, ReadGet, ReadSet, ReadCopy, ReadFree
  <2>5. a = "sketch" => SketchRuns
    BY <1>4 DEF Read, ReadCheck, ReadGet, ReadSet, ReadCopy, ReadFree, Runs
  <2>6. a = "sketch" => thread # "put"
    BY <2>5 DEF SketchRuns, ThreadRuns
  <2>7. thread' \in {"read", "put"} => thread = "read" \/ took' = took
    BY <2>1, <2>3, <2>6 DEF Readers
  <2> QED BY <2>1, <2>2, <2>3, <2>4, <2>6, <2>7 DEF Takes, Readers
<1>5. CASE Receive
  BY <1>5 DEF Receive, ThreadRuns
<1>6. CASE Put
  <2>1. thread = "put" /\ thread' \in {"read", "callback"} /\ took' = took
    BY <1>6 DEF Put
  <2> QED BY <2>1
<1>7. CASE CallbackIdle \/ CallbackEnds \/ CallbackEnded
  BY <1>7 DEF CallbackIdle, CallbackEnds, CallbackEnded
<1>8. CASE AfterCallback
  <2>1. thread' \in {"read", "callback"} /\ took' = {}
    BY <1>8 DEF AfterCallback
  <2> QED BY <2>1
<1>9. CASE (\E b \in Block : Capture(b)) \/ UNCHANGED vars
  BY <1>9 DEF Capture, vars
<1> QED
  BY <1>1, <1>2, <1>3, <1>4, <1>5, <1>6, <1>7, <1>8, <1>9
  DEF Next, SketchStep, ThreadStep, Readers

LEMMA OtherInside ==
  ASSUME TypeInv, PoolInv, ~overlap, NEW a \in Readers, Inside(a)
  PROVE  \A o \in Readers \ {a} : reading[o] = "out"
BY OtherOutside DEF PoolInv

\* A call of read finds nobody inside, unless the two overlap from now on.
LEMMA OfferCall ==
  ASSUME TypeInv, PoolInv, OfferInv, ~overlap', NEW a \in Readers, NEW size \in Request,
         ReadCall(a, size)
  PROVE  WantInv' /\ WaitInv'
<1>1. ~overlap /\ \A o \in Reader \ {a} : ~Inside(o)
  BY Zenon DEF ReadCall
<1>2. WantInv /\ WaitInv
  BY <1>1 DEF OfferInv
<1>3. reading[a] = "out" /\ \A o \in Readers \ {a} : reading[o] = "out"
  <2>1. reading[a] = "out"
    BY DEF ReadCall, TypeInv, PlaceInv
  <2>2. ASSUME NEW o \in Readers \ {a} PROVE reading[o] = "out"
    BY <1>1, <2>2 DEF TypeInv, PlaceInv, Inside
  <2> QED BY <2>1, <2>2
<1>4. /\ reading' = [reading EXCEPT ![a] = "check"]
      /\ UNCHANGED <<data, offset, queue, last_avail, took>>
  BY DEF ReadCall, pool, current
<1>5. /\ reading'[a] = "check" /\ \A o \in Readers \ {a} : reading'[o] = "out"
  BY <1>3, <1>4 DEF TypeInv, TypeOK, Readers
<1>6. WantInv'
  BY <1>2, <1>3, <1>4, <1>5 DEF WantInv, Readers
<1>7. Left' = Left
  BY <1>3, <1>4, <1>5 DEF Left, Readers
<1>8. InCallback' = InCallback
  BY DEF ReadCall, InCallback
<1>9. WaitInv'
  BY <1>2, <1>3, <1>4, <1>5, <1>7, <1>8 DEF WaitInv, Readers
<1> QED BY <1>6, <1>9

\* Where a reader goes inside read keeps the thread in its callback.
LEMMA ReadStays ==
  ASSUME TypeInv, NEW a \in Readers, Read(a)
  PROVE  InCallback' = InCallback /\ overlap' = overlap /\ last_avail' = last_avail
<1>1. a = "callback" => thread = "inRead"
  BY DEF Read, ReadCheck, ReadGet, ReadSet, ReadCopy, ReadFree, TypeInv, PlaceInv
<1>2. thread' = thread \/ (a = "callback" /\ thread' = "returned")
  BY DEF Read, ReadCheck, ReadGet, ReadSet, ReadCopy, ReadFree, Returns, GoesOn, Readers
<1>3. overlap' = overlap /\ last_avail' = last_avail
  BY DEF Read, ReadCheck, ReadGet, ReadSet, ReadCopy, ReadFree, log
<1> QED BY <1>1, <1>2, <1>3 DEF InCallback

LEMMA OfferCheck ==
  ASSUME TypeInv, PoolInv, OfferInv, ~overlap, NEW a \in Readers, ReadCheck(a)
  PROVE  WantInv' /\ WaitInv'
<1>1. WantInv /\ WaitInv
  BY DEF OfferInv
<1>2. reading[a] = "check" /\ \A o \in Readers \ {a} : reading[o] = "out"
  BY OtherInside DEF ReadCheck, Inside
<1>3. /\ UNCHANGED <<data, offset, queue, took>>
      /\ \/ reading' = [reading EXCEPT ![a] = "out"]
         \/ reading' = [reading EXCEPT ![a] = "copy"] /\ want[a] > 0 /\ want' = want
         \/ reading' = [reading EXCEPT ![a] = "get"] /\ want[a] > 0 /\ want' = want
  BY DEF ReadCheck, Returns, GoesOn, pool, current, log
<1>4. /\ \A o \in Readers \ {a} : reading'[o] = "out"
      /\ \/ reading'[a] = "out"
         \/ reading'[a] \in {"copy", "get"} /\ want'[a] > 0
  BY <1>2, <1>3 DEF TypeInv, TypeOK, Readers
<1>5. WantInv'
  BY <1>1, <1>2, <1>3, <1>4 DEF WantInv, Readers
<1>6. Left' = Left
  BY <1>2, <1>3, <1>4 DEF Left, Readers
<1>7. InCallback' = InCallback /\ last_avail' = last_avail
  BY ReadStays DEF Read
<1>8. WaitInv'
  BY <1>1, <1>2, <1>3, <1>4, <1>6, <1>7 DEF WaitInv, Readers
<1> QED BY <1>5, <1>8

LEMMA OfferGet ==
  ASSUME TypeInv, PoolInv, OfferInv, ~overlap, NEW a \in Readers, ReadGet(a)
  PROVE  WantInv' /\ WaitInv'
<1>1. WantInv /\ WaitInv
  BY DEF OfferInv
<1>2. reading[a] = "get" /\ \A o \in Readers \ {a} : reading[o] = "out"
  BY OtherInside DEF ReadGet, Inside
<1>3. data = NoBlock
  BY <1>2 DEF PoolInv, ReaderInv
<1>4. UNCHANGED <<data, offset, took>>
  BY DEF ReadGet, current, log
<1>5. InCallback' = InCallback /\ last_avail' = last_avail
  BY ReadStays DEF Read
<1>6. CASE queue = <<>>
  <2>1. reading' = [reading EXCEPT ![a] = "out"] /\ queue' = queue
    BY <1>6 DEF ReadGet, Returns
  <2>2. \A o \in Readers : reading'[o] = "out"
    BY <1>2, <2>1 DEF TypeInv, TypeOK, Readers
  <2>3. WantInv'
    BY <1>3, <1>4, <2>2 DEF WantInv
  <2>4. Left' = Left
    BY <1>2, <1>4, <2>1, <2>2 DEF Left, Readers
  <2>5. WaitInv'
    BY <1>1, <1>2, <1>4, <1>5, <2>2, <2>4 DEF WaitInv, Readers
  <2> QED BY <2>3, <2>5
<1>7. CASE queue # <<>>
  <2>1. reading' = [reading EXCEPT ![a] = "set"] /\ queue' = Tail(queue) /\ want' = want
    BY <1>7 DEF ReadGet, GoesOn
  <2>2. reading'[a] = "set" /\ \A o \in Readers \ {a} : reading'[o] = "out"
    BY <1>2, <2>1 DEF TypeInv, TypeOK, Readers
  <2>3. WantInv'
    BY <1>1, <1>2, <1>3, <1>4, <2>1, <2>2 DEF WantInv, Readers
  <2> DEFINE now == Available(data, offset, queue)
             then == Available(data', offset', queue')
  <2>4. now = then + BlockSize
    BY <1>3, <1>4, <1>7, <2>1, AvailableGet DEF TypeInv, TypeOK
  <2>5. now \in Nat /\ BlockSize \in Nat \ {0} /\ then \in Int
    <3>1. offset \in 0 .. BlockSize /\ Tail(queue) \in Seq(Block) /\ data \in Block \union {NoBlock}
      BY <1>7, HeadTailProperties DEF TypeInv, TypeOK
    <3>2. then \in Nat
      BY <1>4, <2>1, <3>1, AvailableType
    <3> QED BY <3>2, LeftType, PdmAssumption
  <2> HIDE DEF now, then
  <2>6. Left = now
    BY <1>2, <2>5 DEF Left, now, Readers
  <2>7. Left' = IF a = "callback" THEN then + BlockSize ELSE then
    BY <2>2, <2>5 DEF Left, then, Readers
  <2>8. CASE a = "callback"
    <3>1. Left' = Left
      BY <2>4, <2>6, <2>7, <2>8
    <3> QED BY <1>1, <1>2, <1>4, <1>5, <2>2, <2>3, <2>8, <3>1 DEF WaitInv, Readers
  <2>9. CASE a = "sketch"
    <3>1. Left' < Left
      BY <2>4, <2>5, <2>6, <2>7, <2>9
    <3>2. last_avail \in Nat /\ Left \in Nat /\ Left' \in Int
      BY <2>5, <2>7, LeftType DEF TypeInv, TypeOK
    <3>3. InCallback' => "sketch" \in took' \/ Left' < last_avail'
      BY <1>1, <1>4, <1>5, <3>1, <3>2 DEF WaitInv
    <3> QED BY <2>2, <2>3, <2>9, <3>3 DEF WaitInv
  <2> QED BY <2>8, <2>9 DEF Readers
<1> QED BY <1>6, <1>7

\* Whoever takes data while the callback is under way is in took.
LEMMA TookWhile ==
  ASSUME NEW a \in Readers, Takes(a), InCallback
  PROVE  took' = took \union {a}
BY DEF Takes, InCallback

LEMMA OfferSet ==
  ASSUME TypeInv, PoolInv, OfferInv, ~overlap, NEW a \in Readers, ReadSet(a)
  PROVE  WantInv' /\ WaitInv'
<1>1. WantInv /\ WaitInv
  BY DEF OfferInv
<1>2. reading[a] = "set" /\ \A o \in Readers \ {a} : reading[o] = "out"
  BY OtherInside DEF ReadSet, Inside
<1>3. data = NoBlock /\ new_block[a] \in Block
  BY <1>2 DEF PoolInv, ReaderInv, TypeInv, TypeOK, Readers
<1>4. /\ reading' = [reading EXCEPT ![a] = "copy"] /\ data' = new_block[a] /\ offset' = 0
      /\ queue' = queue /\ want' = want
  BY DEF ReadSet, GoesOn, pool
<1>5. InCallback' = InCallback /\ last_avail' = last_avail
  BY ReadStays DEF Read
<1>6. reading'[a] = "copy" /\ \A o \in Readers \ {a} : reading'[o] = "out"
  BY <1>2, <1>4 DEF TypeInv, TypeOK, Readers
<1>7. WantInv'
  BY <1>1, <1>2, <1>4, <1>6, PdmAssumption DEF WantInv, Readers
<1>8. ASSUME InCallback PROVE took' = took \union {a}
  BY <1>8, TookWhile DEF ReadSet
<1>9. CASE a = "sketch"
  BY <1>5, <1>7, <1>8, <1>9 DEF WaitInv
<1>10. CASE a = "callback"
  <2> DEFINE now == Available(data, offset, queue)
             then == Available(data', offset', queue')
  <2>1. then = now + BlockSize
    BY <1>3, <1>4, AvailableSet DEF TypeInv, TypeOK
  <2>2. now \in Nat /\ BlockSize \in Nat
    BY LeftType, PdmAssumption
  <2> HIDE DEF now, then
  <2>3. Left = now + BlockSize
    BY <1>2, <1>10 DEF Left, now
  <2>4. Left' = then
    BY <1>6, <1>10, <2>1, <2>2 DEF Left, then
  <2>5. Left' = Left
    BY <2>1, <2>3, <2>4
  <2>6. reading'["callback"] = "copy"
    BY <1>6, <1>10
  <2>7. reading["callback"] # "copy" /\ reading["sketch"] # "set"
    BY <1>2, <1>10 DEF Readers
  <2>8. WaitInv'
    BY <1>1, <1>5, <1>8, <1>10, <2>5, <2>6, <2>7 DEF WaitInv
  <2> QED BY <1>7, <2>8
<1> QED BY <1>9, <1>10 DEF Readers

LEMMA OfferCopy ==
  ASSUME TypeInv, PoolInv, OfferInv, ~overlap, NEW a \in Readers, ReadCopy(a)
  PROVE  WantInv' /\ WaitInv'
<1>1. WantInv /\ WaitInv
  BY DEF OfferInv
<1>2. reading[a] = "copy" /\ \A o \in Readers \ {a} : reading[o] = "out"
  BY OtherInside DEF ReadCopy, Inside
<1>3. data # NoBlock /\ data \in Block
  BY <1>2 DEF PoolInv, ReaderInv, TypeInv, TypeOK
<1> DEFINE n == Least(want[a], BlockSize - offset)
<1>4. n \in Nat \ {0} /\ offset + n <= BlockSize
  <2>1. want[a] \in Nat \ {0}
    BY <1>1, <1>2 DEF WantInv, TypeInv, TypeOK, Readers
  <2>2. offset \in 0 .. BlockSize /\ offset < BlockSize
    BY <1>1, <1>2, <1>3 DEF WantInv, TypeInv, TypeOK, Readers
  <2> QED BY <2>1, <2>2, PdmAssumption DEF Least
<1>5. /\ reading' = [reading EXCEPT ![a] = "free"] /\ offset' = offset + n
      /\ data' = data /\ queue' = queue
  BY DEF ReadCopy, pool
<1> HIDE DEF n
<1>6. InCallback' = InCallback /\ last_avail' = last_avail
  BY ReadStays DEF Read
<1>7. reading'[a] = "free" /\ \A o \in Readers \ {a} : reading'[o] = "out"
  BY <1>2, <1>5 DEF TypeInv, TypeOK, Readers
<1>8. WantInv'
  BY <1>7 DEF WantInv, Readers
<1>9. ASSUME InCallback PROVE took' = took \union {a}
  BY <1>9, TookWhile DEF ReadCopy
<1>10. CASE a = "sketch"
  BY <1>6, <1>8, <1>9, <1>10 DEF WaitInv
<1>11. CASE a = "callback"
  <2> DEFINE now == Available(data, offset, queue)
             then == Available(data', offset', queue')
  <2>1. then < now
    BY <1>3, <1>4, <1>5, AvailableCopy DEF TypeInv, TypeOK
  <2>2. now \in Nat /\ then \in Int
    <3>1. offset' \in 0 .. BlockSize /\ data' \in Block \union {NoBlock} /\ queue' \in Seq(Block)
      BY <1>4, <1>5, PdmAssumption DEF TypeInv, TypeOK
    <3>2. then \in Nat
      BY <3>1, AvailableType
    <3> QED BY <3>2, LeftType
  <2> HIDE DEF now, then
  <2>3. Left = now /\ Left' = then
    BY <1>2, <1>7, <1>11, <2>2 DEF Left, now, then
  <2>4. last_avail \in Nat
    BY DEF TypeInv, TypeOK
  <2>5. InCallback => "sketch" \in took \/ Left <= last_avail
    BY <1>1, <2>2, <2>3, <2>4 DEF WaitInv
  <2>6. InCallback => "sketch" \in took \/ Left' < last_avail
    BY <2>1, <2>2, <2>3, <2>4, <2>5
  <2>7. WaitInv'
    BY <1>6, <1>9, <1>11, <2>6 DEF WaitInv
  <2> QED BY <1>8, <2>7
<1> QED BY <1>10, <1>11 DEF Readers

LEMMA OfferFree ==
  ASSUME TypeInv, PoolInv, OfferInv, ~overlap, NEW a \in Readers, ReadFree(a)
  PROVE  WantInv' /\ WaitInv'
<1>1. WantInv /\ WaitInv
  BY DEF OfferInv
<1>2. reading[a] = "free" /\ \A o \in Readers \ {a} : reading[o] = "out"
  BY OtherInside DEF ReadFree, Inside
<1>3. data \in Block
  BY <1>2 DEF PoolInv, ReaderInv, TypeInv, TypeOK
<1>4. /\ reading' = [reading EXCEPT ![a] = "check"] /\ offset' = offset /\ queue' = queue
      /\ took' = took
      /\ \/ offset >= BlockSize /\ data' = NoBlock
         \/ ~(offset >= BlockSize) /\ data' = data
  BY DEF ReadFree, GoesOn
<1>5. InCallback' = InCallback /\ last_avail' = last_avail
  BY ReadStays DEF Read
<1>6. reading'[a] = "check" /\ \A o \in Readers \ {a} : reading'[o] = "out"
  BY <1>2, <1>4 DEF TypeInv, TypeOK, Readers
<1>7. WantInv'
  BY <1>4, <1>6, PdmAssumption DEF WantInv, TypeInv, TypeOK, Readers
<1>8. Available(data', offset', queue') = Available(data, offset, queue)
  BY <1>3, <1>4, AvailableFree DEF TypeInv, TypeOK
<1>9. Left' = Left
  BY <1>2, <1>6, <1>8 DEF Left, Readers
<1>10. WaitInv'
  BY <1>1, <1>2, <1>4, <1>5, <1>6, <1>9 DEF WaitInv, Readers
<1> QED BY <1>7, <1>10

\* The thread comes to the callback with what is left in last_avail.
LEMMA OfferPut ==
  ASSUME TypeInv, OfferInv, ~overlap, Put \/ AfterCallback
  PROVE  WantInv' /\ WaitInv'
<1>1. WantInv /\ took' = {}
  BY DEF OfferInv, ThreadInv, Put, AfterCallback, log
<1>2. /\ reading' = reading /\ want' = want /\ data' = data /\ offset' = offset
  BY DEF Put, AfterCallback, reader, current
<1>3. WantInv'
  BY <1>1, <1>2 DEF WantInv
<1>4. reading["callback"] = "out"
  BY DEF TypeInv, PlaceInv, Put, AfterCallback
<1>5. Available(data, offset, queue) \in Nat
  BY LeftType
<1>6. ASSUME InCallback' PROVE last_avail' = Available(data', offset', queue')
  <2>1. CASE Put
    <3>1. thread' \in {"callback", "read"}
      BY <2>1 DEF Put
    <3>2. thread' = "callback"
      BY <1>6, <3>1 DEF InCallback
    <3>3. Len(queue) < NumBlocks
      BY <2>1, <3>2 DEF Put
    <3>4. last_avail' = (IF onReceive THEN Available(data, offset, queue') ELSE 0) /\ last_avail' > 0
      BY <2>1, <3>2, <3>3 DEF Put
    <3> QED BY <1>2, <3>4
  <2>2. CASE AfterCallback
    <3>1. thread' = "callback"
      BY <1>6, <2>2 DEF AfterCallback, InCallback
    <3>2. last_avail' = Available(data, offset, queue) /\ queue' = queue
      BY <2>2, <3>1 DEF AfterCallback, pool
    <3> QED BY <1>2, <3>2
  <2> QED BY <2>1, <2>2
<1>7. Available(data', offset', queue') \in Nat
  <2>1. [Next]_vars
    BY DEF Next, ThreadStep
  <2>2. TypeInv'
    BY <2>1, TypeStep
  <2> QED BY <2>2, AvailableType DEF TypeInv, TypeOK
<1>8. ASSUME InCallback' PROVE Left' = last_avail'
  BY <1>2, <1>4, <1>6, <1>7, <1>8 DEF Left
<1>9. WaitInv'
  BY <1>1, <1>8 DEF WaitInv
<1> QED BY <1>3, <1>9

\* The steps that neither read nor come to the callback.
LEMMA OfferKept ==
  ASSUME OfferInv, ~overlap,
         UNCHANGED <<data, offset, queue, reading, want, last_avail, took>>, InCallback' => InCallback
  PROVE  WantInv' /\ WaitInv'
<1>1. UNCHANGED <<WantInv, Left>>
  BY DEF WantInv, Left
<1> QED BY <1>1 DEF OfferInv, WaitInv

LEMMA OfferStep == TypeInv /\ PoolInv /\ OfferInv /\ [Next]_vars => OfferInv'
<1> SUFFICES ASSUME TypeInv, PoolInv, OfferInv, [Next]_vars, ~overlap'
             PROVE  WantInv' /\ WaitInv'
  BY ThreadInvStep DEF OfferInv
<1>1. ASSUME NEW a \in Readers, NEW size \in Request, ReadCall(a, size) PROVE WantInv' /\ WaitInv'
  BY <1>1, OfferCall
<1>2. ASSUME NEW a \in Readers, Read(a) PROVE WantInv' /\ WaitInv'
  <2>1. ~overlap
    BY <1>2, ReadStays
  <2> QED BY <1>2, <2>1, OfferCheck, OfferGet, OfferSet, OfferCopy, OfferFree DEF Read
<1>3. CASE Put \/ AfterCallback
  <2>1. ~overlap
    BY <1>3 DEF Put, AfterCallback, log
  <2> QED BY <1>3, <2>1, OfferPut
<1>4. CASE Begin \/ BeginFails \/ ResumeThread \/ StartMic \/ Activate
  BY <1>4, OfferKept
  DEF Begin, BeginFails, ResumeThread, StartMic, Activate, InCallback, pool, current, reader, log
<1>5. CASE End \/ Suspend \/ Deactivate \/ Register
  BY <1>5, OfferKept DEF End, Suspend, Deactivate, Register, InCallback, pool, current, reader, log
<1>6. CASE Receive \/ CallbackIdle \/ CallbackEnds \/ CallbackEnded
  BY <1>6, OfferKept
  DEF Receive, CallbackIdle, CallbackEnds, CallbackEnded, InCallback, pool, current, reader, log
<1>7. CASE (\E b \in Block : Capture(b)) \/ UNCHANGED vars
  BY <1>7, OfferKept DEF Capture, vars, InCallback, pool, current, reader, log
<1> QED
  BY <1>1, <1>2, <1>3, <1>4, <1>5, <1>6, <1>7 DEF Next, SketchStep, ThreadStep, Readers

LEMMA OfferInit == Init => OfferInv
<1> SUFFICES ASSUME Init PROVE ThreadInv /\ WantInv /\ WaitInv
  BY DEF OfferInv
<1>1. ThreadInv /\ WaitInv
  BY DEF Init, ThreadInv, WaitInv, InCallback
<1>2. WantInv
  BY DEF Init, WantInv, Readers
<1> QED BY <1>1, <1>2

\* The thread does not go back to the microphone with leftovers that a callback
\* which takes them has not been offered, for any sizes and any number of
\* blocks: PDM.cpp 186-200.
THEOREM LeftoversAreOffered == Spec => LeftoversOffered
<1>1. ASSUME TypeInv, OfferInv, [Next]_vars, thread = "returned", thread' = "read", ~overlap
      PROVE  Available(data, offset, queue) = 0 \/ took # {"callback"}
  <2>1. WaitInv /\ InCallback
    BY <1>1 DEF OfferInv, InCallback
  <2>2. AfterCallback
    <3>1. ASSUME NEW a \in Readers, (\E size \in Request : ReadCall(a, size)) \/ Read(a) PROVE FALSE
      BY <1>1, <3>1 DEF ReadCall, Read, ReadCheck, ReadGet, ReadSet, ReadCopy, ReadFree, Returns,
                        GoesOn, Readers
    <3>2. CASE Begin \/ BeginFails \/ ResumeThread \/ StartMic \/ Activate \/ End \/ Suspend
               \/ Deactivate \/ Register \/ UNCHANGED vars \/ \E b \in Block : Capture(b)
      BY <1>1, <3>2 DEF Begin, BeginFails, ResumeThread, StartMic, Activate, End, Suspend,
                        Deactivate, Register, Capture, vars
    <3>3. CASE Receive \/ Put \/ CallbackIdle \/ CallbackEnds \/ CallbackEnded
      BY <1>1, <3>3 DEF Receive, Put, CallbackIdle, CallbackEnds, CallbackEnded
    <3> QED BY <1>1, <3>1, <3>2, <3>3 DEF Next, SketchStep, ThreadStep, Readers
  <2>3. Available(data, offset, queue) = last_avail \/ Available(data, offset, queue) = 0
    <3>1. Available(data, offset, queue) \in Nat
      BY <1>1, LeftType
    <3> QED BY <1>1, <2>2, <3>1 DEF AfterCallback
  <2>4. reading["callback"] = "out" /\ Left = Available(data, offset, queue)
    <3>1. reading["callback"] = "out"
      BY <1>1 DEF TypeInv, PlaceInv
    <3> QED BY <1>1, <3>1, LeftType DEF Left
  <2>5. last_avail \in Nat
    BY <1>1 DEF TypeInv, TypeOK
  <2>6. CASE Left < last_avail
    BY <2>3, <2>4, <2>5, <2>6
  <2>7. CASE ~(Left < last_avail)
    BY <2>1, <2>4, <2>7 DEF WaitInv
  <2> QED BY <2>6, <2>7
<1>2. TypeInv /\ OfferInv /\ [Next]_vars
        => [thread = "returned" /\ thread' = "read" /\ ~overlap
              => Available(data, offset, queue) = 0 \/ took # {"callback"}]_vars
  BY <1>1
<1> QED
  BY <1>2, OfferInit, OfferStep, PoolInvariance, PTL DEF Spec, LeftoversOffered


\* The callback is called again only with less left than before, unless the
\* sketch has read meanwhile (its unfinished read may put a block back in
\* sight): the loop of PDM.cpp 189-199 is over after as many calls as there
\* were bytes.
LoopShrinks ==
  [][thread = "returned" /\ thread' = "callback" /\ ~overlap /\ "sketch" \notin took
       => last_avail' \in Nat /\ last_avail' < last_avail]_vars

\* The loop over leftovers comes closer to its end with every call.
THEOREM LoopIsBounded == Spec => LoopShrinks
<1>1. ASSUME TypeInv, OfferInv, [Next]_vars, thread = "returned", thread' = "callback", ~overlap,
             "sketch" \notin took
      PROVE  last_avail' \in Nat /\ last_avail' < last_avail
  <2>1. WaitInv /\ InCallback
    BY <1>1 DEF OfferInv, InCallback
  <2>2. AfterCallback
    <3>1. ASSUME NEW a \in Readers, (\E size \in Request : ReadCall(a, size)) \/ Read(a) PROVE FALSE
      BY <1>1, <3>1 DEF ReadCall, Read, ReadCheck, ReadGet, ReadSet, ReadCopy, ReadFree, Returns,
                        GoesOn, Readers
    <3>2. CASE Begin \/ BeginFails \/ ResumeThread \/ StartMic \/ Activate \/ End \/ Suspend
               \/ Deactivate \/ Register \/ UNCHANGED vars \/ \E b \in Block : Capture(b)
      BY <1>1, <3>2 DEF Begin, BeginFails, ResumeThread, StartMic, Activate, End, Suspend,
                        Deactivate, Register, Capture, vars
    <3>3. CASE Receive \/ Put \/ CallbackIdle \/ CallbackEnds \/ CallbackEnded
      BY <1>1, <3>3 DEF Receive, Put, CallbackIdle, CallbackEnds, CallbackEnded
    <3> QED BY <1>1, <3>1, <3>2, <3>3 DEF Next, SketchStep, ThreadStep, Readers
  <2>3. Available(data, offset, queue) # last_avail /\ last_avail' = Available(data, offset, queue)
    BY <1>1, <2>2 DEF AfterCallback
  <2>4. Available(data, offset, queue) \in Nat
    BY <1>1, LeftType
  <2>5. reading["callback"] = "out" /\ Left = Available(data, offset, queue)
    <3>1. reading["callback"] = "out"
      BY <1>1 DEF TypeInv, PlaceInv
    <3> QED BY <1>1, <3>1, LeftType DEF Left
  <2>6. Left < last_avail
    BY <1>1, <2>1, <2>3, <2>5 DEF WaitInv
  <2> QED BY <2>3, <2>4, <2>5, <2>6
<1>2. TypeInv /\ OfferInv /\ [Next]_vars
        => [thread = "returned" /\ thread' = "callback" /\ ~overlap /\ "sketch" \notin took
              => last_avail' \in Nat /\ last_avail' < last_avail]_vars
  BY <1>1
<1> QED
  BY <1>2, OfferInit, OfferStep, PoolInvariance, PTL DEF Spec, LoopShrinks
=============================================================================
