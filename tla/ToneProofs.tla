----------------------------- MODULE ToneProofs -----------------------------
(***************************************************************************)
(* Proofs about the tone pool, for any number of threads, pins and slots   *)
(* and any bound on the toggles.                                           *)
(***************************************************************************)
EXTENDS Tone, FiniteSetTheorems, TLAPS

USE ToneAssumption

\* NoCall is none of the calls, so TypeOK tells a thread in a call from an
\* idle one by the pin it has.
LEMMA CallType ==
  ASSUME TypeOK, NEW t \in Thread, call[t] # NoCall
  PROVE  /\ call[t].pin \in Pin
         /\ call[t].req.toggles \in Nat
         /\ call[t].req.forever \in BOOLEAN
         /\ call[t].op \in {"tone", "noTone"}
<1>1. call[t] \in [pin : Pin, req : Request, op : {"tone", "noTone"}]
  BY DEF TypeOK
<1>2. call[t].req \in Request
  BY <1>1
<1>3. \A r \in Request : r.toggles \in Nat /\ r.forever \in BOOLEAN
  BY DEF Request
<1>4. QED
  BY <1>1, <1>2, <1>3

LEMMA RequestsTyped ==
  /\ Silence \in Request
  /\ \A r \in Request : r.toggles \in Nat /\ r.forever \in BOOLEAN
BY DEF Request, Silence

-----------------------------------------------------------------------------
(* Types *)

TypeInv == TypeOK /\ LockHeld

LEMMA CrowdedType ==
  ASSUME crowded \in BOOLEAN, [Next]_vars
  PROVE  crowded' \in BOOLEAN
<1>1. ASSUME NEW t \in Thread, NEW p \in Pin, NEW r, NEW o, Enter(t, p, r, o)
      PROVE  crowded' \in BOOLEAN
  BY <1>1, Zenon DEF Enter
<1>2. ASSUME NEW t \in Thread, ThreadStep(t) PROVE crowded' \in {crowded, FALSE}
  BY <1>2, Zenon DEF ThreadStep, FindOwn, FindFree, ConfigurePin, StopTimer, Silenced, Release,
                     DriveLow, Arm, DriveHigh, StartTimer, Leave, lock
<1>3. ASSUME NEW s \in Slot, Expire(s) PROVE crowded' = crowded
  BY <1>3, Zenon DEF Expire, ExpireLast, ExpireToggle, lock
<1>4. CASE UNCHANGED vars
  BY <1>4, Zenon DEF vars
<1>5. QED
  BY <1>1, <1>2, <1>3, <1>4, Zenon DEF Next

LEMMA InitTypeInv == Init => TypeInv
<1> SUFFICES ASSUME Init PROVE TypeInv
  OBVIOUS
<1>1. crowded \in BOOLEAN
  BY Zenon DEF Init
<1>2. QED
  BY <1>1 DEF Init, TypeInv, TypeOK, LockHeld, Slot, Idle

LEMMA TypeInvStep == TypeInv /\ [Next]_vars => TypeInv'
<1> SUFFICES ASSUME TypeInv, [Next]_vars PROVE TypeInv'
  OBVIOUS
<1>0. crowded' \in BOOLEAN
  BY CrowdedType DEF TypeInv, TypeOK
<1> USE DEF TypeInv, TypeOK, LockHeld, pool, lock, Goto, Idle, Free, Slot
<1>1. ASSUME NEW t \in Thread, NEW p \in Pin, NEW r \in Request,
             NEW o \in {"tone", "noTone"}, Enter(t, p, r, o)
      PROVE  TypeInv'
  <2>1. [pin |-> p, req |-> r, op |-> o]
          \in [pin : Pin, req : Request, op : {"tone", "noTone"}]
    OBVIOUS
  <2>2. [pin |-> p, req |-> r, op |-> o] # NoCall
    BY DEF NoCall
  <2>3. QED
    BY <1>0, <1>1, <2>1, <2>2 DEF Enter
<1>2. ASSUME NEW t \in Thread, ThreadStep(t) PROVE TypeInv'
  <2>0. pc[t] # Idle => call[t].pin \in Pin /\ call[t].req.toggles \in Nat /\ call[t].req.forever \in BOOLEAN
    BY CallType
  <2>1. CASE FindOwn(t)
    <3>1. at' \in [Thread -> Slot]
      <4>1. at[t] < NumSlots => at[t] + 1 \in Slot
        OBVIOUS
      <4>2. 1 \in Slot
        OBVIOUS
      <4> HIDE DEF TypeInv, TypeOK, Slot
      <4>3. PICK s \in Slot : at' \in {at, [at EXCEPT ![t] = s]}
        BY <2>1, <4>1, <4>2 DEF FindOwn
      <4>4. at \in [Thread -> Slot]
        BY DEF TypeInv, TypeOK
      <4>5. QED
        BY <4>3, <4>4
    <3>2. /\ \A u \in Thread \ {t} : pc'[u] = pc[u]
          /\ pc'[t] \in {"own", "found", "unlock", "free"}
          /\ pc' \in [Thread -> {Idle, "own", "free", "found", "stop", "silence", "low",
                               "arm", "high", "start", "unlock"}]
      BY <1>0, <2>1 DEF FindOwn
    <3>3. UNCHANGED <<pin, count, infinity, ticking, level, mutex, call>> /\ pc[t] # Idle
      BY <1>0, <2>1 DEF FindOwn
    <3>4. QED
      BY <1>0, <3>1, <3>2, <3>3
  <2>2. CASE FindFree(t)
    <3>1. at' \in [Thread -> Slot]
      <4>1. at[t] < NumSlots => at[t] + 1 \in Slot
        OBVIOUS
      <4> HIDE DEF TypeInv, TypeOK, Slot
      <4>2. at' = at \/ (at[t] + 1 \in Slot /\ at' = [at EXCEPT ![t] = at[t] + 1])
        BY <2>2, <4>1 DEF FindFree
      <4>3. at \in [Thread -> Slot]
        BY DEF TypeInv, TypeOK
      <4>4. QED
        BY <4>2, <4>3
    <3>2. /\ \A u \in Thread \ {t} : pc'[u] = pc[u]
          /\ pc'[t] \in {"free", "found", "unlock"}
          /\ pc' \in [Thread -> {Idle, "own", "free", "found", "stop", "silence", "low",
                               "arm", "high", "start", "unlock"}]
      BY <1>0, <2>2 DEF FindFree
    <3>3. UNCHANGED <<count, infinity, ticking, level, mutex, call>> /\ pc[t] # Idle
      BY <1>0, <2>2 DEF FindFree
    <3>4. pin' \in [Slot -> Pin \union {NoPin}]
      <4>1. call[t].pin \in Pin /\ at[t] \in Slot
        BY <2>0, <3>3
      <4>2. pin' \in {pin, [pin EXCEPT ![at[t]] = call[t].pin]}
        BY <1>0, <2>2 DEF FindFree
      <4>3. QED
        BY <4>1, <4>2
    <3>5. QED
      BY <1>0, <3>1, <3>2, <3>3, <3>4
  <2>3. CASE ConfigurePin(t)
    BY <1>0, <2>0, <2>3 DEF ConfigurePin
  <2>4. CASE StopTimer(t)
    BY <1>0, <2>4 DEF StopTimer
  <2>5. CASE Silenced(t)
    BY <1>0, <2>5 DEF Silenced
  <2>6. CASE Release(t)
    BY <1>0, <2>6 DEF Release
  <2>7. CASE DriveLow(t)
    BY <1>0, <2>0, <2>7 DEF DriveLow
  <2>8. CASE Arm(t)
    BY <1>0, <2>0, <2>8 DEF Arm, Clamped
  <2>9. CASE DriveHigh(t)
    BY <1>0, <2>0, <2>9 DEF DriveHigh
  <2>10. CASE StartTimer(t)
    BY <1>0, <2>10 DEF StartTimer
  <2>11. CASE Leave(t)
    BY <1>0, <2>11 DEF Leave
  <2>12. QED
    BY <1>2, <2>1, <2>2, <2>3, <2>4, <2>5, <2>6, <2>7, <2>8, <2>9, <2>10, <2>11 DEF ThreadStep
<1>3. ASSUME NEW s \in Slot, Expire(s) PROVE TypeInv'
  <2>1. CASE ExpireLast(s)
    BY <1>0, <2>1 DEF ExpireLast
  <2>2. CASE ExpireToggle(s)
    <3>1. count' \in [Slot -> 0 .. CountMod - 1]
      BY <2>2 DEF ExpireToggle
    <3>2. level' \in [Pin -> {0, 1}]
      BY <2>2 DEF ExpireToggle
    <3>3. UNCHANGED <<pin, infinity, ticking, lock, pc, call, at>>
      BY <2>2 DEF ExpireToggle
    <3>4. QED
      BY <1>0, <3>1, <3>2, <3>3
  <2>3. QED
    BY <1>3, <2>1, <2>2 DEF Expire
<1>4. CASE UNCHANGED vars
  BY <1>0, <1>4 DEF vars
<1>5. QED
  BY <1>1, <1>2, <1>3, <1>4, RequestsTyped DEF Next

\* Every variable has its type in every state of the program.
THEOREM Typing == Spec => []TypeOK
<1>1. TypeInv => TypeOK
  BY DEF TypeInv
<1>2. QED
  BY <1>1, InitTypeInv, TypeInvStep, PTL DEF Spec

-----------------------------------------------------------------------------
(* The pool *)

\* While a thread is in a call, every other thread is outside.
LEMMA Alone ==
  ASSUME TypeOK, LockHeld, NEW t \in Thread, pc[t] # Idle
  PROVE  /\ mutex = t
         /\ call[t].pin \in Pin
         /\ at[t] \in Slot
         /\ \A u \in Thread \ {t} : pc[u] = Idle
BY CallType DEF LockHeld, TypeOK

LEMMA InitPoolInv == Init => PoolInv
<1> SUFFICES ASSUME Init PROVE PoolInv
  OBVIOUS
<1>1. TypeOK /\ LockHeld
  BY InitTypeInv DEF TypeInv
<1>2. QED
  BY <1>1 DEF Init, PoolInv, Searching, Holding, OneSlotPerPin, SlotsAccounted, NoPinStuckHigh, Idle

\* The invariant is kept by every step of the thread that is in a call.
LEMMA ThreadStepKeepsPool ==
  ASSUME PoolInv, TypeInv', NEW t \in Thread, ThreadStep(t)
  PROVE  PoolInv'
<1>0. pc[t] # Idle
  BY DEF ThreadStep, FindOwn, FindFree, ConfigurePin, StopTimer, Silenced, Release, DriveLow, Arm, DriveHigh, StartTimer, Leave, Idle
<1>1. /\ mutex = t
      /\ call[t].pin \in Pin
      /\ at[t] \in Slot
      /\ \A u \in Thread \ {t} : pc[u] = Idle
  BY <1>0, Alone DEF PoolInv
<1> USE DEF PoolInv, TypeInv, TypeOK, Searching, Holding, OneSlotPerPin, SlotsAccounted, NoPinStuckHigh,
            Covered, pool, lock, Goto, Idle, Free
<1>2. CASE FindOwn(t)
  <2>1. /\ UNCHANGED <<pin, count, infinity, ticking, level, mutex, call>>
        /\ \A u \in Thread \ {t} : pc'[u] = pc[u]
        /\ pc[t] = "own"
    BY <1>2 DEF FindOwn
  <2>2. CASE pin[at[t]] = call[t].pin
    <3>1. pc'[t] = "found" /\ at' = at
      BY <1>2, <2>2 DEF FindOwn
    <3>2. QED
      BY <1>1, <2>1, <2>2, <3>1
  <2>3. CASE pin[at[t]] # call[t].pin /\ at[t] < NumSlots
    <3>1. pc'[t] = "own" /\ at'[t] = at[t] + 1
      BY <1>1, <1>2, <2>3 DEF FindOwn, Slot
    <3>2. \A s \in 1 .. at'[t] - 1 : pin[s] # call[t].pin
      <4>1. \A s \in 1 .. at[t] - 1 : pin[s] # call[t].pin
        BY <2>1
      <4>2. \A s \in 1 .. at'[t] - 1 : s \in 1 .. at[t] - 1 \/ s = at[t]
        BY <1>1, <3>1 DEF Slot
      <4>3. QED
        BY <2>3, <4>1, <4>2
    <3>3. QED
      BY <1>1, <2>1, <3>1, <3>2
  <2>4. CASE pin[at[t]] # call[t].pin /\ at[t] = NumSlots
    <3>1. pc'[t] \in {"unlock", "free"}
      BY <1>1, <1>2, <2>4 DEF FindOwn, Slot
    <3>2. \A s \in Slot : pin[s] # call[t].pin
      <4>1. \A s \in 1 .. at[t] - 1 : pin[s] # call[t].pin
        BY <2>1
      <4>2. \A s \in Slot : s \in 1 .. at[t] - 1 \/ s = at[t]
        BY <1>1, <2>4 DEF Slot
      <4>3. QED
        BY <2>4, <4>1, <4>2
    <3>3. Searching'
      BY <1>1, <2>1, <3>1, <3>2
    <3>4. Holding'
      BY <1>1, <2>1, <3>1
    <3>5. NoPinStuckHigh'
      BY <2>1
    <3>6. SlotsAccounted'
      BY <1>1, <2>1, <3>1, <3>2
    <3>7. LockHeld'
      OBVIOUS
    <3>8. QED
      BY <2>1, <3>3, <3>4, <3>5, <3>6, <3>7
  <2>5. QED
    BY <1>2, <2>2, <2>3, <2>4 DEF FindOwn
<1>3. CASE FindFree(t)
  BY <1>1, <1>3 DEF FindFree
<1>4. CASE ConfigurePin(t)
  BY <1>1, <1>4 DEF ConfigurePin
<1>5. CASE StopTimer(t)
  BY <1>1, <1>5 DEF StopTimer
<1>6. CASE Silenced(t)
  BY <1>1, <1>6 DEF Silenced
<1>7. CASE Release(t)
  BY <1>1, <1>7 DEF Release
<1>8. CASE DriveLow(t)
  BY <1>1, <1>8 DEF DriveLow
<1>9. CASE Arm(t)
  BY <1>1, <1>9 DEF Arm
<1>10. CASE DriveHigh(t)
  BY <1>1, <1>10 DEF DriveHigh
<1>11. CASE StartTimer(t)
  BY <1>1, <1>11 DEF StartTimer
<1>12. CASE Leave(t)
  BY <1>1, <1>12 DEF Leave
<1>13. QED
  BY <1>2, <1>3, <1>4, <1>5, <1>6, <1>7, <1>8, <1>9, <1>10, <1>11, <1>12 DEF ThreadStep

\* ... and by a thread that takes timer_cfg_lock.
LEMMA EnterKeepsPool ==
  ASSUME PoolInv, TypeInv', NEW t \in Thread, NEW p \in Pin, NEW r \in Request,
         NEW o \in {"tone", "noTone"}, Enter(t, p, r, o)
  PROVE  PoolInv'
<1> USE DEF PoolInv, TypeInv, TypeOK, LockHeld, Enter, pool, lock, Goto, Idle
<1>1. \A u \in Thread : pc[u] = Idle
  OBVIOUS
<1>2. /\ \A u \in Thread \ {t} : pc'[u] = Idle
      /\ pc'[t] = "own" /\ at'[t] = 1 /\ call'[t].pin = p /\ mutex' = t
      /\ UNCHANGED <<pin, count, infinity, ticking, level>>
  BY <1>1
<1>3. \A q \in Pin : level[q] = 1 => Covered(q)
  BY DEF NoPinStuckHigh, Covered
<1>4. Searching'
  BY <1>2, <1>3 DEF Searching, Covered
<1>5. Holding'
  BY <1>2 DEF Holding
<1>6. NoPinStuckHigh'
  BY <1>2, <1>3 DEF NoPinStuckHigh, Covered
<1>7. QED
  BY <1>2, <1>4, <1>5, <1>6 DEF OneSlotPerPin, SlotsAccounted

\* ... and by the timer interrupt, wherever the threads are.
LEMMA ExpireKeepsPool ==
  ASSUME PoolInv, TypeInv', NEW s \in Slot, Expire(s)
  PROVE  PoolInv'
<1> USE DEF PoolInv, TypeInv, TypeOK, OneSlotPerPin, SlotsAccounted, Idle, lock
<1>0. ticking[s] /\ pin[s] \in Pin
  BY DEF Expire, ExpireLast, ExpireToggle
<1>1. CASE ExpireLast(s)
  <2>1. /\ UNCHANGED <<mutex, pc, call, at>>
        /\ pin' = [pin EXCEPT ![s] = NoPin]
        /\ ticking' = [ticking EXCEPT ![s] = FALSE]
        /\ level' = [level EXCEPT ![pin[s]] = 0]
    BY <1>0, <1>1 DEF ExpireLast, Free
  <2>2. \A q \in Pin : level'[q] = 1 => level[q] = 1 /\ (Covered(q) => Covered(q)')
    BY <1>0, <2>1 DEF Covered
  <2>3. \A u \in Thread : pc[u] # Idle => call[u].pin \in Pin /\ at[u] \in Slot
    BY Alone
  <2>4. Searching'
    BY <2>1, <2>2, <2>3 DEF Searching
  <2>5. Holding'
    BY <1>0, <2>1, <2>3 DEF Holding
  <2>6. NoPinStuckHigh'
    BY <2>1, <2>2 DEF NoPinStuckHigh, Covered
  <2>7. QED
    BY <2>1, <2>4, <2>5, <2>6
<1>2. CASE ExpireToggle(s)
  <2>1. /\ UNCHANGED <<mutex, pc, call, at, pin, ticking>>
        /\ level' = [level EXCEPT ![pin[s]] = 1 - @]
    BY <1>0, <1>2 DEF ExpireToggle
  <2>2. Covered(pin[s])
    BY <1>0 DEF Covered
  <2>3. \A q \in Pin : level'[q] = 1 => level[q] = 1 \/ Covered(q)
    BY <1>0, <2>1, <2>2
  <2>4. \A u \in Thread : pc[u] # Idle => call[u].pin \in Pin
    BY Alone
  <2>5. Searching'
    BY <2>1, <2>3, <2>4 DEF Searching, Covered
  <2>6. Holding'
    BY <2>1 DEF Holding
  <2>7. NoPinStuckHigh'
    BY <2>1, <2>3 DEF NoPinStuckHigh, Covered
  <2>8. QED
    BY <2>1, <2>5, <2>6, <2>7
<1>3. QED
  BY <1>1, <1>2 DEF Expire

LEMMA PoolInvStep == PoolInv /\ [Next]_vars => PoolInv'
<1> SUFFICES ASSUME PoolInv, [Next]_vars PROVE PoolInv'
  OBVIOUS
<1>0. TypeInv'
  BY TypeInvStep DEF PoolInv, TypeInv
<1>1. CASE Next
  BY <1>0, <1>1, EnterKeepsPool, ThreadStepKeepsPool, ExpireKeepsPool, RequestsTyped DEF Next
<1>2. CASE UNCHANGED vars
  BY <1>2 DEF vars, PoolInv, TypeOK, LockHeld, Searching, Holding, Covered, OneSlotPerPin,
              SlotsAccounted, NoPinStuckHigh
<1>3. QED
  BY <1>1, <1>2

\* The invariant of the pool holds.
THEOREM PoolSafety == Spec => []PoolInv
BY InitPoolInv, PoolInvStep, PTL DEF Spec

\* A pin has one slot at most, however the calls and the interrupts meet.
THEOREM SlotOfPin == Spec => []OneSlotPerPin
<1>1. PoolInv => OneSlotPerPin
  BY DEF PoolInv
<1>2. QED
  BY <1>1, PoolSafety, PTL

\* A slot is taken exactly while its timer runs, but for the one that the call
\* under way has just taken or stopped: no slot is leaked.
THEOREM SlotsTaken == Spec => []SlotsAccounted
<1>1. PoolInv => SlotsAccounted
  BY DEF PoolInv
<1>2. QED
  BY <1>1, PoolSafety, PTL

\* No pin stays high without a timer, or a call, that is going to lower it.
THEOREM PinsGoLow == Spec => []NoPinStuckHigh
<1>1. PoolInv => NoPinStuckHigh
  BY DEF PoolInv
<1>2. QED
  BY <1>1, PoolSafety, PTL

\* A slot's pin is taken from it by its own timer or by a call for that pin.
LEMMA SlotsKeptStep ==
  ASSUME PoolInv, [Next]_vars, NEW s \in Slot, pin[s] # NoPin, pin'[s] # pin[s]
  PROVE  /\ pin'[s] = NoPin
         /\ \/ ticking[s] /\ count[s] = 0 /\ ~infinity[s]
            \/ \E t \in Thread : mutex = t /\ call[t].pin = pin[s]
<1> USE DEF PoolInv, TypeOK, Idle, pool, Free
<1>1. CASE Next
  <2>1. ASSUME NEW t \in Thread, ThreadStep(t)
        PROVE  pin'[s] = NoPin /\ mutex = t /\ call[t].pin = pin[s]
    <3>1. /\ FindFree(t) \/ Silenced(t) \/ Release(t) \/ Arm(t)
          /\ pc[t] # Idle
      BY <2>1 DEF ThreadStep, FindOwn, FindFree, ConfigurePin, StopTimer, Silenced, Release,
                  DriveLow, Arm, DriveHigh, StartTimer, Leave
    <3>2. at[t] \in Slot /\ mutex = t
      BY <3>1, Alone
    <3>3. s = at[t] /\ pc[t] \in {"free", "found", "silence", "arm"}
      BY <3>1, <3>2 DEF FindFree, Silenced, Release, Arm
    <3>4. QED
      BY <3>1, <3>2, <3>3 DEF FindFree, Silenced, Release, Arm, Holding
  <2>2. ASSUME NEW r \in Slot, Expire(r)
        PROVE  pin'[s] = NoPin /\ ticking[s] /\ count[s] = 0 /\ ~infinity[s]
    BY <2>2 DEF Expire, ExpireLast, ExpireToggle
  <2>3. QED
    BY <1>1, <2>1, <2>2 DEF Next, Enter
<1>2. CASE UNCHANGED vars
  BY <1>2 DEF vars
<1>3. QED
  BY <1>1, <1>2

\* A slot keeps its pin until its own tone has ended or a call for that pin
\* takes it.
THEOREM SlotsAreKept == Spec => SlotsKept
<1>1. PoolInv /\ [Next]_vars =>
        [\A s \in Slot : pin[s] # NoPin /\ pin'[s] # pin[s] =>
            /\ pin'[s] = NoPin
            /\ \/ ticking[s] /\ count[s] = 0 /\ ~infinity[s]
               \/ \E t \in Thread : mutex = t /\ call[t].pin = pin[s]]_vars
  BY SlotsKeptStep
<1>2. QED
  BY <1>1, InitPoolInv, PoolInvStep, PTL DEF Spec, SlotsKept

-----------------------------------------------------------------------------
(* Calls are atomic *)

ServeInv == PoolInv /\ CallPlace /\ RoomKept

\* A step of thread t, or of a timer, leaves the other calls alone.
LEMMA ServeInvStep == ServeInv /\ [Next]_vars => CallPlace' /\ RoomKept'
<1> SUFFICES ASSUME ServeInv, [Next]_vars PROVE CallPlace' /\ RoomKept'
  OBVIOUS
<1> USE DEF ServeInv, PoolInv, TypeOK, lock, pool, Goto, Idle
<1>1. ASSUME NEW t \in Thread, NEW p \in Pin, NEW r \in Request,
             NEW o \in {"tone", "noTone"}, Enter(t, p, r, o)
      PROVE  CallPlace' /\ RoomKept'
  <2>1. \A u \in Thread : pc[u] = Idle
    BY <1>1 DEF Enter, LockHeld
  <2>2. pc'[t] = "own" /\ \A u \in Thread \ {t} : pc'[u] = Idle
    BY <1>1, <2>1 DEF Enter
  <2>3. ~crowded' => \E s \in Slot : pin'[s] = NoPin
    BY <1>1, Zenon DEF Enter
  <2>4. CallPlace'
    BY <2>2 DEF CallPlace
  <2>5. RoomKept'
    BY <2>2, <2>3 DEF RoomKept
  <2>6. QED
    BY <2>4, <2>5
<1>2. ASSUME NEW t \in Thread, ThreadStep(t) PROVE CallPlace' /\ RoomKept'
  <2>1. pc[t] # Idle
    BY <1>2 DEF ThreadStep, FindOwn, FindFree, ConfigurePin, StopTimer, Silenced, Release, DriveLow,
                Arm, DriveHigh, StartTimer, Leave
  <2>2. /\ at[t] \in Slot /\ call[t].op \in {"tone", "noTone"}
        /\ \A u \in Thread \ {t} : pc[u] = Idle
    BY <2>1, Alone, CallType DEF LockHeld
  <2>3. \A u \in Thread \ {t} : pc'[u] = Idle
    BY <1>2, <2>2 DEF ThreadStep, FindOwn, FindFree, ConfigurePin, StopTimer, Silenced, Release,
                      DriveLow, Arm, DriveHigh, StartTimer, Leave
  <2>4. CASE FindOwn(t)
    <3>1. UNCHANGED <<pin, crowded, call>> /\ pc[t] = "own" /\ pc'[t] \in {"own", "found", "free", "unlock"}
      BY <2>4 DEF FindOwn
    <3>2. pc'[t] = "free" => at'[t] = 1 /\ call[t].op # "noTone"
      BY <2>4 DEF FindOwn
    <3>3. CallPlace'
      BY <2>2, <2>3, <3>1, <3>2 DEF CallPlace
    <3>4. RoomKept'
      <4>1. ASSUME ~crowded', pc'[t] \in {"own", "free"} PROVE \E s \in Slot : pin'[s] = NoPin
        BY <3>1, <4>1 DEF RoomKept
      <4>2. ASSUME ~crowded', pc'[t] = "free"
            PROVE  \E s \in Slot : s >= at'[t] /\ pin'[s] = NoPin
        BY <3>2, <4>1, <4>2 DEF Slot
      <4>3. QED
        BY <2>3, <3>1, <4>1, <4>2 DEF RoomKept
    <3>5. QED
      BY <3>3, <3>4
  <2>5. CASE FindFree(t)
    <3>1. UNCHANGED <<crowded, call>> /\ pc[t] = "free" /\ pc'[t] \in {"free", "found", "unlock"}
      BY <2>5 DEF FindFree
    <3>2. CallPlace'
      BY <2>3, <3>1 DEF CallPlace
    <3>3. pc'[t] = "free" => pin' = pin /\ pin[at[t]] # NoPin /\ at'[t] = at[t] + 1
      BY <2>2, <2>5 DEF FindFree
    <3>4. ASSUME ~crowded', pc'[t] = "free"
          PROVE  \E s \in Slot : s >= at'[t] /\ pin'[s] = NoPin
      <4>1. PICK s \in Slot : s >= at[t] /\ pin[s] = NoPin
        BY <3>1, <3>4 DEF RoomKept
      <4>2. s >= at'[t]
        BY <2>2, <3>3, <3>4, <4>1 DEF Slot
      <4>3. QED
        BY <3>3, <3>4, <4>1, <4>2
    <3>5. RoomKept'
      BY <2>3, <3>1, <3>4 DEF RoomKept
    <3>6. QED
      BY <3>2, <3>5
  <2>6. CASE Arm(t)
    <3>1. /\ pc'[t] = "high" /\ pc[t] = "arm" /\ UNCHANGED <<call, at>>
          /\ count'[at[t]] = Clamped(call[t].req.toggles)
          /\ infinity'[at[t]] = call[t].req.forever
      BY <2>2, <2>6 DEF Arm
    <3>2. QED
      BY <2>3, <3>1 DEF CallPlace, RoomKept
  <2>7. CASE ConfigurePin(t) \/ StopTimer(t) \/ Silenced(t) \/ Release(t) \/ DriveLow(t)
             \/ DriveHigh(t) \/ StartTimer(t) \/ Leave(t)
    <3>1. pc'[t] \notin {"own", "free"}
      BY <2>7 DEF ConfigurePin, StopTimer, Silenced, Release, DriveLow, DriveHigh, StartTimer, Leave
    <3>2. RoomKept'
      BY <2>3, <3>1 DEF RoomKept
    <3>3. CallPlace'
      BY <2>3, <2>7 DEF CallPlace, ConfigurePin, StopTimer, Silenced, Release, DriveLow, DriveHigh,
                        StartTimer, Leave
    <3>4. QED
      BY <3>2, <3>3
  <2>8. QED
    BY <1>2, <2>4, <2>5, <2>6, <2>7 DEF ThreadStep
<1>3. ASSUME NEW s \in Slot, Expire(s) PROVE CallPlace' /\ RoomKept'
  <2>1. UNCHANGED <<pc, call, at, crowded>> /\ \A r \in Slot : pin[r] = NoPin => pin'[r] = NoPin
    BY <1>3 DEF Expire, ExpireLast, ExpireToggle, Free
  <2>2. ticking[s] /\ \A r \in Slot \ {s} : count'[r] = count[r] /\ infinity'[r] = infinity[r]
    BY <1>3 DEF Expire, ExpireLast, ExpireToggle, Free
  <2>3. \A t \in Thread : pc[t] \in {"high", "start"} => at[t] \in Slot \ {s}
    BY <2>2, Alone DEF Holding
  <2>4. CallPlace'
    BY <2>1, <2>2, <2>3 DEF CallPlace
  <2>5. RoomKept'
    BY <2>1 DEF RoomKept
  <2>6. QED
    BY <2>4, <2>5
<1>4. CASE UNCHANGED vars
  BY <1>4 DEF vars, CallPlace, RoomKept
<1>5. QED
  BY <1>1, <1>2, <1>3, <1>4, RequestsTyped DEF Next

LEMMA Serving == Spec => []ServeInv
<1>1. Init => CallPlace /\ RoomKept
  BY DEF Init, CallPlace, RoomKept, Idle
<1>2. QED
  BY <1>1, InitPoolInv, PoolInvStep, ServeInvStep, PTL DEF Spec, ServeInv

\* What the step of a call does to its stage.
LEMMA StageMoves ==
  ASSUME TypeOK, NEW t \in Thread, NEW l, Goto(t, l)
  PROVE  [u \in Thread |-> StageAt(pc'[u])]
           = [[u \in Thread |-> StageAt(pc[u])] EXCEPT ![t] = StageAt(l)]
BY DEF TypeOK, Goto

LEMMA Stages ==
  /\ StageAt(Idle) = "idle"
  /\ StageAt("own") = "called" /\ StageAt("free") = "called"
  /\ StageAt("found") = "called" /\ StageAt("stop") = "called"
  /\ StageAt("silence") = "cut" /\ StageAt("arm") = "cut"
  /\ StageAt("high") = "cut" /\ StageAt("start") = "cut"
  /\ StageAt("low") = "done" /\ StageAt("unlock") = "done"
BY DEF StageAt, Idle

LEMMA OneChosen ==
  ASSUME NEW S, NEW s, S = {s}
  PROVE  S # {} /\ (CHOOSE x \in S : TRUE) = s
OBVIOUS

Quiet == [plays |-> FALSE, toggles |-> 0, forever |-> FALSE]
Sound(n, f) == [plays |-> TRUE, toggles |-> IF f THEN 0 ELSE n, forever |-> f]

LEMMA SameSound ==
  ASSUME NEW n, NEW m, NEW f, f \/ n = m
  PROVE  Sound(n, f) = Sound(m, f)
<1>1. CASE f
  BY <1>1, Zenon DEF Sound
<1>2. CASE n = m
  BY <1>2, Zenon
<1>3. QED
  BY <1>1, <1>2

\* A pin plays what its slot plays.
LEMMA Played ==
  ASSUME OneSlotPerPin, ToneAssumption, NEW s \in Slot, pin[s] \in Pin, ticking[s]
  PROVE  /\ PlayedBy(pin[s]) = {s}
         /\ ToneOn(pin[s]) = Sound(count[s], infinity[s])
<1>1. PlayedBy(pin[s]) = {s}
  BY DEF PlayedBy, OneSlotPerPin
<1>2. PlayedBy(pin[s]) # {} /\ (CHOOSE x \in PlayedBy(pin[s]) : TRUE) = s
  BY <1>1, OneChosen, Zenon
<1>3. QED
  BY <1>1, <1>2, Zenon DEF ToneOn, Sound

LEMMA Silent ==
  ASSUME NEW p, PlayedBy(p) = {}
  PROVE  ToneOn(p) = Quiet
BY DEF ToneOn, Quiet

\* A pin whose slot is left alone plays on.
LEMMA PlaysOn ==
  ASSUME NEW p, PlayedBy(p)' = PlayedBy(p),
         \A s \in PlayedBy(p) : infinity'[s] = infinity[s] /\ (infinity[s] \/ count'[s] = count[s])
  PROVE  ToneOn(p)' = ToneOn(p)
<1>1. CASE PlayedBy(p) = {}
  BY <1>1 DEF ToneOn
<1>2. CASE PlayedBy(p) # {}
  <2> DEFINE c == CHOOSE s \in PlayedBy(p) : TRUE
  <2>1. c \in PlayedBy(p)
    BY <1>2
  <2>2. c = CHOOSE s \in PlayedBy(p)' : TRUE
    OBVIOUS
  <2>3. infinity'[c] = infinity[c] /\ (infinity[c] \/ count'[c] = count[c])
    BY <2>1
  <2>4. ToneOn(p) = Sound(count[c], infinity[c])
    BY <1>2, Zenon DEF ToneOn, Sound
  <2>5. ToneOn(p)' = Sound(count'[c], infinity'[c])
    BY <1>2, <2>2, Zenon DEF ToneOn, Sound
  <2> HIDE DEF c
  <2>6. Sound(count'[c], infinity[c]) = Sound(count[c], infinity[c])
    BY <2>3, SameSound, Zenon
  <2>7. infinity[c] = infinity'[c]
    BY <2>3
  <2>8. QED
    BY <2>4, <2>5, <2>6, <2>7, Zenon
<1>3. QED
  BY <1>1, <1>2

LEMMA TonesKept ==
  ASSUME \A p \in Pin : ToneOn(p)' = ToneOn(p)
  PROVE  [p \in Pin |-> ToneOn(p)]' = [p \in Pin |-> ToneOn(p)]
OBVIOUS

LEMMA ToneChanges ==
  ASSUME NEW q \in Pin, NEW v, ToneOn(q)' = v, \A p \in Pin \ {q} : ToneOn(p)' = ToneOn(p)
  PROVE  [p \in Pin |-> ToneOn(p)]' = [[p \in Pin |-> ToneOn(p)] EXCEPT ![q] = v]
OBVIOUS

\* There is room as long as one timer does not run.
LEMMA Room ==
  ASSUME PoolInv
  PROVE  /\ Cardinality(Tones!Playing) \in Nat
         /\ Cardinality(Tones!Playing) >= NumSlots <=> \A s \in Slot : ticking[s]
<1> DEFINE T == {s \in Slot : ticking[s]}
           f == [s \in T |-> pin[s]]
<1>1. IsFiniteSet(Slot) /\ Cardinality(Slot) = NumSlots /\ NumSlots \in Nat
  <2>1. NumSlots \in Nat /\ NumSlots \in Int /\ 1 \in Int
    OBVIOUS
  <2>2. IsFiniteSet(Slot) /\ Cardinality(Slot) = IF 1 > NumSlots THEN 0 ELSE NumSlots - 1 + 1
    BY <2>1, FS_Interval DEF Slot
  <2>3. QED
    BY <2>2
<1>2. IsFiniteSet(T) /\ Cardinality(T) <= Cardinality(Slot) /\ (Cardinality(Slot) = Cardinality(T) => Slot = T)
  BY <1>1, FS_Subset
<1>3. \A s \in T : pin[s] \in Pin
  BY DEF PoolInv, SlotsAccounted, TypeOK
<1>4. \A p \in Pin : ToneOn(p).plays <=> \E s \in T : pin[s] = p
  <2>1. ASSUME NEW p \in Pin, NEW s \in T, pin[s] = p PROVE ToneOn(p).plays
    <3>1. ToneOn(p) = Sound(count[s], infinity[s])
      BY <1>3, <2>1, Played DEF PoolInv
    <3>2. Sound(count[s], infinity[s]).plays
      BY DEF Sound
    <3>3. QED
      BY <3>1, <3>2
  <2>2. ASSUME NEW p \in Pin, ~\E s \in T : pin[s] = p PROVE ~ToneOn(p).plays
    <3>1. PlayedBy(p) = {}
      BY <2>2 DEF PlayedBy
    <3>2. QED
      BY <3>1, Silent DEF Quiet
  <2>3. QED
    BY <2>1, <2>2
<1>5. \A p : p \in Tones!Playing <=> \E s \in T : pin[s] = p
  <2>1. Tones!Playing = {p \in Pin : ToneOn(p).plays}
    BY DEF Tones!Playing
  <2>2. QED
    BY <1>3, <1>4, <2>1
<1>6. f \in Bijection(T, Tones!Playing)
  <2>1. f \in [T -> Tones!Playing]
    BY <1>5
  <2>2. \A x, y \in T : f[x] = f[y] => x = y
    BY <1>3 DEF PoolInv, OneSlotPerPin
  <2>3. \A p \in Tones!Playing : \E s \in T : f[s] = p
    BY <1>5
  <2>4. DOMAIN f = T
    OBVIOUS
  <2> HIDE DEF f, T
  <2>5. IsInjective(f)
    BY <2>2, <2>4, Zenon DEF IsInjective
  <2>6. QED
    BY <2>1, <2>3, <2>5, Zenon DEF Bijection, Injection, Surjection
<1>7. Cardinality(Tones!Playing) = Cardinality(T)
  <2>1. ExistsBijection(T, Tones!Playing)
    BY <1>6 DEF ExistsBijection
  <2>2. QED
    BY <1>2, <2>1, FS_Bijection
<1>8. Cardinality(T) \in Nat
  BY <1>2, FS_CardinalityType
<1>9. Slot = T <=> \A s \in Slot : ticking[s]
  OBVIOUS
<1>10. Slot = T => Cardinality(T) = NumSlots
  BY <1>1
<1> HIDE DEF T
<1>11. QED
  BY <1>1, <1>2, <1>7, <1>8, <1>9, <1>10


(* The pool seen as AtomicTones *)

TonesNow == [p \in Pin |-> ToneOn(p)]
StageNow == [t \in Thread |-> StageAt(pc[t])]
Stutter == UNCHANGED <<TonesNow, StageNow, call, crowded>>
Staged(t, from, to) == StageNow[t] = from /\ StageNow' = [StageNow EXCEPT ![t] = to]
PlaysNow(p, v) == TonesNow' = [TonesNow EXCEPT ![p] = v]

LEMMA Stage ==
  ASSUME TypeOK, NEW t \in Thread, NEW l, Goto(t, l)
  PROVE  Staged(t, StageAt(pc[t]), StageAt(l))
BY StageMoves DEF Staged, StageNow

LEMMA SameStage ==
  ASSUME TypeOK, NEW t \in Thread, NEW l, Goto(t, l), StageAt(l) = StageAt(pc[t])
  PROVE  StageNow' = StageNow
BY StageMoves DEF StageNow

LEMMA AsStutter == Stutter => UNCHANGED Tones!vars
BY Zenon DEF Stutter, TonesNow, StageNow, Tones!vars

LEMMA AsHush ==
  ASSUME NEW t \in Thread, call[t].op = "noTone", Staged(t, "called", "done"),
         PlaysNow(call[t].pin, Quiet), UNCHANGED <<call, crowded>>
  PROVE  Tones!Next
BY Zenon DEF Staged, StageNow, PlaysNow, TonesNow, Quiet, Tones!Next, Tones!Hush, Tones!Moves, Tones!Plays,
             Tones!Quiet

LEMMA AsRefuse ==
  ASSUME NEW t \in Thread, call[t].op = "tone", crowded, TonesNow[call[t].pin] = Quiet,
         Staged(t, "called", "done"), UNCHANGED <<TonesNow, call, crowded>>
  PROVE  Tones!Next
BY Zenon DEF Staged, StageNow, TonesNow, Quiet, Tones!Next, Tones!Refuse, Tones!Moves, Tones!Quiet

LEMMA AsCut ==
  ASSUME NEW t \in Thread, call[t].op = "tone", Staged(t, "called", "cut"),
         PlaysNow(call[t].pin, Quiet), UNCHANGED <<call, crowded>>
  PROVE  Tones!Next
BY Zenon DEF Staged, StageNow, PlaysNow, TonesNow, Quiet, Tones!Next, Tones!Cut, Tones!Moves, Tones!Plays,
             Tones!Quiet

LEMMA AsStaySilent ==
  ASSUME NEW t \in Thread, call[t].req = Silence, Staged(t, "cut", "done"),
         UNCHANGED <<TonesNow, call, crowded>>
  PROVE  Tones!Next
BY Zenon DEF Staged, StageNow, TonesNow, Tones!Next, Tones!StaySilent, Tones!Moves

\* The abstract module counts as this one does.
LEMMA SameCount == ASSUME NEW S PROVE Tones!Cardinality(S) = Cardinality(S)
BY Zenon DEF Cardinality, Tones!Cardinality

LEMMA AsBegin ==
  ASSUME NEW t \in Thread, call[t].req # Silence, Staged(t, "cut", "done"),
         TonesNow[call[t].pin] = Quiet, Cardinality(Tones!Playing) < NumSlots,
         PlaysNow(call[t].pin, Tones!Begun(call[t].req)), UNCHANGED <<call, crowded>>
  PROVE  Tones!Next
BY SameCount, Zenon DEF Staged, StageNow, PlaysNow, TonesNow, Quiet, Tones!Next, Tones!Begin, Tones!Moves,
                        Tones!Plays, Tones!Quiet

LEMMA AsReturn ==
  ASSUME NEW t \in Thread, Staged(t, "done", "idle"), call' = [call EXCEPT ![t] = NoCall],
         crowded' = FALSE, TonesNow' = TonesNow
  PROVE  Tones!Next
BY Zenon DEF Staged, StageNow, TonesNow, Tones!Next, Tones!Return, Tones!Moves

LEMMA AsToggle ==
  ASSUME NEW p \in Pin, TonesNow[p].plays, ~TonesNow[p].forever, TonesNow[p].toggles > 0,
         PlaysNow(p, [TonesNow[p] EXCEPT !.toggles = TonesNow[p].toggles - 1]),
         UNCHANGED <<StageNow, call, crowded>>
  PROVE  Tones!Next
BY Zenon DEF StageNow, PlaysNow, TonesNow, Tones!Next, Tones!Toggle, Tones!Plays

LEMMA AsEnd ==
  ASSUME NEW p \in Pin, TonesNow[p].plays, ~TonesNow[p].forever, TonesNow[p].toggles = 0,
         PlaysNow(p, Quiet), UNCHANGED <<StageNow, call, crowded>>
  PROVE  Tones!Next
BY Zenon DEF StageNow, PlaysNow, TonesNow, Quiet, Tones!Next, Tones!End, Tones!Plays, Tones!Quiet

\* Pin p keeps its tone in a step that leaves its running timer alone.
LEMMA Undisturbed ==
  ASSUME NEW p,
         \A s \in Slot : pin'[s] = p /\ ticking'[s] <=> pin[s] = p /\ ticking[s],
         \A s \in Slot : pin[s] = p /\ ticking[s] =>
           infinity'[s] = infinity[s] /\ (infinity[s] \/ count'[s] = count[s])
  PROVE  ToneOn(p)' = ToneOn(p)
<1>1. PlayedBy(p)' = PlayedBy(p)
  BY DEF PlayedBy
<1>2. \A s \in PlayedBy(p) : infinity'[s] = infinity[s] /\ (infinity[s] \/ count'[s] = count[s])
  BY DEF PlayedBy
<1>3. QED
  BY <1>1, <1>2, PlaysOn, Zenon

\* Nothing is heard of a step that changes slots without a running timer.
LEMMA Unheard ==
  ASSUME \A s \in Slot :
           /\ ticking'[s] <=> ticking[s]
           /\ ticking[s] => /\ pin'[s] = pin[s] /\ infinity'[s] = infinity[s]
                            /\ infinity[s] \/ count'[s] = count[s]
  PROVE  TonesNow' = TonesNow
<1>1. ASSUME NEW p \in Pin PROVE ToneOn(p)' = ToneOn(p)
  <2>1. \A s \in Slot : pin'[s] = p /\ ticking'[s] <=> pin[s] = p /\ ticking[s]
    OBVIOUS
  <2>2. \A s \in Slot : pin[s] = p /\ ticking[s] =>
           infinity'[s] = infinity[s] /\ (infinity[s] \/ count'[s] = count[s])
    OBVIOUS
  <2>3. QED
    BY <2>1, <2>2, Undisturbed, Zenon
<1>2. QED
  BY <1>1, TonesKept, Zenon DEF TonesNow

\* A step that changes slot s only is heard on the pin of s only.
LEMMA Heard ==
  ASSUME NEW s \in Slot, NEW q \in Pin, NEW v, ToneOn(q)' = v,
         \A r \in Slot \ {s} : /\ pin'[r] = pin[r] /\ (ticking'[r] <=> ticking[r])
                               /\ infinity'[r] = infinity[r] /\ count'[r] = count[r],
         ticking[s] => pin[s] = q,
         ticking'[s] => pin'[s] = q
  PROVE  PlaysNow(q, v)
<1>1. ASSUME NEW p \in Pin \ {q} PROVE ToneOn(p)' = ToneOn(p)
  <2>1. \A r \in Slot : pin'[r] = p /\ ticking'[r] <=> pin[r] = p /\ ticking[r]
    OBVIOUS
  <2>2. \A r \in Slot : pin[r] = p /\ ticking[r] =>
           infinity'[r] = infinity[r] /\ (infinity[r] \/ count'[r] = count[r])
    OBVIOUS
  <2>3. QED
    BY <2>1, <2>2, Undisturbed, Zenon
<1>2. QED
  BY <1>1, ToneChanges, Zenon DEF PlaysNow, TonesNow

\* What a pin plays after a step.
LEMMA NextSound ==
  ASSUME NEW s \in Slot, NEW q, ticking'[s], pin'[s] = q,
         \A r \in Slot \ {s} : ~(pin'[r] = q /\ ticking'[r])
  PROVE  ToneOn(q)' = Sound(count'[s], infinity'[s])
<1>1. PlayedBy(q)' = {s}
  BY DEF PlayedBy
<1>2. PlayedBy(q)' # {} /\ (CHOOSE x \in PlayedBy(q)' : TRUE) = s
  BY <1>1, OneChosen, Zenon
<1>3. QED
  BY <1>1, <1>2, Zenon DEF ToneOn, Sound

LEMMA NextQuiet ==
  ASSUME NEW q, \A r \in Slot : ~(pin'[r] = q /\ ticking'[r])
  PROVE  ToneOn(q)' = Quiet
<1>1. PlayedBy(q)' = {}
  BY DEF PlayedBy
<1>2. QED
  BY <1>1, Zenon DEF ToneOn, Quiet

\* A pin without a running timer is quiet and stays so.
LEMMA StaysQuiet ==
  ASSUME NEW q \in Pin, \A s \in Slot : ~(pin[s] = q /\ ticking[s]), TonesNow' = TonesNow
  PROVE  TonesNow[q] = Quiet /\ PlaysNow(q, Quiet)
<1>1. PlayedBy(q) = {}
  BY DEF PlayedBy
<1>2. TonesNow[q] = Quiet
  BY <1>1, Silent DEF TonesNow
<1>3. TonesNow = [TonesNow EXCEPT ![q] = Quiet]
  BY <1>2 DEF TonesNow
<1>4. QED
  BY <1>2, <1>3 DEF PlaysNow


LEMMA AsCall ==
  ASSUME NEW t \in Thread, NEW p \in Pin, NEW r \in Request, NEW o \in {"tone", "noTone"},
         o = "noTone" => r = Silence,
         \A u \in Thread : StageNow[u] = "idle", Staged(t, "idle", "called"),
         call' = [call EXCEPT ![t] = [pin |-> p, req |-> r, op |-> o]],
         crowded' = (Cardinality(Tones!Playing) >= NumSlots), TonesNow' = TonesNow
  PROVE  Tones!Next
<1>1. Tones!Call(t, p, r, o)
  BY SameCount, Zenon DEF Staged, StageNow, TonesNow, Tones!Call, Tones!Moves
<1>2. CASE o = "tone"
  BY <1>1, <1>2, Zenon DEF Tones!Next
<1>3. CASE o = "noTone"
  BY <1>1, <1>3, Zenon DEF Tones!Next
<1>4. QED
  BY <1>2, <1>3

\* timer_cfg_lock is taken: the call is let in, and there is room for its tone
\* unless every slot is taken.
LEMMA EnterServes ==
  ASSUME ServeInv, NEW t \in Thread, NEW p \in Pin, NEW r \in Request, NEW o \in {"tone", "noTone"},
         o = "noTone" => r = Silence, Enter(t, p, r, o)
  PROVE  Tones!Next
<1>1. /\ TypeOK
      /\ \A u \in Thread : pc[u] = Idle
      /\ mutex = NoThread
  BY DEF ServeInv, PoolInv, LockHeld, Enter
<1>2. \A u \in Thread : StageNow[u] = "idle"
  BY <1>1, Stages DEF StageNow
<1>3. Staged(t, "idle", "called")
  <2>1. Goto(t, "own") /\ pc[t] = Idle
    BY <1>1 DEF Enter
  <2>2. QED
    BY <1>1, <2>1, Stage, Stages, Zenon
<1>4. TonesNow' = TonesNow
  <2>1. UNCHANGED pool
    BY Zenon DEF Enter
  <2>2. QED
    BY <2>1, Unheard DEF pool
<1>5. crowded' = (Cardinality(Tones!Playing) >= NumSlots)
  <2>1. (\A s \in Slot : pin[s] # NoPin) <=> \A s \in Slot : ticking[s]
    BY <1>1 DEF ServeInv, PoolInv, SlotsAccounted
  <2>2. Cardinality(Tones!Playing) >= NumSlots <=> \A s \in Slot : ticking[s]
    BY Room DEF ServeInv
  <2>3. crowded' = (\A s \in Slot : pin[s] # NoPin)
    BY Zenon DEF Enter
  <2> DEFINE full == \A s \in Slot : pin[s] # NoPin
             noRoom == Cardinality(Tones!Playing) >= NumSlots
  <2>4. full \in BOOLEAN /\ noRoom \in BOOLEAN /\ (full <=> noRoom) /\ crowded' = full
    BY <2>1, <2>2, <2>3
  <2> HIDE DEF full, noRoom
  <2>5. crowded' = noRoom
    BY <2>4
  <2>6. QED
    BY <2>5 DEF noRoom
<1>6. call' = [call EXCEPT ![t] = [pin |-> p, req |-> r, op |-> o]]
  BY Zenon DEF Enter
<1>7. QED
  BY <1>2, <1>3, <1>4, <1>5, <1>6, AsCall, Zenon

\* A step of a call is one of the abstract call, or nothing is seen of it.
LEMMA ThreadServes ==
  ASSUME ServeInv, NEW t \in Thread, ThreadStep(t)
  PROVE  Tones!Next \/ Stutter
<1>1. TypeOK /\ pc[t] # Idle
  BY DEF ServeInv, PoolInv, Idle, ThreadStep, FindOwn, FindFree, ConfigurePin, StopTimer, Silenced, Release, DriveLow,
         Arm, DriveHigh, StartTimer, Leave
<1>2. /\ mutex = t /\ call[t] # NoCall
      /\ call[t].pin \in Pin /\ at[t] \in Slot /\ call[t].op \in {"tone", "noTone"}
  BY <1>1, Alone, CallType DEF ServeInv, PoolInv, LockHeld
<1>3. /\ pin \in [Slot -> Pin \union {NoPin}]
      /\ ticking \in [Slot -> BOOLEAN]
      /\ infinity \in [Slot -> BOOLEAN]
      /\ count \in [Slot -> 0 .. CountMod - 1]
  BY <1>1 DEF TypeOK
<1>4. \A s \in Slot : ticking[s] => pin[s] # NoPin
  BY DEF ServeInv, PoolInv, SlotsAccounted
<1>5. PICK q \in Pin : q = call[t].pin
  BY <1>2
<1>6. CASE FindOwn(t)
  <2>1. UNCHANGED <<pool, call, crowded>> /\ pc[t] = "own"
    BY <1>6, Zenon DEF FindOwn, lock
  <2>2. TonesNow' = TonesNow
    BY <2>1, Unheard DEF pool
  <2>3. CASE StageNow' = StageNow
    BY <2>1, <2>2, <2>3, Zenon DEF Stutter
  <2>4. CASE StageNow' # StageNow
    <3>1. /\ pin[at[t]] # call[t].pin /\ at[t] = NumSlots
          /\ call[t].op = "noTone" /\ Goto(t, "unlock")
      <4>1. ~Goto(t, "found") /\ ~Goto(t, "free") /\ pc' # pc
        <5>1. ~Goto(t, "found") /\ ~Goto(t, "free")
          BY <1>1, <2>1, <2>4, SameStage, Stages, Zenon
        <5>2. pc' # pc
          BY <2>4, Zenon DEF StageNow
        <5>3. QED
          BY <5>1, <5>2
      <4>2. QED
        BY <1>2, <1>6, <4>1 DEF FindOwn
    <3>2. \A s \in Slot : pin[s] # call[t].pin
      <4>1. \A s \in 1 .. at[t] - 1 : pin[s] # call[t].pin
        BY <2>1 DEF ServeInv, PoolInv, Searching
      <4>2. \A s \in Slot : s \in 1 .. at[t] - 1 \/ s = at[t]
        BY <1>2, <3>1 DEF Slot
      <4>3. QED
        BY <3>1, <4>1, <4>2
    <3>3. PlaysNow(call[t].pin, Quiet)
      BY <1>2, <2>2, <3>2, StaysQuiet
    <3>4. Staged(t, "called", "done")
      BY <1>1, <2>1, <3>1, Stage, Stages, Zenon
    <3>5. QED
      BY <2>1, <3>1, <3>3, <3>4, AsHush, Zenon
  <2>5. QED
    BY <2>3, <2>4
<1>7. CASE FindFree(t)
  <2>1. UNCHANGED <<count, infinity, ticking, call, crowded>> /\ pc[t] = "free"
    BY <1>7, Zenon DEF FindFree, lock
  <2>2. \A s \in Slot : pin'[s] # pin[s] => ~ticking[s]
    BY <1>2, <1>3, <1>4, <1>7 DEF FindFree
  <2>3. TonesNow' = TonesNow
    BY <2>1, <2>2, Unheard
  <2>4. CASE StageNow' = StageNow
    BY <2>1, <2>3, <2>4, Zenon DEF Stutter
  <2>5. CASE StageNow' # StageNow
    <3>1. pin[at[t]] # NoPin /\ at[t] = NumSlots /\ Goto(t, "unlock")
      <4>1. ~Goto(t, "found")
        BY <1>1, <2>1, <2>5, SameStage, Stages, Zenon
      <4>2. pc' # pc
        BY <2>5, Zenon DEF StageNow
      <4>3. QED
        BY <1>2, <1>7, <4>1, <4>2 DEF FindFree
    <3>2. crowded
      <4>1. ~\E s \in Slot : s >= at[t] /\ pin[s] = NoPin
        BY <3>1 DEF Slot
      <4>2. crowded \/ \E s \in Slot : s >= at[t] /\ pin[s] = NoPin
        BY <2>1 DEF ServeInv, RoomKept
      <4>3. QED
        BY <4>1, <4>2, Zenon
    <3>3. call[t].op = "tone"
      BY <2>1 DEF ServeInv, CallPlace
    <3>4. \A s \in Slot : pin[s] # call[t].pin
      BY <2>1 DEF ServeInv, PoolInv, Searching
    <3>5. TonesNow[call[t].pin] = Quiet
      BY <1>2, <2>3, <3>4, StaysQuiet
    <3>6. Staged(t, "called", "done")
      BY <1>1, <2>1, <3>1, Stage, Stages, Zenon
    <3>7. QED
      BY <2>1, <2>3, <3>2, <3>3, <3>5, <3>6, AsRefuse, Zenon
  <2>6. QED
    BY <2>4, <2>5
<1>8. CASE ConfigurePin(t) \/ DriveLow(t) \/ DriveHigh(t)
  <2>1. UNCHANGED <<pool, call, crowded>>
    BY <1>8, Zenon DEF ConfigurePin, DriveLow, DriveHigh, lock
  <2>2. TonesNow' = TonesNow
    BY <2>1, Unheard DEF pool
  <2>3. \/ pc[t] = "found" /\ Goto(t, "stop")
        \/ pc[t] = "low" /\ Goto(t, "unlock")
        \/ pc[t] = "high" /\ Goto(t, "start")
    BY <1>8, Zenon DEF ConfigurePin, DriveLow, DriveHigh
  <2>4. StageNow' = StageNow
    BY <1>1, <2>3, SameStage, Stages, Zenon
  <2>5. QED
    BY <2>1, <2>2, <2>4, Zenon DEF Stutter

<1>9. CASE StopTimer(t) \/ Release(t)
  <2>1. /\ UNCHANGED <<call, crowded>>
        /\ pc[t] \in {"stop", "found"}
        /\ ticking' = [ticking EXCEPT ![at[t]] = FALSE]
    BY <1>9, Zenon DEF StopTimer, Release, lock
  <2>2. /\ \A s \in Slot \ {at[t]} : pin[s] # q
        /\ pin[at[t]] \in {q, NoPin}
    BY <1>5, <2>1 DEF ServeInv, PoolInv, Holding
  <2>3. \A r \in Slot \ {at[t]} : /\ pin'[r] = pin[r]
                                  /\ infinity'[r] = infinity[r] /\ count'[r] = count[r]
    BY <1>2, <1>3, <1>9 DEF StopTimer, Release, Free
  <2>4. \A r \in Slot \ {at[t]} : ticking'[r] = ticking[r]
    BY <1>3, <2>1
  <2>5. ~ticking'[at[t]]
    BY <1>2, <1>3, <2>1
  <2>6. ToneOn(q)' = Quiet
    <3>1. \A r \in Slot : ~(pin'[r] = q /\ ticking'[r])
      BY <2>2, <2>3, <2>5
    <3>2. QED
      BY <3>1, NextQuiet, Zenon
  <2>7. PlaysNow(q, Quiet)
    <3>1. ticking[at[t]] => pin[at[t]] = q
      BY <1>2, <1>4, <2>2
    <3>2. ticking'[at[t]] => pin'[at[t]] = q
      BY <2>5
    <3>3. QED
      BY <1>2, <2>3, <2>4, <2>6, <3>1, <3>2, Heard
  <2>8. CASE StopTimer(t)
    <3>1. pc[t] = "stop" /\ Goto(t, IF call[t].req = Silence THEN "silence" ELSE "arm")
      BY <2>8, Zenon DEF StopTimer
    <3>2. call[t].op = "tone"
      BY <3>1 DEF ServeInv, CallPlace
    <3>3. Staged(t, "called", "cut")
      <4>1. CASE call[t].req = Silence
        BY <1>1, <3>1, <4>1, Stage, Stages, Zenon
      <4>2. CASE call[t].req # Silence
        BY <1>1, <3>1, <4>2, Stage, Stages, Zenon
      <4>3. QED
        BY <4>1, <4>2
    <3>4. QED
      BY <1>5, <2>1, <2>7, <3>2, <3>3, AsCut, Zenon
  <2>9. CASE Release(t)
    <3>1. pc[t] = "found" /\ Goto(t, "low") /\ call[t].op = "noTone"
      BY <2>9, Zenon DEF Release
    <3>2. Staged(t, "called", "done")
      BY <1>1, <3>1, Stage, Stages, Zenon
    <3>3. QED
      BY <1>5, <2>1, <2>7, <3>1, <3>2, AsHush, Zenon
  <2>10. QED
    BY <1>9, <2>8, <2>9
<1>10. CASE Silenced(t) \/ Arm(t)
  <2>1. UNCHANGED <<ticking, call, crowded>> /\ pc[t] \in {"silence", "arm"}
    BY <1>10, Zenon DEF Silenced, Arm, lock
  <2>2. ~ticking[at[t]]
    BY <2>1 DEF ServeInv, PoolInv, Holding
  <2>3. \A r \in Slot \ {at[t]} : pin'[r] = pin[r] /\ infinity'[r] = infinity[r] /\ count'[r] = count[r]
    BY <1>2, <1>3, <1>10 DEF Silenced, Arm, Free
  <2>4. TonesNow' = TonesNow
    BY <2>1, <2>2, <2>3, Unheard
  <2>5. CASE Silenced(t)
    <3>1. pc[t] = "silence" /\ Goto(t, "low")
      BY <2>5, Zenon DEF Silenced
    <3>2. call[t].req = Silence
      BY <3>1 DEF ServeInv, CallPlace
    <3>3. Staged(t, "cut", "done")
      BY <1>1, <3>1, Stage, Stages, Zenon
    <3>4. QED
      BY <2>1, <2>4, <3>2, <3>3, AsStaySilent, Zenon
  <2>6. CASE Arm(t)
    <3>1. pc[t] = "arm" /\ Goto(t, "high")
      BY <2>6, Zenon DEF Arm
    <3>2. StageNow' = StageNow
      BY <1>1, <3>1, SameStage, Stages, Zenon
    <3>3. QED
      BY <2>1, <2>4, <3>2, Zenon DEF Stutter
  <2>7. QED
    BY <1>10, <2>5, <2>6
<1>11. CASE StartTimer(t)
  <2>1. /\ UNCHANGED <<pin, count, infinity, call, crowded>>
        /\ pc[t] = "start" /\ Goto(t, "unlock")
        /\ ticking' = [ticking EXCEPT ![at[t]] = TRUE]
    BY <1>11, Zenon DEF StartTimer, lock
  <2>2. /\ \A s \in Slot \ {at[t]} : pin[s] # q
        /\ pin[at[t]] = q /\ ~ticking[at[t]]
    BY <1>5, <2>1 DEF ServeInv, PoolInv, Holding
  <2>3. TonesNow[q] = Quiet
    <3>1. PlayedBy(q) = {}
      BY <2>2 DEF PlayedBy
    <3>2. QED
      BY <3>1, Silent DEF TonesNow
  <2>4. Cardinality(Tones!Playing) < NumSlots
    <3>1. ~(Cardinality(Tones!Playing) >= NumSlots) /\ Cardinality(Tones!Playing) \in Nat
      BY <1>2, <2>2, Room DEF ServeInv
    <3>2. NumSlots \in Nat
      OBVIOUS
    <3>3. QED
      BY <3>1, <3>2
  <2>5. /\ call[t].req # Silence
        /\ count[at[t]] = Clamped(call[t].req.toggles)
        /\ infinity[at[t]] = call[t].req.forever
    BY <2>1 DEF ServeInv, CallPlace
  <2>6. Sound(count[at[t]], infinity[at[t]]) = Tones!Begun(call[t].req)
    <3>1. /\ call[t].req.toggles \in Nat
          /\ call[t].req.forever \in BOOLEAN
          /\ call[t].req.forever => call[t].req.toggles = 0
      BY <1>1, <1>2 DEF TypeOK, Request
    <3>2. (IF infinity[at[t]] THEN 0 ELSE count[at[t]])
            = IF call[t].req.toggles <= CountMod - 1 THEN call[t].req.toggles ELSE CountMod - 1
      BY <2>5, <3>1 DEF Clamped
    <3>3. QED
      BY <2>5, <3>2, Zenon DEF Sound, Tones!Begun
  <2>7. \A r \in Slot \ {at[t]} : ticking'[r] = ticking[r]
    BY <1>3, <2>1
  <2>8. ticking'[at[t]]
    BY <1>2, <1>3, <2>1
  <2>9. ToneOn(q)' = Sound(count'[at[t]], infinity'[at[t]])
    BY <1>2, <2>1, <2>2, <2>8, NextSound
  <2>10. PlaysNow(q, Tones!Begun(call[t].req))
    <3>1. ToneOn(q)' = Tones!Begun(call[t].req)
      BY <2>1, <2>6, <2>9, Zenon
    <3>2. PICK v : v = Tones!Begun(call[t].req)
      OBVIOUS
    <3>3. ToneOn(q)' = v
      BY <3>1, <3>2
    <3>4. PlaysNow(q, v)
      BY <1>2, <2>1, <2>2, <2>7, <3>3, Heard
    <3>5. QED
      BY <3>2, <3>4, Zenon
  <2>11. Staged(t, "cut", "done")
    BY <1>1, <2>1, Stage, Stages, Zenon
  <2>12. QED
    BY <1>5, <2>1, <2>3, <2>4, <2>5, <2>10, <2>11, AsBegin, Zenon
<1>12. CASE Leave(t)
  <2>1. /\ UNCHANGED pool /\ pc[t] = "unlock" /\ Goto(t, Idle)
        /\ call' = [call EXCEPT ![t] = NoCall] /\ crowded' = FALSE
    BY <1>12, Zenon DEF Leave
  <2>2. TonesNow' = TonesNow
    BY <2>1, Unheard DEF pool
  <2>3. Staged(t, "done", "idle")
    BY <1>1, <2>1, Stage, Stages, Zenon
  <2>4. QED
    BY <2>1, <2>2, <2>3, AsReturn, Zenon
<1>13. QED
  BY <1>6, <1>7, <1>8, <1>9, <1>10, <1>11, <1>12, Zenon DEF ThreadStep

\* An expiry toggles or ends the tone of its pin; of an endless tone nothing
\* is seen.
LEMMA ExpireServes ==
  ASSUME ServeInv, NEW s \in Slot, Expire(s)
  PROVE  Tones!Next \/ Stutter
<1>1. /\ pin \in [Slot -> Pin \union {NoPin}]
      /\ ticking \in [Slot -> BOOLEAN]
      /\ infinity \in [Slot -> BOOLEAN]
      /\ count \in [Slot -> 0 .. CountMod - 1]
  BY DEF ServeInv, PoolInv, TypeOK
<1>2. ticking[s] /\ UNCHANGED <<pc, call, crowded>>
  BY Zenon DEF Expire, ExpireLast, ExpireToggle, lock
<1>3. pin[s] \in Pin
  BY <1>1, <1>2 DEF ServeInv, PoolInv, SlotsAccounted
<1>4. PICK q \in Pin : q = pin[s]
  BY <1>3
<1>5. StageNow' = StageNow
  BY <1>2, Zenon DEF StageNow
<1>6. \A r \in Slot \ {s} : pin[r] # q
  BY <1>3, <1>4 DEF ServeInv, PoolInv, OneSlotPerPin
<1>7. TonesNow[q] = Sound(count[s], infinity[s])
  BY <1>2, <1>3, <1>4, Played DEF ServeInv, PoolInv, TonesNow
<1>8. CASE ExpireLast(s)
  <2>1. /\ count[s] = 0 /\ ~infinity[s]
        /\ \A r \in Slot \ {s} : /\ pin'[r] = pin[r] /\ (ticking'[r] <=> ticking[r])
                                 /\ infinity'[r] = infinity[r] /\ count'[r] = count[r]
        /\ ~ticking'[s]
    BY <1>1, <1>8 DEF ExpireLast, Free
  <2>2. ToneOn(q)' = Quiet
    <3>1. \A r \in Slot : ~(pin'[r] = q /\ ticking'[r])
      BY <1>6, <2>1
    <3>2. QED
      BY <3>1, NextQuiet, Zenon
  <2>3. PlaysNow(q, Quiet)
    BY <1>4, <2>1, <2>2, Heard, Zenon
  <2>4. TonesNow[q].plays /\ ~TonesNow[q].forever /\ TonesNow[q].toggles = 0
    BY <1>7, <2>1 DEF Sound
  <2>5. QED
    BY <1>2, <1>5, <2>3, <2>4, AsEnd, Zenon
<1>9. CASE ExpireToggle(s)
  <2>1. /\ UNCHANGED <<pin, infinity, ticking>>
        /\ count[s] # 0 \/ infinity[s]
        /\ \A r \in Slot \ {s} : count'[r] = count[r]
        /\ count[s] # 0 => count'[s] = count[s] - 1
    BY <1>1, <1>9 DEF ExpireToggle
  <2>2. CASE infinity[s]
    <3>1. TonesNow' = TonesNow
      BY <2>1, <2>2, Unheard
    <3>2. QED
      BY <1>2, <1>5, <3>1, Zenon DEF Stutter
  <2>3. CASE ~infinity[s]
    <3>1. count[s] # 0 /\ count'[s] = count[s] - 1 /\ count[s] > 0
      BY <1>1, <2>1, <2>3
    <3>2. ToneOn(q)' = Sound(count'[s], infinity'[s])
      BY <1>2, <1>4, <1>6, <2>1, NextSound
    <3>3. PICK n, f : n = count[s] /\ f = infinity[s]
      OBVIOUS
    <3>4. ToneOn(q)' = Sound(n - 1, f)
      BY <2>1, <3>1, <3>2, <3>3, Zenon
    <3>5. TonesNow[q] = Sound(n, f) /\ ~f
      BY <1>7, <2>3, <3>3
    <3>6. Sound(n - 1, f) = [TonesNow[q] EXCEPT !.toggles = TonesNow[q].toggles - 1]
      <4>1. PICK m : m = n - 1
        OBVIOUS
      <4>2. PICK b : b = TRUE
        OBVIOUS
      <4>3. /\ TonesNow[q] = [plays |-> b, toggles |-> n, forever |-> f]
            /\ Sound(m, f) = [plays |-> b, toggles |-> m, forever |-> f]
        BY <3>5, <4>2 DEF Sound
      <4>4. TonesNow[q].toggles = n
        BY <4>3
      <4>5. TonesNow[q].toggles - 1 = m
        BY <4>1, <4>4
      <4>6. [TonesNow[q] EXCEPT !.toggles = m] = [plays |-> b, toggles |-> m, forever |-> f]
        BY <4>3
      <4>7. QED
        BY <4>1, <4>3, <4>5, <4>6, Zenon
    <3>7. PlaysNow(q, Sound(n - 1, f))
      BY <1>4, <2>1, <3>4, Heard
    <3>8. TonesNow[q].plays /\ ~TonesNow[q].forever /\ TonesNow[q].toggles > 0
      BY <3>1, <3>3, <3>5 DEF Sound
    <3>9. PlaysNow(q, [TonesNow[q] EXCEPT !.toggles = TonesNow[q].toggles - 1])
      BY <3>6, <3>7, Zenon
    <3>10. QED
      BY <1>2, <1>5, <3>8, <3>9, AsToggle, Zenon
  <2>4. QED
    BY <2>2, <2>3
<1>10. QED
  BY <1>8, <1>9 DEF Expire

LEMMA TonesStep == ServeInv /\ [Next]_vars => [Tones!Next]_(Tones!vars)
<1> SUFFICES ASSUME ServeInv, [Next]_vars PROVE [Tones!Next]_(Tones!vars)
  OBVIOUS
<1>1. ASSUME NEW t \in Thread, NEW p \in Pin, NEW r \in Request, Enter(t, p, r, "tone")
      PROVE  Tones!Next
  BY <1>1, EnterServes
<1>2. ASSUME NEW t \in Thread, NEW p \in Pin, Enter(t, p, Silence, "noTone")
      PROVE  Tones!Next
  BY <1>2, EnterServes, RequestsTyped
<1>3. ASSUME NEW t \in Thread, ThreadStep(t) PROVE Tones!Next \/ Stutter
  BY <1>3, ThreadServes, Zenon
<1>4. ASSUME NEW s \in Slot, Expire(s) PROVE Tones!Next \/ Stutter
  BY <1>4, ExpireServes, Zenon
<1>5. CASE UNCHANGED vars
  <2>1. UNCHANGED <<pool, pc, call, crowded>>
    BY <1>5, Zenon DEF vars, pool
  <2>2. TonesNow' = TonesNow
    BY <2>1, Unheard DEF pool
  <2>3. Stutter
    BY <2>1, <2>2, Zenon DEF Stutter, StageNow
  <2>4. QED
    BY <2>3, AsStutter, Zenon
<1>6. QED
  BY <1>1, <1>2, <1>3, <1>4, <1>5, AsStutter, Zenon DEF Next

LEMMA TonesInit == Init => Tones!Init
<1> SUFFICES ASSUME Init PROVE Tones!Init
  OBVIOUS
<1>1. \A p \in Pin : ToneOn(p) = Quiet
  <2>1. \A p \in Pin : PlayedBy(p) = {}
    BY DEF Init, PlayedBy
  <2>2. QED
    BY <2>1, Silent
<1>2. \A t \in Thread : StageAt(pc[t]) = "idle"
  BY Stages DEF Init
<1>3. [p \in Pin |-> ToneOn(p)] = [p \in Pin |-> Quiet]
  BY <1>1
<1>4. [t \in Thread |-> StageAt(pc[t])] = [t \in Thread |-> "idle"]
  BY <1>2
<1>5. call = [t \in Thread |-> NoCall] /\ crowded = FALSE
  BY Zenon DEF Init
<1>6. QED
  BY <1>3, <1>4, <1>5, Zenon DEF Tones!Init, Tones!Quiet, Quiet

\* The pool of slots, searched and filled step by step between interrupts,
\* serves tone and noTone as atomic calls: each changes the tone of its own
\* pin only, plays what was asked for, and is refused only if every slot was
\* taken when it was let in.
THEOREM CallsServed == Spec => TonesSpec
<1>1. ServeInv /\ [Next]_vars => [Tones!Next]_(Tones!vars)
  BY TonesStep
<1>2. QED
  BY <1>1, TonesInit, Serving, PTL DEF Spec, TonesSpec, Tones!Spec
=============================================================================
