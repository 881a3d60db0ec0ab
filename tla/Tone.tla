-------------------------------- MODULE Tone --------------------------------
(***************************************************************************)
(* tone() and noTone() of cores/arduino/Tone.cpp: a pool of timer slots,   *)
(* each driving one pin.  Threads of the sketch change the pool under the  *)
(* mutex timer_cfg_lock; a slot's timer interrupt runs between any two of  *)
(* their steps and takes only the slot's spinlock, so that a slot can be   *)
(* given up by its own timer while a thread is looking at it.              *)
(***************************************************************************)
EXTENDS Naturals

CONSTANTS
  Thread,      \* sketch threads that call tone and noTone
  Pin,         \* valid pin numbers
  NoPin,       \* pin_size_t(-1): the slot is free
  NoThread,    \* nobody holds timer_cfg_lock
  NumSlots,    \* MAX_TONE_PINS
  MaxToggles,  \* bound on the toggles a call asks for
  CountMod     \* count is an unsigned integer modulo CountMod (2^32)

ASSUME ToneAssumption ==
  /\ NoPin \notin Pin
  /\ NoThread \notin Thread
  /\ NumSlots \in Nat \ {0}
  /\ MaxToggles \in Nat
  /\ CountMod \in Nat \ {0, 1}

Slot == 1 .. NumSlots

\* What duration and frequency come to: no sound, an endless tone, or a
\* tone of some toggles.
Request == {r \in [toggles : 0 .. MaxToggles, forever : BOOLEAN] : r.forever => r.toggles = 0}
Silence == [toggles |-> 0, forever |-> FALSE]

VARIABLES
  pin,       \* pin[s]: the pin slot s drives, or NoPin
  count,     \* count[s]: toggles left
  infinity,  \* infinity[s]: the tone has no end
  ticking,   \* ticking[s]: the timer of slot s is started
  level,     \* level[p]: output of pin p
  mutex,     \* holder of timer_cfg_lock
  pc,        \* pc[t]: where thread t is in tone or noTone
  call,      \* call[t]: pin and request of the call
  at,        \* at[t]: the slot find_pin_timer looks at, then the slot found
  crowded    \* no slot was free when timer_cfg_lock was taken (history)

vars == <<pin, count, infinity, ticking, level, mutex, pc, call, at, crowded>>
pool == <<pin, count, infinity, ticking>>
lock == <<mutex, crowded>>

Idle == "idle"
NoCall == [pin |-> NoPin, req |-> Silence, op |-> "none"]
Goto(t, l) == pc' = [pc EXCEPT ![t] = l]
Free(s) == /\ pin' = [pin EXCEPT ![s] = NoPin]
           /\ count' = [count EXCEPT ![s] = 0]
           /\ infinity' = [infinity EXCEPT ![s] = FALSE]

-----------------------------------------------------------------------------
(* The threads *)

\* Mutant: tone and noTone do not take timer_cfg_lock.
Enter_NoLock(t, p, r, op) ==
  /\ pc[t] = Idle
  /\ mutex' = t
  /\ crowded' = (\A s \in Slot : pin[s] # NoPin)
  /\ call' = [call EXCEPT ![t] = [pin |-> p, req |-> r, op |-> op]]
  /\ at' = [at EXCEPT ![t] = 1]
  /\ Goto(t, "own")
  /\ UNCHANGED <<pool, level>>

\* k_mutex_lock at the start of tone, noTone.
Enter(t, p, r, op) ==
  /\ pc[t] = Idle
  /\ mutex = NoThread
  /\ mutex' = t
  /\ crowded' = (\A s \in Slot : pin[s] # NoPin)
  /\ call' = [call EXCEPT ![t] = [pin |-> p, req |-> r, op |-> op]]
  /\ at' = [at EXCEPT ![t] = 1]
  /\ Goto(t, "own")
  /\ UNCHANGED <<pool, level>>

\* Mutant: the loop runs one slot past the array.
FindOwn_PastEnd(t) ==
  /\ pc[t] = "own"
  /\ \/ /\ pin[at[t]] = call[t].pin
        /\ Goto(t, "found")
        /\ UNCHANGED at
     \/ /\ pin[at[t]] # call[t].pin
        /\ at[t] <= NumSlots
        /\ at' = [at EXCEPT ![t] = @ + 1]
        /\ UNCHANGED pc
     \/ /\ pin[at[t]] # call[t].pin
        /\ at[t] > NumSlots
        /\ at' = [at EXCEPT ![t] = 1]
        /\ Goto(t, IF call[t].op = "noTone" THEN "unlock" ELSE "free")
  /\ UNCHANGED <<pool, level, lock, call>>

\* find_pin_timer, first loop: one slot per step, for the interrupt comes in
\* between.
FindOwn(t) ==
  /\ pc[t] = "own"
  /\ \/ /\ pin[at[t]] = call[t].pin
        /\ Goto(t, "found")
        /\ UNCHANGED at
     \/ /\ pin[at[t]] # call[t].pin
        /\ at[t] < NumSlots
        /\ at' = [at EXCEPT ![t] = @ + 1]
        /\ UNCHANGED pc
     \/ /\ pin[at[t]] # call[t].pin
        /\ at[t] = NumSlots
        /\ at' = [at EXCEPT ![t] = 1]
        /\ Goto(t, IF call[t].op = "noTone" THEN "unlock" ELSE "free")
  /\ UNCHANGED <<pool, level, lock, call>>

\* Mutant: when no slot is free, the last one is taken from its pin.
FindFree_Steals(t) ==
  /\ pc[t] = "free"
  /\ \/ /\ pin[at[t]] = NoPin \/ at[t] = NumSlots
        /\ pin' = [pin EXCEPT ![at[t]] = call[t].pin]
        /\ Goto(t, "found")
        /\ UNCHANGED at
     \/ /\ pin[at[t]] # NoPin
        /\ at[t] < NumSlots
        /\ at' = [at EXCEPT ![t] = @ + 1]
        /\ UNCHANGED <<pin, pc>>
  /\ UNCHANGED <<count, infinity, ticking, level, lock, call>>

\* Mutant: the search for a free slot leaves out the last one.
FindFree_SkipsLast(t) ==
  /\ pc[t] = "free"
  /\ \/ /\ pin[at[t]] = NoPin /\ at[t] < NumSlots
        /\ pin' = [pin EXCEPT ![at[t]] = call[t].pin]
        /\ Goto(t, "found")
        /\ UNCHANGED at
     \/ /\ pin[at[t]] # NoPin
        /\ at[t] < NumSlots
        /\ at' = [at EXCEPT ![t] = @ + 1]
        /\ UNCHANGED <<pin, pc>>
     \/ /\ at[t] = NumSlots
        /\ Goto(t, "unlock")
        /\ UNCHANGED <<pin, at>>
  /\ UNCHANGED <<count, infinity, ticking, level, lock, call>>

\* find_pin_timer, second loop: the first free slot is taken for the pin.
FindFree(t) ==
  /\ pc[t] = "free"
  /\ \/ /\ pin[at[t]] = NoPin
        /\ pin' = [pin EXCEPT ![at[t]] = call[t].pin]
        /\ Goto(t, "found")
        /\ UNCHANGED at
     \/ /\ pin[at[t]] # NoPin
        /\ at[t] < NumSlots
        /\ at' = [at EXCEPT ![t] = @ + 1]
        /\ UNCHANGED <<pin, pc>>
     \/ /\ pin[at[t]] # NoPin
        /\ at[t] = NumSlots
        /\ Goto(t, "unlock")
        /\ UNCHANGED <<pin, at>>
  /\ UNCHANGED <<count, infinity, ticking, level, lock, call>>

\* tone: pinMode(OUTPUT), which drives the pin low.
ConfigurePin(t) ==
  /\ pc[t] = "found"
  /\ call[t].op = "tone"
  /\ level' = [level EXCEPT ![call[t].pin] = 0]
  /\ Goto(t, "stop")
  /\ UNCHANGED <<pool, lock, call, at>>

\* tone: k_timer_stop of the slot found.
StopTimer(t) ==
  /\ pc[t] = "stop"
  /\ ticking' = [ticking EXCEPT ![at[t]] = FALSE]
  /\ Goto(t, IF call[t].req = Silence THEN "silence" ELSE "arm")
  /\ UNCHANGED <<pin, count, infinity, level, lock, call, at>>

\* Mutant: the slot is not given back.
Silenced_KeepsSlot(t) ==
  /\ pc[t] = "silence"
  /\ Goto(t, "low")
  /\ UNCHANGED <<pool, level, lock, call, at>>

\* tone of frequency zero or without a whole toggle: the slot is given back.
Silenced(t) ==
  /\ pc[t] = "silence"
  /\ Free(at[t])
  /\ Goto(t, "low")
  /\ UNCHANGED <<ticking, level, lock, call, at>>

\* noTone: stop and give back under the slot's spinlock.
Release(t) ==
  /\ pc[t] = "found"
  /\ call[t].op = "noTone"
  /\ ticking' = [ticking EXCEPT ![at[t]] = FALSE]
  /\ Free(at[t])
  /\ Goto(t, "low")
  /\ UNCHANGED <<level, lock, call, at>>

DriveLow(t) ==
  /\ pc[t] = "low"
  /\ level' = [level EXCEPT ![call[t].pin] = 0]
  /\ Goto(t, "unlock")
  /\ UNCHANGED <<pool, lock, call, at>>

\* min(toggles_count, UINT32_MAX).
Clamped(n) == IF n < CountMod THEN n ELSE CountMod - 1

\* tone: infinity, count and pin are set under the slot's spinlock.
Arm(t) ==
  /\ pc[t] = "arm"
  /\ infinity' = [infinity EXCEPT ![at[t]] = call[t].req.forever]
  /\ count' = [count EXCEPT ![at[t]] = Clamped(call[t].req.toggles)]
  /\ pin' = [pin EXCEPT ![at[t]] = call[t].pin]
  /\ Goto(t, "high")
  /\ UNCHANGED <<ticking, level, lock, call, at>>

DriveHigh(t) ==
  /\ pc[t] = "high"
  /\ level' = [level EXCEPT ![call[t].pin] = 1]
  /\ Goto(t, "start")
  /\ UNCHANGED <<pool, lock, call, at>>

StartTimer(t) ==
  /\ pc[t] = "start"
  /\ ticking' = [ticking EXCEPT ![at[t]] = TRUE]
  /\ Goto(t, "unlock")
  /\ UNCHANGED <<pin, count, infinity, level, lock, call, at>>

\* k_mutex_unlock and return; the locals of the call end with it.
Leave(t) ==
  /\ pc[t] = "unlock"
  /\ mutex' = NoThread
  /\ crowded' = FALSE
  /\ call' = [call EXCEPT ![t] = NoCall]
  /\ at' = [at EXCEPT ![t] = 1]
  /\ Goto(t, Idle)
  /\ UNCHANGED <<pool, level>>

ThreadStep(t) ==
  \/ FindOwn(t)   \/ FindFree(t)  \/ ConfigurePin(t) \/ StopTimer(t)
  \/ Silenced(t)  \/ Release(t)   \/ DriveLow(t)     \/ Arm(t)
  \/ DriveHigh(t) \/ StartTimer(t) \/ Leave(t)

-----------------------------------------------------------------------------
(* The timer interrupt: tone_expiry_cb *)

\* Mutant: the last expiry gives the slot back with the pin as it is.
ExpireLast_KeepsLevel(s) ==
  /\ ticking[s]
  /\ count[s] = 0
  /\ ~infinity[s]
  /\ ticking' = [ticking EXCEPT ![s] = FALSE]
  /\ Free(s)
  /\ UNCHANGED <<level, lock, pc, call, at>>

\* The last expiry of a finite tone: pin low, timer stopped, slot given back.
ExpireLast(s) ==
  /\ ticking[s]
  /\ count[s] = 0
  /\ ~infinity[s]
  /\ level' = IF pin[s] = NoPin THEN level ELSE [level EXCEPT ![pin[s]] = 0]
  /\ ticking' = [ticking EXCEPT ![s] = FALSE]
  /\ Free(s)
  /\ UNCHANGED <<lock, pc, call, at>>

\* Mutant: an expiry toggles the pin and does not count.
ExpireToggle_NoCount(s) ==
  /\ ticking[s]
  /\ count[s] # 0 \/ infinity[s]
  /\ level' = IF pin[s] = NoPin THEN level ELSE [level EXCEPT ![pin[s]] = 1 - @]
  /\ UNCHANGED <<pool, lock, pc, call, at>>

\* Any other expiry; the count of an endless tone wraps.
ExpireToggle(s) ==
  /\ ticking[s]
  /\ count[s] # 0 \/ infinity[s]
  /\ level' = IF pin[s] = NoPin THEN level ELSE [level EXCEPT ![pin[s]] = 1 - @]
  /\ count' = [count EXCEPT ![s] = IF @ = 0 THEN CountMod - 1 ELSE @ - 1]
  /\ UNCHANGED <<pin, infinity, ticking, lock, pc, call, at>>

Expire(s) == ExpireLast(s) \/ ExpireToggle(s)

-----------------------------------------------------------------------------
Init ==
  /\ pin = [s \in Slot |-> NoPin]
  /\ count = [s \in Slot |-> 0]
  /\ infinity = [s \in Slot |-> FALSE]
  /\ ticking = [s \in Slot |-> FALSE]
  /\ level = [p \in Pin |-> 0]
  /\ mutex = NoThread
  /\ pc = [t \in Thread |-> Idle]
  /\ call = [t \in Thread |-> NoCall]
  /\ at = [t \in Thread |-> 1]
  /\ crowded = FALSE

Next ==
  \/ \E t \in Thread, p \in Pin, r \in Request : Enter(t, p, r, "tone")
  \/ \E t \in Thread, p \in Pin : Enter(t, p, Silence, "noTone")
  \/ \E t \in Thread : ThreadStep(t)
  \/ \E s \in Slot : Expire(s)

Spec == Init /\ [][Next]_vars

\* A started timer expires.  Nothing is asked of the threads.
Fairness == \A s \in Slot : WF_vars(Expire(s))

FairSpec == Spec /\ Fairness
-----------------------------------------------------------------------------
(* Properties *)

\* Every variable has its type.
TypeOK ==
  /\ pin \in [Slot -> Pin \union {NoPin}]
  /\ count \in [Slot -> 0 .. CountMod - 1]
  /\ infinity \in [Slot -> BOOLEAN]
  /\ ticking \in [Slot -> BOOLEAN]
  /\ level \in [Pin -> {0, 1}]
  /\ mutex \in Thread \union {NoThread}
  /\ pc \in [Thread -> {Idle, "own", "free", "found", "stop", "silence", "low",
                       "arm", "high", "start", "unlock"}]
  /\ call \in [Thread -> [pin : Pin, req : Request, op : {"tone", "noTone"}] \union {NoCall}]
  /\ at \in [Thread -> Slot]
  /\ crowded \in BOOLEAN

\* A pin never has two slots: two timers toggling it would give neither tone,
\* and noTone would stop only the first.  The slot is searched in one loop,
\* taken in another and set a third time after k_timer_stop, and a timer may
\* give it up in between.
OneSlotPerPin ==
  \A r, s \in Slot : pin[r] = pin[s] /\ pin[r] # NoPin => r = s

\* A slot is taken exactly while its timer runs, unless the call under way has
\* just taken it for its pin or stopped it: no order of calls and expiries
\* leaks a slot, and no tone finds the timer of its slot running already.
SlotsAccounted ==
  /\ \A s \in Slot : ticking[s] => pin[s] # NoPin
  /\ \A s \in Slot : pin[s] # NoPin /\ ~ticking[s] =>
       \E t \in Thread : mutex = t /\ pc[t] # "unlock" /\ call[t].pin = pin[s]

\* A pin is high only while a running timer will lower it or a call of tone or
\* noTone for this pin is under way: no order of calls and expiries leaves a
\* pin stuck high.
NoPinStuckHigh ==
  \A p \in Pin : level[p] = 1 =>
    \/ \E s \in Slot : pin[s] = p /\ ticking[s]
    \/ \E t \in Thread : mutex = t /\ call[t].pin = p

\* A slot loses its pin only to its own finished tone or to a call for that
\* pin; a tone that finds no free slot disturbs none.
SlotsKept ==
  [][\A s \in Slot : pin[s] # NoPin /\ pin'[s] # pin[s] =>
       /\ pin'[s] = NoPin
       /\ \/ ticking[s] /\ count[s] = 0 /\ ~infinity[s]
          \/ \E t \in Thread : mutex = t /\ call[t].pin = pin[s]]_vars

\* A finite tone ends by itself, whatever the threads do, unless a new call
\* makes it endless.
FiniteToneEnds ==
  \A s \in Slot : ticking[s] /\ ~infinity[s] ~> ~ticking[s] \/ infinity[s]

\* The slot whose timer plays on pin p, if there is one.
PlayedBy(p) == {s \in Slot : pin[s] = p /\ ticking[s]}

\* What pin p plays; the count of an endless tone means nothing.
ToneOn(p) ==
  IF PlayedBy(p) = {}
  THEN [plays |-> FALSE, toggles |-> 0, forever |-> FALSE]
  ELSE LET s == CHOOSE s \in PlayedBy(p) : TRUE
       IN [plays |-> TRUE, toggles |-> IF infinity[s] THEN 0 ELSE count[s], forever |-> infinity[s]]

\* How far a call has got that is at l.
StageAt(l) ==
  CASE l = Idle -> "idle"
    [] l \in {"own", "free", "found", "stop"} -> "called"
    [] l \in {"silence", "arm", "high", "start"} -> "cut"
    [] l \in {"low", "unlock"} -> "done"

\* tone and noTone as operations that are served one at a time and change the
\* tone of their own pin only: the pool, searched slot by slot while the
\* interrupts give slots up, refuses a tone only if it was full at the start.
Tones == INSTANCE AtomicTones WITH
  MaxTones <- NumSlots,
  MaxCount <- CountMod - 1,
  tones    <- [p \in Pin |-> ToneOn(p)],
  stage    <- [t \in Thread |-> StageAt(pc[t])],
  noRoom   <- crowded

TonesSpec == Tones!Spec

(* What the properties rest on *)

\* Pin p has a slot whose timer is running.
Covered(p) == \E s \in Slot : pin[s] = p /\ ticking[s]

\* Only the holder of timer_cfg_lock is inside a call.
LockHeld == \A t \in Thread : pc[t] # Idle => mutex = t /\ call[t] # NoCall

\* What a thread inside a call knows of the pool.
Searching ==
  \A t \in Thread :
    /\ pc[t] = "own" => \A s \in 1 .. at[t] - 1 : pin[s] # call[t].pin
    /\ pc[t] \in {"free", "low"} => \A s \in Slot : pin[s] # call[t].pin
    /\ pc[t] \in {"own", "free", "unlock"} /\ level[call[t].pin] = 1 => Covered(call[t].pin)

Holding ==
  \A t \in Thread :
    /\ pc[t] \in {"found", "stop", "silence", "arm", "high", "start"} =>
         /\ \A s \in Slot \ {at[t]} : pin[s] # call[t].pin
         /\ pin[at[t]] \in {call[t].pin, NoPin}
    /\ pc[t] \in {"silence", "arm", "high", "start"} => ~ticking[at[t]]
    /\ pc[t] \in {"high", "start"} => pin[at[t]] = call[t].pin

\* What a call is and what it has stored, where the code no longer asks.
CallPlace ==
  \A t \in Thread :
    /\ pc[t] \in {"free", "stop", "silence", "arm", "high", "start"} => call[t].op = "tone"
    /\ pc[t] = "silence" => call[t].req = Silence
    /\ pc[t] \in {"arm", "high", "start"} => call[t].req # Silence
    /\ pc[t] \in {"high", "start"} => /\ count[at[t]] = Clamped(call[t].req.toggles)
                                     /\ infinity[at[t]] = call[t].req.forever

\* A slot that was free when the call was let in is free until it is taken.
RoomKept ==
  \A t \in Thread : ~crowded =>
    /\ pc[t] = "own" => \E s \in Slot : pin[s] = NoPin
    /\ pc[t] = "free" => \E s \in Slot : s >= at[t] /\ pin[s] = NoPin

PoolInv ==
  /\ TypeOK
  /\ LockHeld
  /\ Searching
  /\ Holding
  /\ OneSlotPerPin
  /\ SlotsAccounted
  /\ NoPinStuckHigh
=============================================================================
