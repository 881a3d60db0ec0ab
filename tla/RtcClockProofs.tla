----------------------------- MODULE RtcClockProofs -----------------------------
(***************************************************************************)
(* Proofs about RtcClock, for every frequency and width of the counter.    *)
(***************************************************************************)
EXTENDS RtcClock, TLAPS

LEMMA Division ==
  ASSUME NEW a \in Nat, NEW f \in Nat \ {0}
  PROVE  /\ a \div f \in Nat /\ a % f \in 0 .. f - 1
         /\ a = f * (a \div f) + (a % f)
  BY SMTT(30)

LEMMA SmallRemainder ==
  ASSUME NEW a \in Nat, NEW f \in Nat \ {0}, a < f
  PROVE  a % f = a
  BY SMTT(30)

LEMMA ZeroDivision ==
  ASSUME NEW f \in Nat \ {0}
  PROVE  0 % f = 0 /\ 0 \div f = 0
  BY SMTT(30)

LEMMA Seconds ==
  ASSUME NEW a \in Nat, NEW b \in Nat, NEW f \in Nat \ {0}
  PROVE  /\ ((a \div f) - (b \div f)) * f < (a - b) + f
         /\ ((a \div f) - (b \div f)) * f > (a - b) - f
<1> DEFINE q == a \div f  p == b \div f  s == a % f  t == b % f
<1>1. q \in Nat /\ s \in 0 .. f - 1 /\ a = f * q + s
  BY Division
<1>2. p \in Nat /\ t \in 0 .. f - 1 /\ b = f * p + t
  BY Division
<1> HIDE DEF q, p, s, t
<1>3. (q - p) * f = (a - b) - (s - t)
  BY <1>1, <1>2, SMTT(30)
<1>4. (q - p) * f < (a - b) + f /\ (q - p) * f > (a - b) - f
  BY <1>1, <1>2, <1>3, SMTT(30)
<1> QED BY <1>4 DEF q, p

-----------------------------------------------------------------------------
(* Types *)

\* setAlarm between its test and the call of the driver.
Setting == pc \in {"callback", "data", "pending", "arm"}

\* What setTime and setAlarm read from the counter, and that the alarm being
\* set is still to come: the offset does not change on the way.
ReadInv ==
  /\ taken <= now
  /\ Setting \/ pc = "offset" => base = taken % (Top + 1)
  /\ Setting => ToGo > 0 /\ alarms > 0 /\ cb \in {alarms, NoAlarm}

TypeInv == TypeOK /\ ReadInv

LEMMA TicksType == ASSUME TypeOK PROVE Ticks \in 0 .. Top /\ Reading \in Int
<1>1. Ticks \in 0 .. Top
  BY Division, RtcAssumption DEF Ticks, TypeOK
<1>2. Ticks \div Freq \in Nat
  BY <1>1, Division, RtcAssumption
<1> QED BY <1>1, <1>2 DEF Reading, TypeOK

LEMMA ToGoType == ASSUME TypeOK PROVE base \div Freq \in Nat /\ ToGo \in Int
<1>1. base \div Freq \in Nat
  BY Division, RtcAssumption DEF TypeOK
<1> QED BY <1>1 DEF ToGo, TypeOK

LEMMA TypeInit == Init => TypeInv
<1> SUFFICES ASSUME Init PROVE TypeInv
  OBVIOUS
<1>1. started \in BOOLEAN /\ alarmPending \in BOOLEAN /\ older \in BOOLEAN
  BY Zenon DEF Init
<1>2. /\ userAlarmCallback \in Alarm \union {NoAlarm}
      /\ userAlarmCallbackData \in Alarm \union {NoAlarm}
      /\ cb \in Alarm \union {NoAlarm}
  BY DEF Init
<1>3. /\ armed \in ArmedAlarm \union {NoAlarm}
      /\ armed # NoAlarm => now <= armed.due /\ armed.due <= now + Top
  BY DEF Init
<1>4. /\ pc \in {"idle", "offset", "callback", "data", "pending", "arm", "clear"}
      /\ alarms \in 0 .. MaxAlarms
  BY RtcAssumption DEF Init
<1>5. /\ now \in Nat /\ timeOffset \in Int /\ alarmEpoch \in Nat
      /\ target \in Nat /\ base \in Nat /\ taken \in Nat
  BY DEF Init
<1>6. shown \in [time : Nat, at : Nat]
  BY DEF Init
<1>7. TypeOK
  BY <1>1, <1>2, <1>3, <1>4, <1>5, <1>6, Zenon DEF TypeOK
<1>8. ReadInv
  BY DEF Init, ReadInv, Setting
<1> QED BY <1>7, <1>8 DEF TypeInv

\* What Arm computes, and the alarm it arms if it does.
LEMMA ArmType ==
  ASSUME TypeInv, Arm
  PROVE  /\ ToGo \in Nat /\ ToGo > 0 /\ base + ToGo * Freq \in Nat
         /\ AlarmTicks \in Nat
         /\ pc' = "idle" => armed' \in ArmedAlarm /\ armed' # NoAlarm
<1>1. ToGo \in Nat /\ ToGo > 0
  BY ToGoType DEF Arm, TypeInv, ReadInv, Setting
<1>2. base + ToGo * Freq \in Nat
  BY <1>1, RtcAssumption DEF TypeInv, TypeOK
<1>3. AlarmTicks \in Nat
  BY <1>2, Division, RtcAssumption DEF AlarmTicks
<1>4. alarms \in Alarm
  BY DEF Arm, TypeInv, TypeOK, ReadInv, Setting, Alarm
<1>5. pc' = "idle" => armed' \in ArmedAlarm
  BY <1>1, <1>3, <1>4 DEF Arm, TypeInv, TypeOK, ArmedAlarm
<1> QED BY <1>1, <1>2, <1>3, <1>5, RtcAssumption DEF ArmedAlarm

LEMMA TypeStep == TypeInv /\ [Next]_vars => TypeInv'
<1> SUFFICES ASSUME TypeInv, [Next]_vars PROVE TypeInv'
  OBVIOUS
<1> USE RtcAssumption
<1>1. CASE Begin
  BY <1>1 DEF Begin, TypeInv, TypeOK, ReadInv, Setting, ToGo, registers, locals, history
<1>2. ASSUME NEW t \in Time, SetTime(t) PROVE TypeInv'
  <2>1. Ticks \in 0 .. Top /\ t \in Nat
    BY TicksType DEF TypeInv
  <2> QED BY <1>2, <2>1 DEF SetTime, TypeInv, TypeOK, ReadInv, Setting, Ticks, counter, registers, history
<1>3. CASE StoreOffset
  <2>1. base \div Freq \in Nat
    BY ToGoType DEF TypeInv
  <2> QED BY <1>3, <2>1 DEF StoreOffset, TypeInv, TypeOK, ReadInv, Setting, counter, registers, locals
<1>4. ASSUME NEW t \in Time, NEW c \in {alarms + 1, NoAlarm}, SetAlarm(t, c) PROVE TypeInv'
  <2>1. Ticks \in 0 .. Top /\ t \in Nat /\ Ticks \div Freq \in Nat
    BY TicksType, Division DEF TypeInv
  <2>2. alarms + 1 \in Alarm /\ alarms' = alarms + 1
    BY <1>4 DEF SetAlarm, TypeInv, TypeOK, Alarm
  <2>3. ToGo' > 0
    BY <1>4, <2>1 DEF SetAlarm, ToGo, Reading, TypeInv, TypeOK
  <2>4. TypeOK'
    BY <1>4, <2>1, <2>2 DEF SetAlarm, TypeInv, TypeOK, counter, registers
  <2>5. ReadInv'
    BY <1>4, <2>1, <2>2, <2>3 DEF SetAlarm, TypeInv, TypeOK, ReadInv, Setting, Ticks, counter
  <2> QED BY <2>4, <2>5 DEF TypeInv
<1>5. CASE StoreCallback
  BY <1>5 DEF StoreCallback, TypeInv, TypeOK, ReadInv, Setting, ToGo, counter, locals, history
<1>6. CASE StoreData
  BY <1>6 DEF StoreData, TypeInv, TypeOK, ReadInv, Setting, ToGo, counter, locals, history, Alarm
<1>7. CASE StorePending
  BY <1>7 DEF StorePending, TypeInv, TypeOK, ReadInv, Setting, ToGo, counter, locals, history
<1>8. CASE Arm
  <2>1. AlarmTicks \in Nat
    BY <1>8, ArmType
  <2>2. armed' \in ArmedAlarm \union {NoAlarm}
    BY <1>8, ArmType DEF Arm, TypeInv, TypeOK
  <2>3. armed' # NoAlarm => now' <= armed'.due /\ armed'.due <= now' + Top
    BY <1>8, <2>1 DEF Arm, TypeInv, TypeOK, counter
  <2> QED BY <1>8, <2>2, <2>3 DEF Arm, TypeInv, TypeOK, ReadInv, Setting, counter, registers, locals, history
<1>9. CASE CancelAlarm
  BY <1>9 DEF CancelAlarm, TypeInv, TypeOK, ReadInv, Setting, counter, registers, locals, history
<1>10. CASE Clear
  BY <1>10 DEF Clear, TypeInv, TypeOK, ReadInv, Setting, counter, locals, history
<1>11. CASE Tick
  <2>1. armed' # NoAlarm => now' <= armed'.due /\ armed'.due <= now' + Top
    BY <1>11 DEF Tick, TypeInv, TypeOK, ArmedAlarm
  <2> QED BY <1>11, <2>1 DEF Tick, TypeInv, TypeOK, ReadInv, Setting, ToGo, registers, locals, history
<1>12. CASE AlarmHandler
  BY <1>12 DEF AlarmHandler, TypeInv, TypeOK, ReadInv, Setting, ToGo, counter, locals, history
<1>13. CASE UNCHANGED vars
  BY <1>13 DEF vars, TypeInv, TypeOK, ReadInv, Setting, ToGo, counter, registers, locals, history
<1> QED
  BY <1>1, <1>2, <1>3, <1>4, <1>5, <1>6, <1>7, <1>8, <1>9, <1>10, <1>11, <1>12, <1>13
  DEF Next, Sketch

LEMMA TypeInvariance == Spec => []TypeInv
  BY TypeInit, TypeStep, PTL DEF Spec

\* The registers, the counter and the channel keep their types, and an armed
\* alarm is due within one turn of the counter: RTC.cpp 601-720.
THEOREM Typing == Spec => []TypeOK
<1>1. TypeInv => TypeOK
  BY DEF TypeInv
<1> QED BY <1>1, TypeInvariance, PTL

-----------------------------------------------------------------------------
(* What is reported, and what is armed *)

\* Throughout setAlarm an armed alarm is an older one; the marks are true
\* until setAlarm makes them anew.
PendingInv ==
  /\ pc \notin {"arm", "clear"} /\ alarmPending => armed # NoAlarm /\ armed.goal = alarmEpoch
  /\ Setting \/ pc = "clear" => (armed # NoAlarm => older)
  /\ pc \in {"idle", "offset"} => (armed # NoAlarm /\ ~older => alarmPending)
  /\ pc = "arm" => alarmEpoch = target /\ (~older => alarmPending)

LEMMA PendingStep == TypeInv /\ PendingInv /\ [Next]_vars => PendingInv'
<1> SUFFICES ASSUME TypeInv, PendingInv, [Next]_vars PROVE PendingInv'
  OBVIOUS
<1> USE DEF PendingInv, Setting
<1>1. CASE Begin
  BY <1>1 DEF Begin, registers, locals, history
<1>2. ASSUME NEW t \in Time, SetTime(t) PROVE PendingInv'
  BY <1>2 DEF SetTime, registers, history
<1>3. CASE StoreOffset
  BY <1>3 DEF StoreOffset, registers, locals
<1>4. ASSUME NEW t \in Time, NEW c \in {alarms + 1, NoAlarm}, SetAlarm(t, c) PROVE PendingInv'
  BY <1>4 DEF SetAlarm, registers
<1>5. CASE StoreCallback
  BY <1>5 DEF StoreCallback, locals, history
<1>6. CASE StoreData
  BY <1>6 DEF StoreData, locals, history
<1>7. CASE StorePending
  BY <1>7 DEF StorePending, locals, history
<1>8. CASE Arm
  <2>1. armed # NoAlarm => armed' = armed /\ pc' = "clear"
    BY <1>8 DEF Arm
  <2>2. armed = NoAlarm /\ armed' # NoAlarm => armed'.goal = alarmEpoch' /\ pc' = "idle"
    BY <1>8 DEF Arm, registers
  <2>3. armed = NoAlarm /\ pc' # "clear" => armed' # NoAlarm /\ pc' = "idle"
    BY <1>8, ArmType DEF Arm
  <2> QED BY <1>8, <2>1, <2>2, <2>3 DEF Arm, registers, locals, history
<1>9. CASE CancelAlarm
  BY <1>9 DEF CancelAlarm, registers, locals, history
<1>10. CASE Clear
  BY <1>10 DEF Clear, locals, history
<1>11. CASE Tick
  BY <1>11 DEF Tick, registers, locals, history
<1>12. CASE AlarmHandler
  BY <1>12 DEF AlarmHandler, locals, history
<1>13. CASE UNCHANGED vars
  BY <1>13 DEF vars, registers, locals, history
<1> QED
  BY <1>1, <1>2, <1>3, <1>4, <1>5, <1>6, <1>7, <1>8, <1>9, <1>10, <1>11, <1>12, <1>13
  DEF Next, Sketch

\* isAlarmPending and getAlarm report the alarm that is armed, and an armed
\* alarm is reported unless it was older than the last setAlarm.
THEOREM PendingAlarm == Spec => []PendingIsArmed
<1>1. Init => PendingInv
  BY DEF Init, PendingInv, Setting
<1>2. PendingInv => PendingIsArmed
  BY DEF PendingInv, PendingIsArmed
<1> QED BY <1>1, <1>2, TypeInvariance, PendingStep, PTL DEF Spec

-----------------------------------------------------------------------------
(* Whose callback the interrupt finds, and when *)

\* The registers belong to the armed alarm until a later setAlarm stores its own,
\* one after the other; when the driver refuses that one, they stay as it stored
\* them until they are cleared.
RegistersOf ==
  /\ armed # NoAlarm => armed.id <= alarms
  /\ Setting \/ pc = "clear" => (armed # NoAlarm => armed.id < alarms)
  /\ pc \in {"idle", "offset", "callback", "data"} =>
       (armed # NoAlarm => userAlarmCallbackData \in {armed.id, NoAlarm})
  /\ pc \in {"idle", "offset", "callback"} =>
       (armed # NoAlarm /\ userAlarmCallback # NoAlarm
          => userAlarmCallback = armed.id /\ userAlarmCallbackData = armed.id)
  /\ pc \in {"data", "pending", "arm"} => userAlarmCallback = cb
  /\ pc \in {"pending", "arm"} => userAlarmCallbackData = alarms
  /\ pc = "clear" => (armed # NoAlarm => /\ userAlarmCallback \in {alarms, NoAlarm}
                                         /\ userAlarmCallbackData = alarms)

\* What CallsInTime says, of an alarm at the tick it is due.
DueInTime(a) ==
  LET late == a.due - Reached(a) + Lost(a)
  IN late >= ShownFor(a) /\ late < ShownFor(a) + (a.at - a.taken) + Freq

ServedInv == RegistersOf /\ (armed # NoAlarm => DueInTime(armed))

LEMMA RegistersStep == TypeInv /\ RegistersOf /\ [Next]_vars => RegistersOf'
<1> SUFFICES ASSUME TypeInv, RegistersOf, [Next]_vars PROVE RegistersOf'
  OBVIOUS
<1> USE DEF RegistersOf, Setting
<1>1. CASE Begin
  BY <1>1 DEF Begin, registers, locals, history
<1>2. ASSUME NEW t \in Time, SetTime(t) PROVE RegistersOf'
  BY <1>2 DEF SetTime, registers, history
<1>3. CASE StoreOffset
  BY <1>3 DEF StoreOffset, registers, locals
<1>4. ASSUME NEW t \in Time, NEW c \in {alarms + 1, NoAlarm}, SetAlarm(t, c) PROVE RegistersOf'
  <2>1. /\ pc = "idle" /\ pc' = "callback" /\ alarms' = alarms + 1
        /\ UNCHANGED <<armed, userAlarmCallback, userAlarmCallbackData>>
    BY <1>4 DEF SetAlarm, registers
  <2>2. alarms \in Nat /\ (armed # NoAlarm => armed.id \in Nat)
    BY RtcAssumption DEF TypeInv, TypeOK, ArmedAlarm, Alarm
  <2> QED BY <2>1, <2>2
<1>5. CASE StoreCallback
  BY <1>5 DEF StoreCallback, locals, history
<1>6. CASE StoreData
  BY <1>6 DEF StoreData, locals, history
<1>7. CASE StorePending
  BY <1>7 DEF StorePending, locals, history
<1>8. CASE Arm
  <2>1. /\ userAlarmCallback = cb /\ userAlarmCallbackData = alarms
        /\ UNCHANGED <<userAlarmCallback, userAlarmCallbackData, alarms>>
    BY <1>8 DEF Arm, registers, history
  <2>2. cb \in {alarms, NoAlarm} /\ alarms \in Nat
    BY <1>8, RtcAssumption DEF Arm, TypeInv, TypeOK, ReadInv
  <2>3. CASE pc' = "clear"
    <3>1. armed' = armed /\ pc = "arm"
      BY <1>8, <2>3 DEF Arm
    <3> QED BY <2>1, <2>2, <2>3, <3>1
  <2>4. CASE pc' = "idle"
    <3>1. armed'.id = alarms
      BY <1>8, <2>4 DEF Arm
    <3> QED BY <2>1, <2>2, <2>4, <3>1
  <2> QED BY <1>8, <2>3, <2>4 DEF Arm
<1>9. CASE CancelAlarm
  BY <1>9 DEF CancelAlarm, registers, locals, history
<1>10. CASE Clear
  BY <1>10 DEF Clear, locals, history
<1>11. CASE Tick
  BY <1>11 DEF Tick, registers, locals, history
<1>12. CASE AlarmHandler
  BY <1>12 DEF AlarmHandler, locals, history
<1>13. CASE UNCHANGED vars
  BY <1>13 DEF vars, registers, locals, history
<1> QED
  BY <1>1, <1>2, <1>3, <1>4, <1>5, <1>6, <1>7, <1>8, <1>9, <1>10, <1>11, <1>12, <1>13
  DEF Next, Sketch

\* The driver counts the ticks from now on, which is what makes the alarm late
\* by what the counter shows; 32 bits lose whole multiples of Word of them.
LEMMA ArmedInTime ==
  ASSUME TypeInv, Arm, pc' = "idle"
  PROVE  DueInTime(armed')
<1>1. armed' = [id |-> alarms, goal |-> target, due |-> now + AlarmTicks,
                at |-> now, taken |-> taken, togo |-> ToGo]
  BY DEF Arm
<1>2. /\ armed'.due = now + AlarmTicks /\ armed'.at = now
      /\ armed'.taken = taken /\ armed'.togo = ToGo
  BY <1>1
<1>3. base = taken % (Top + 1) /\ taken <= now /\ taken \in Nat /\ now \in Nat /\ base \in Nat
  BY DEF Arm, TypeInv, TypeOK, ReadInv, Setting
<1> DEFINE d == ToGo * Freq  b == base % Freq  w == (base + d) % Word  l == ((base + d) \div Word) * Word
<1>4. d \in Nat
  BY ArmType, RtcAssumption
<1>5. b \in 0 .. Freq - 1
  BY <1>3, Division, RtcAssumption
<1>6. w \in Nat /\ l \in Nat /\ base + d = l + w
  <2> DEFINE n == base + d
  <2>1. n \in Nat
    BY <1>3, <1>4
  <2> HIDE DEF n, d, b
  <2>2. n \div Word \in Nat /\ n % Word \in Nat /\ n = Word * (n \div Word) + (n % Word)
    BY <2>1, Division, RtcAssumption
  <2>3. /\ n % Word \in Nat /\ (n \div Word) * Word \in Nat
        /\ n = (n \div Word) * Word + (n % Word)
    BY <2>2, RtcAssumption
  <2> QED BY <2>3 DEF n
<1>7. ShownFor(armed') = base
  BY <1>2, <1>3 DEF ShownFor
<1>8. Reached(armed') = taken - b + d
  BY <1>2, <1>7 DEF Reached
<1>9. Lost(armed') = l
  BY <1>2, <1>7 DEF Lost
<1>10. AlarmTicks = w
  BY DEF AlarmTicks
<1> HIDE DEF d, b, w, l
<1>11. Freq \in Nat
  BY RtcAssumption
<1>12. /\ (now + w) - (taken - b + d) + l >= base
       /\ (now + w) - (taken - b + d) + l < base + (now - taken) + Freq
  BY <1>3, <1>4, <1>5, <1>6, <1>11
<1> QED BY <1>2, <1>7, <1>8, <1>9, <1>10, <1>12 DEF DueInTime

LEMMA DueStep ==
  ASSUME TypeInv, armed # NoAlarm => DueInTime(armed), [Next]_vars
  PROVE  armed' # NoAlarm => DueInTime(armed')
<1>1. CASE Arm
  <2>1. CASE pc' = "idle"
    BY <1>1, <2>1, ArmedInTime
  <2>2. CASE pc' = "clear"
    <3>1. armed' = armed
      BY <1>1, <2>2 DEF Arm
    <3> QED BY <3>1
  <2> QED BY <1>1, <2>1, <2>2 DEF Arm
<1>2. CASE armed' = armed
  BY <1>2
<1>3. CASE armed' = NoAlarm
  BY <1>3
<1> QED
  BY <1>1, <1>2, <1>3
  DEF Next, Sketch, Begin, SetTime, StoreOffset, SetAlarm, StoreCallback, StoreData, StorePending,
      CancelAlarm, Clear, Tick, AlarmHandler, vars

\* An alarm that is raised calls its own callback with its own data, or, in the
\* middle of a later setAlarm, that one's with the data stored so far; it is late
\* by what the counter showed when it was set and never earlier than that, except
\* by the ticks that 32 bits lose.
THEOREM AlarmsServed == Spec => AlarmServed
<1>1. Init => ServedInv
  BY DEF Init, ServedInv, RegistersOf, Setting
<1>2. TypeInv /\ ServedInv /\ [Next]_vars => ServedInv'
  BY RegistersStep, DueStep DEF ServedInv
<1>3. TypeInv /\ ServedInv /\ [Next]_vars =>
        [AlarmRaised => /\ userAlarmCallback # NoAlarm => CallsCallback
                        /\ CallsInTime]_vars
  <2> SUFFICES ASSUME TypeInv, ServedInv, Next, AlarmRaised
               PROVE  /\ userAlarmCallback # NoAlarm => CallsCallback
                      /\ CallsInTime
    BY DEF vars, AlarmRaised
  <2>1. AlarmHandler
    <3>1. armed # NoAlarm /\ armed' = NoAlarm /\ pc' = pc
      BY DEF AlarmRaised
    <3> QED
      BY <3>1 DEF Next, Sketch, Tick, Begin, SetTime, StoreOffset, SetAlarm, StoreCallback,
                  StoreData, StorePending, Arm, CancelAlarm, Clear
  <2>2. armed # NoAlarm /\ now = armed.due
    BY <2>1 DEF AlarmHandler
  <2>3. CallsInTime
    BY <2>2, Zenon DEF ServedInv, DueInTime, CallsInTime
  <2>4. ASSUME userAlarmCallback # NoAlarm PROVE CallsCallback
    <3>1. pc \in {"data", "pending", "arm"} => userAlarmCallback = alarms
      BY <2>4 DEF ServedInv, RegistersOf, TypeInv, ReadInv, Setting
    <3>2. pc \in {"idle", "offset", "callback", "data", "pending", "arm", "clear"}
      BY DEF TypeInv, TypeOK
    <3> QED BY <2>2, <2>4, <3>1, <3>2 DEF ServedInv, RegistersOf, Setting, CallsCallback
  <2> QED BY <2>3, <2>4
<1> QED BY <1>1, <1>2, <1>3, TypeInvariance, PTL DEF Spec, AlarmServed

-----------------------------------------------------------------------------
(* The time that is read *)

\* The offset is the time that was set less the seconds the counter showed.
ClockInv ==
  /\ timeOffset = shown.time - (shown.at % (Top + 1)) \div Freq
  /\ shown.at <= now

LEMMA ClockStep == TypeInv /\ ClockInv /\ [Next]_vars => ClockInv'
<1> SUFFICES ASSUME TypeInv, ClockInv, [Next]_vars PROVE ClockInv'
  OBVIOUS
<1>1. CASE StoreOffset
  BY <1>1 DEF StoreOffset, ClockInv, TypeInv, TypeOK, ReadInv, counter
<1>2. CASE Tick
  BY <1>2 DEF Tick, ClockInv, TypeInv, TypeOK, history
<1>3. CASE UNCHANGED <<now, timeOffset, shown>>
  BY <1>3 DEF ClockInv
<1> QED
  BY <1>1, <1>2, <1>3
  DEF Next, Sketch, Begin, SetTime, SetAlarm, StoreCallback, StoreData, StorePending, Arm,
      CancelAlarm, Clear, AlarmHandler, vars, counter, history

LEMMA ReadingInTime ==
  ASSUME TypeOK, ClockInv
  PROVE  ReadingWithinASecond
<1> DEFINE M == Top + 1  a == now % M  b == shown.at % M
           q == now \div M  p == shown.at \div M
<1>1. now \in Nat /\ shown.at \in Nat /\ shown.time \in Nat /\ M \in Nat \ {0}
  BY RtcAssumption DEF TypeOK
<1> HIDE DEF M
<1>2. a \in Nat /\ q \in Nat /\ now = M * q + a
  <2>1. a \in 0 .. M - 1 /\ q \in Nat /\ now = M * q + a
    BY <1>1, Division, Zenon
  <2> HIDE DEF a, q
  <2> QED BY <2>1
<1>3. b \in Nat /\ p \in Nat /\ shown.at = M * p + b
  <2>1. b \in 0 .. M - 1 /\ p \in Nat /\ shown.at = M * p + b
    BY <1>1, Division, Zenon
  <2> HIDE DEF b, p
  <2> QED BY <2>1
<1>4. (a \div Freq) \in Nat /\ (b \div Freq) \in Nat
  BY <1>2, <1>3, Division, RtcAssumption
<1>5. Reading - shown.time = (a \div Freq) - (b \div Freq)
  BY <1>1, <1>4 DEF M, Reading, Ticks, ClockInv
<1>6. /\ ((a \div Freq) - (b \div Freq)) * Freq < (a - b) + Freq
      /\ ((a \div Freq) - (b \div Freq)) * Freq > (a - b) - Freq
  BY <1>2, <1>3, Seconds, RtcAssumption
<1>7. now - shown.at - (q - p) * M = a - b
  <2> HIDE DEF q, p, a, b
  <2>1. M * q - M * p = (q - p) * M
    BY <1>1, <1>2, <1>3
  <2>2. M * q \in Int /\ M * p \in Int /\ (q - p) * M \in Int
    BY <1>1, <1>2, <1>3
  <2> QED BY <1>2, <1>3, <2>1, <2>2
<1>8. /\ (Reading - shown.time) * Freq < (now - shown.at - (q - p) * M) + Freq
      /\ (Reading - shown.time) * Freq > (now - shown.at - (q - p) * M) - Freq
  <2> HIDE DEF a, b, q, p
  <2> QED BY <1>5, <1>6, <1>7
<1> QED BY <1>8, Zenon DEF M, ReadingWithinASecond

\* The time read is less than a second off, but for one turn of the counter each
\* time it has wrapped, for every frequency and width of the counter.
THEOREM ReadingIsTrue == Spec => []ReadingWithinASecond
<1>1. Init => ClockInv
  <2>1. 0 % (Top + 1) = 0 /\ 0 \div Freq = 0
    BY RtcAssumption, ZeroDivision
  <2> QED BY <2>1 DEF Init, ClockInv
<1>2. TypeInv /\ ClockInv => ReadingWithinASecond
  BY ReadingInTime DEF TypeInv
<1> QED BY <1>1, <1>2, TypeInvariance, ClockStep, PTL DEF Spec
=============================================================================
