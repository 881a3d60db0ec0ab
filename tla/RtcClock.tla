------------------------------- MODULE RtcClock -------------------------------
(***************************************************************************)
(* The clock and the alarm of the RTC library on boards without an RTC     *)
(* driver: a free-running counter that wraps, an offset in seconds, and    *)
(* one alarm channel of the counter whose interrupt calls alarmHandler     *)
(* between any two steps of the sketch.                                    *)
(*                                                                         *)
(* Times are seconds; RtcCalendar has their conversion to dates.           *)
(***************************************************************************)
EXTENDS Integers

CONSTANTS
  Freq,       \* counter_get_frequency
  Top,        \* largest value of the counter: 2^24 - 1 on a Nordic RTC
  Word,       \* 2^32, the modulus of uint32_t
  Time,       \* times that setTime and setAlarm are called with
  NoAlarm,    \* no alarm armed, no callback, no user data
  MaxTicks,   \* bound on the ticks that pass
  MaxAlarms   \* bound on the calls of setAlarm

Alarm == 1 .. MaxAlarms  \* the calls of setAlarm, their callbacks and user data

\* An alarm of the channel: its setAlarm and the time it is for, the tick it is
\* due, the tick it was armed, the tick setAlarm had read the counter, and the
\* seconds that were to go then.
ArmedAlarm == [id : Alarm, goal : Nat, due : Nat, at : Nat, taken : Nat, togo : Nat]

ASSUME RtcAssumption ==
  /\ Freq \in Nat \ {0} /\ Top \in Nat /\ Word \in Nat \ {0}
  /\ Time \subseteq Nat
  /\ MaxTicks \in Nat /\ MaxAlarms \in Nat
  /\ NoAlarm \notin Alarm \union ArmedAlarm

VARIABLES
  started,                \* the counter runs
  now,                    \* ticks since then, not wrapped
  timeOffset,
  userAlarmCallback,
  userAlarmCallbackData,
  alarmEpoch,
  alarmPending,
  armed,                  \* the alarm of channel 0 with the tick it is due
  pc,                     \* what the sketch does next
  target, cb, base,       \* its arguments, and the value it read from the counter
  taken,                  \* when it read that (history)
  alarms,                 \* calls of setAlarm that came past the test (history)
  older,                  \* whether the last one found an alarm armed (history)
  shown                   \* the time last set, and the tick it was for (history)

counter == <<started, now>>
registers == <<userAlarmCallback, userAlarmCallbackData, alarmEpoch, alarmPending>>
locals == <<target, cb, base, taken>>
history == <<alarms, older, shown>>
vars == <<counter, timeOffset, registers, armed, pc, locals, history>>

Ticks == now % (Top + 1)

-----------------------------------------------------------------------------
(* The clock *)

\* begin: counter_start.
Begin ==
  /\ pc = "idle"
  /\ ~started
  /\ started' = TRUE
  /\ UNCHANGED <<now, timeOffset, registers, armed, pc, locals, history>>

\* The counter; an alarm that is due is served before it goes on.
Tick ==
  /\ started
  /\ now < MaxTicks
  /\ armed # NoAlarm => now < armed.due
  /\ now' = now + 1
  /\ UNCHANGED <<started, timeOffset, registers, armed, pc, locals, history>>

\* setTime: counter_get_value.
SetTime(t) ==
  /\ pc = "idle"
  /\ target' = t /\ base' = Ticks /\ taken' = now
  /\ pc' = "offset"
  /\ UNCHANGED <<counter, timeOffset, registers, armed, cb, history>>

\* Mutant: the seconds the counter shows are not taken off.
StoreOffset_Target ==
  /\ pc = "offset"
  /\ timeOffset' = target
  /\ shown' = [time |-> target, at |-> taken]
  /\ pc' = "idle"
  /\ UNCHANGED <<counter, registers, armed, locals, alarms, older>>

\* setTime: the offset.
StoreOffset ==
  /\ pc = "offset"
  /\ timeOffset' = target - base \div Freq
  /\ shown' = [time |-> target, at |-> taken]
  /\ pc' = "idle"
  /\ UNCHANGED <<counter, registers, armed, locals, alarms, older>>

\* getTime.
Reading == timeOffset + Ticks \div Freq

-----------------------------------------------------------------------------
(* The alarm *)

\* setAlarm of a time to come; c is its callback, which may be null.
SetAlarm(t, c) ==
  /\ pc = "idle"
  /\ alarms < MaxAlarms
  /\ t > Reading
  /\ target' = t /\ cb' = c /\ base' = Ticks /\ taken' = now
  /\ alarms' = alarms + 1
  /\ older' = (armed # NoAlarm)
  /\ pc' = "callback"
  /\ UNCHANGED <<counter, timeOffset, registers, armed, shown>>

\* setAlarm: the registers, one store after the other.
StoreCallback ==
  /\ pc = "callback"
  /\ userAlarmCallback' = cb
  /\ pc' = "data"
  /\ UNCHANGED <<counter, timeOffset, userAlarmCallbackData, alarmEpoch, alarmPending, armed,
                 locals, history>>

StoreData ==
  /\ pc = "data"
  /\ userAlarmCallbackData' = alarms
  /\ pc' = "pending"
  /\ UNCHANGED <<counter, timeOffset, userAlarmCallback, alarmEpoch, alarmPending, armed,
                 locals, history>>

StorePending ==
  /\ pc = "pending"
  /\ alarmEpoch' = target
  /\ alarmPending' = TRUE
  /\ pc' = "arm"
  /\ UNCHANGED <<counter, timeOffset, userAlarmCallback, userAlarmCallbackData, armed,
                 locals, history>>

\* Seconds to go when the counter was read.
ToGo == target - (timeOffset + base \div Freq)

\* alarm_ticks.
AlarmTicks == (base + ToGo * Freq) % Word

\* Mutant: the driver takes more ticks than the counter has.
Arm_AnyTicks ==
  /\ pc = "arm"
  /\ \/ /\ armed # NoAlarm
        /\ pc' = "clear"
        /\ UNCHANGED armed
     \/ /\ armed = NoAlarm
        /\ armed' = [id |-> alarms, goal |-> target, due |-> now + AlarmTicks,
                     at |-> now, taken |-> taken, togo |-> ToGo]
        /\ pc' = "idle"
  /\ UNCHANGED <<counter, timeOffset, registers, locals, history>>

\* counter_set_channel_alarm with flags 0, by which the ticks count from now
\* on.  It refuses more ticks than the counter has, and a second alarm.
Arm ==
  /\ pc = "arm"
  /\ \/ /\ armed # NoAlarm \/ AlarmTicks > Top
        /\ pc' = "clear"
        /\ UNCHANGED armed
     \/ /\ armed = NoAlarm /\ AlarmTicks <= Top
        /\ armed' = [id |-> alarms, goal |-> target, due |-> now + AlarmTicks,
                     at |-> now, taken |-> taken, togo |-> ToGo]
        /\ pc' = "idle"
  /\ UNCHANGED <<counter, timeOffset, registers, locals, history>>

\* cancelAlarm: counter_cancel_channel_alarm.
CancelAlarm ==
  /\ pc = "idle"
  /\ armed' = NoAlarm
  /\ pc' = "clear"
  /\ UNCHANGED <<counter, timeOffset, registers, locals, history>>

\* Mutant: an alarm that is not set keeps its callback.
Clear_KeepsCallback ==
  /\ pc = "clear"
  /\ alarmEpoch' = 0 /\ alarmPending' = FALSE
  /\ pc' = "idle"
  /\ UNCHANGED <<counter, timeOffset, userAlarmCallback, userAlarmCallbackData, armed, locals,
                 history>>

\* Mutant: an alarm that is not set stays pending.
Clear_KeepsPending ==
  /\ pc = "clear"
  /\ userAlarmCallback' = NoAlarm /\ userAlarmCallbackData' = NoAlarm
  /\ pc' = "idle"
  /\ UNCHANGED <<counter, timeOffset, alarmEpoch, alarmPending, armed, locals, history>>

\* The registers of a cancelled alarm, or of one that was refused.  The
\* callback goes first: an interrupt among these stores calls nothing.
Clear ==
  /\ pc = "clear"
  /\ userAlarmCallback' = NoAlarm /\ userAlarmCallbackData' = NoAlarm
  /\ alarmEpoch' = 0 /\ alarmPending' = FALSE
  /\ pc' = "idle"
  /\ UNCHANGED <<counter, timeOffset, armed, locals, history>>

\* The interrupt: alarmHandler, which calls the callback if there is one.
AlarmHandler ==
  /\ armed # NoAlarm
  /\ now = armed.due
  /\ armed' = NoAlarm
  /\ alarmPending' = FALSE
  /\ UNCHANGED <<counter, timeOffset, userAlarmCallback, userAlarmCallbackData, alarmEpoch, pc,
                 locals, history>>

-----------------------------------------------------------------------------
Init ==
  /\ started = FALSE /\ now = 0
  /\ timeOffset = 0
  /\ userAlarmCallback = NoAlarm /\ userAlarmCallbackData = NoAlarm
  /\ alarmEpoch = 0 /\ alarmPending = FALSE
  /\ armed = NoAlarm
  /\ pc = "idle"
  /\ target = 0 /\ cb = NoAlarm /\ base = 0 /\ taken = 0
  /\ alarms = 0 /\ older = FALSE
  /\ shown = [time |-> 0, at |-> 0]

Sketch ==
  \/ Begin
  \/ \E t \in Time : SetTime(t)
  \/ StoreOffset
  \/ \E t \in Time, c \in {alarms + 1, NoAlarm} : SetAlarm(t, c)
  \/ StoreCallback \/ StoreData \/ StorePending \/ Arm
  \/ CancelAlarm \/ Clear

Next == Sketch \/ Tick \/ AlarmHandler

Spec == Init /\ [][Next]_vars

-----------------------------------------------------------------------------
(* Properties *)

\* Every variable has its type; an armed alarm is due within one turn of the
\* counter.
TypeOK ==
  /\ started \in BOOLEAN /\ now \in Nat
  /\ timeOffset \in Int
  /\ userAlarmCallback \in Alarm \union {NoAlarm}
  /\ userAlarmCallbackData \in Alarm \union {NoAlarm}
  /\ alarmEpoch \in Nat /\ alarmPending \in BOOLEAN
  /\ armed \in ArmedAlarm \union {NoAlarm}
  /\ armed # NoAlarm => now <= armed.due /\ armed.due <= now + Top
  /\ pc \in {"idle", "offset", "callback", "data", "pending", "arm", "clear"}
  /\ target \in Nat /\ cb \in Alarm \union {NoAlarm}
  /\ base \in Nat /\ taken \in Nat
  /\ alarms \in 0 .. MaxAlarms /\ older \in BOOLEAN
  /\ shown \in [time : Nat, at : Nat]

\* What isAlarmPending and getAlarm report is the alarm the counter will raise,
\* after refused, cancelled and raised alarms; and an armed alarm is reported,
\* unless setAlarm was called while another was armed: that one stays armed
\* behind cleared registers, or its interrupt clears the mark of the new one.
PendingIsArmed ==
  pc = "idle" =>
    /\ alarmPending => armed # NoAlarm /\ armed.goal = alarmEpoch
    /\ armed # NoAlarm /\ ~older => alarmPending

\* A step that raises the alarm.
AlarmRaised == armed # NoAlarm /\ armed' = NoAlarm /\ pc' = pc

\* Whose callback is called, and with whose data: those of the alarm that is due,
\* except in the middle of a later setAlarm, from its first store to its end.
\* There it is the later alarm that is called for, before its time, and between
\* its first two stores with what the older one left as data.
CallsCallback ==
  IF pc \in {"data", "pending", "arm", "clear"}
  THEN /\ armed.id < alarms
       /\ userAlarmCallback = alarms
       /\ userAlarmCallbackData \in IF pc = "data" THEN {armed.id, NoAlarm} ELSE {alarms}
  ELSE /\ userAlarmCallback = armed.id
       /\ userAlarmCallbackData = armed.id

\* What the counter showed when alarm a was set, the tick at which getTime comes
\* to the time a is for if the clock is not set anew, and what is lost of its
\* ticks in 32 bits.
ShownFor(a) == a.taken % (Top + 1)
Reached(a) == a.taken - (ShownFor(a) % Freq) + a.togo * Freq
Lost(a) == ((ShownFor(a) + a.togo * Freq) \div Word) * Word

\* When: late by what the counter showed when the alarm was set, and by the time
\* that went by until it was armed, and less than a second more; but early by
\* what its ticks lost.
CallsInTime ==
  LET late == now - Reached(armed) + Lost(armed)
  IN late >= ShownFor(armed) /\ late < ShownFor(armed) + (armed.at - armed.taken) + Freq

\* Whatever sketch and counter do in between, an alarm that is raised finds a
\* callback and its data as CallsCallback says, if it finds any, and comes as
\* CallsInTime says.
AlarmServed ==
  [][AlarmRaised => /\ userAlarmCallback # NoAlarm => CallsCallback
                    /\ CallsInTime]_vars

\* getTime is less than a second off the time that was set plus the time that
\* has passed since, less one turn of the counter for each time it has wrapped.
ReadingWithinASecond ==
  LET turns == now \div (Top + 1) - shown.at \div (Top + 1)
      passed == now - shown.at - turns * (Top + 1)
  IN /\ (Reading - shown.time) * Freq < passed + Freq
     /\ (Reading - shown.time) * Freq > passed - Freq
=============================================================================
