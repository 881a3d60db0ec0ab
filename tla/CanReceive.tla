----------------------------- MODULE CanReceive -----------------------------
(***************************************************************************)
(* ZephyrCAN of libraries/CAN: begin and end of a controller, its receive  *)
(* filters, and the way of a frame from the receive interrupt to read() or *)
(* to the callback that a worker thread runs.                              *)
(*                                                                         *)
(* The sketch runs in the main thread, at priority 14, and the worker at   *)
(* 10: the worker preempts the sketch as soon as it can run, so that the    *)
(* sketch goes on only while the worker waits for its semaphore or in the   *)
(* sketch's callback.  The driver's interrupt comes at any point.  A call   *)
(* is one step unless it leaves state that an interrupt, and the worker it  *)
(* wakes, can see half changed.                                            *)
(***************************************************************************)
EXTENDS Naturals, Sequences, SequencesExt

CONSTANTS
  Callback,   \* functions the sketch registers
  NoCallback, \* nullptr
  Data,       \* user data the sketch registers
  NoData,     \* nullptr
  DataOf,     \* the sketch registers callback f with DataOf[f]
  FilterId,   \* slots of the driver's filter table
  NoFilter,   \* no filter: -1 or an error code
  RxCap,      \* _rx_msgq: 32 frames
  CbCap,      \* _cb_msgq: 16 frames
  MaxFrames   \* bound on the frames the bus carries

ASSUME CanAssumption ==
  /\ NoCallback \notin Callback
  /\ NoData \notin Data
  /\ DataOf \in [Callback -> Data]
  /\ NoFilter \notin FilterId
  /\ RxCap \in Nat /\ CbCap \in Nat /\ MaxFrames \in Nat

Kind == {"std", "ext"}
NoFrame == 0
Frame == 1 .. MaxFrames  \* frames, numbered as they arrive

VARIABLES
  id,          \* id[k]: _filter_id_std, _filter_id_ext
  configured,  \* _std_filter_configured, _ext_filter_configured
  fd,          \* _tx_frame_flags has CAN_FRAME_FDF
  begun,       \* what the last begin returned, until end
  table,       \* table[i]: kind of the driver's filter i, or "unused"
  mode,        \* mode the controller is set to
  started,     \* the controller is started
  callback,    \* _rx_user_callback
  userData,    \* _rx_user_data
  registering, \* onReceive has set the first of the two
  rxq,         \* _rx_msgq
  cbq,         \* _cb_msgq
  sem,         \* _cb_sem
  worker,      \* where _callback_thread_entry is; "none" before the first begin
  frame,       \* the worker's frame
  fn,          \* the worker's copy of the callback
  arg,         \* the user data fn was called with
  arrived,     \* frames the controller has passed to _rx_callback
  lastRead,    \* frame the last read() returned
  lastCalled   \* frame the last callback was called with

control == <<id, configured, fd, begun, table, mode, started>>
registration == <<callback, userData, registering>>
thread == <<worker, frame, fn, arg>>
log == <<arrived, lastRead, lastCalled>>
vars == <<control, registration, rxq, cbq, sem, thread, log>>

Installed == {i \in FilterId : table[i] # "unused"}
Tracked == {id[k] : k \in Kind} \ {NoFilter}

\* The worker leaves the processor to the sketch; the sketch is between calls.
WorkerWaits == worker \in {"none", "inside"} \/ (worker = "take" /\ sem = 0)
SketchRuns == WorkerWaits /\ ~registering

-----------------------------------------------------------------------------
(* The sketch *)

\* addReceiveFilter: -EALREADY once filters are installed.
AddReceiveFilter(k) ==
  /\ SketchRuns
  /\ Tracked = {}
  /\ configured' = configured \union {k}
  /\ UNCHANGED <<id, fd, begun, table, mode, started, registration, rxq, cbq, sem, thread, log>>

\* A begin that fails before can_start has succeeded: at the capabilities or
\* the mode, at a bitrate, or at can_start, after the flags are set.  The
\* controller was stopped first.
BeginFails(m) ==
  /\ SketchRuns
  /\ started' = FALSE
  /\ begun' = FALSE
  /\ \/ UNCHANGED <<mode, fd>>
     \/ mode' = m /\ UNCHANGED fd
     \/ mode' = m /\ fd' = (m = "fd")
  /\ UNCHANGED <<id, configured, table, registration, rxq, cbq, sem, thread, log>>

\* What can_add_rx_filter returns for the kinds to be installed: an unused
\* slot of the table, or an error when there is none or the driver has none
\* for the kind.
Additions(ks) ==
  {new \in [ks -> FilterId \union {NoFilter}] :
     /\ \A k \in ks : new[k] # NoFilter => table[new[k]] = "unused"
     /\ \A j, k \in ks : new[j] = new[k] /\ new[j] # NoFilter => j = k}

\* Mutant: a classic begin leaves the FD flags of an earlier beginFD.
Begin_KeepsFlags(m) ==
  LET ks == IF configured = {} THEN Kind ELSE configured IN
  \E new \in Additions(ks) :
    /\ SketchRuns
    /\ mode' = m
    /\ fd' = (fd \/ m = "fd")
    /\ started' = TRUE
    /\ worker' = IF worker = "none" THEN "take" ELSE worker
    /\ id' = [k \in Kind |-> IF k \in ks THEN new[k] ELSE id[k]]
    /\ table' = [i \in FilterId |-> IF \E k \in ks : new[k] = i
                                    THEN CHOOSE k \in ks : new[k] = i ELSE table[i]]
    /\ begun' = \E k \in Kind : id'[k] # NoFilter
    /\ UNCHANGED <<configured, registration, rxq, cbq, sem, frame, fn, arg, log>>

\* Mutant: begin returns true once the controller has started.
Begin_IgnoresFilters(m) ==
  LET ks == IF configured = {} THEN Kind ELSE configured IN
  \E new \in Additions(ks) :
    /\ SketchRuns
    /\ mode' = m
    /\ fd' = (m = "fd")
    /\ started' = TRUE
    /\ worker' = IF worker = "none" THEN "take" ELSE worker
    /\ id' = [k \in Kind |-> IF k \in ks THEN new[k] ELSE id[k]]
    /\ table' = [i \in FilterId |-> IF \E k \in ks : new[k] = i
                                    THEN CHOOSE k \in ks : new[k] = i ELSE table[i]]
    /\ begun' = TRUE
    /\ UNCHANGED <<configured, registration, rxq, cbq, sem, frame, fn, arg, log>>

\* Mutant: only beginFD starts the worker.
Begin_ThreadForFd(m) ==
  LET ks == IF configured = {} THEN Kind ELSE configured IN
  \E new \in Additions(ks) :
    /\ SketchRuns
    /\ mode' = m
    /\ fd' = (m = "fd")
    /\ started' = TRUE
    /\ worker' = IF worker = "none" /\ m = "fd" THEN "take" ELSE worker
    /\ id' = [k \in Kind |-> IF k \in ks THEN new[k] ELSE id[k]]
    /\ table' = [i \in FilterId |-> IF \E k \in ks : new[k] = i
                                    THEN CHOOSE k \in ks : new[k] = i ELSE table[i]]
    /\ begun' = \E k \in Kind : id'[k] # NoFilter
    /\ UNCHANGED <<configured, registration, rxq, cbq, sem, frame, fn, arg, log>>

\* Mutant: both removals name the standard filter.
End_RemovesStdTwice ==
  /\ SketchRuns
  /\ table' = [i \in FilterId |-> IF i = id["std"] THEN "unused" ELSE table[i]]
  /\ id' = [k \in Kind |-> NoFilter]
  /\ started' = FALSE
  /\ begun' = FALSE
  /\ UNCHANGED <<configured, fd, mode, registration, rxq, cbq, sem, thread, log>>

\* A begin that gets past can_start.  Without configured filters both kinds
\* are accepted; the result is that one id at least is a filter's.
Begin(m) ==
  LET ks == IF configured = {} THEN Kind ELSE configured IN
  \E new \in Additions(ks) :
    /\ SketchRuns
    /\ mode' = m
    /\ fd' = (m = "fd")
    /\ started' = TRUE
    /\ worker' = IF worker = "none" THEN "take" ELSE worker
    /\ id' = [k \in Kind |-> IF k \in ks THEN new[k] ELSE id[k]]
    /\ table' = [i \in FilterId |-> IF \E k \in ks : new[k] = i
                                    THEN CHOOSE k \in ks : new[k] = i ELSE table[i]]
    /\ begun' = \E k \in Kind : id'[k] # NoFilter
    /\ UNCHANGED <<configured, registration, rxq, cbq, sem, frame, fn, arg, log>>

End ==
  /\ SketchRuns
  /\ table' = [i \in FilterId |-> IF i \in Tracked THEN "unused" ELSE table[i]]
  /\ id' = [k \in Kind |-> NoFilter]
  /\ started' = FALSE
  /\ begun' = FALSE
  /\ UNCHANGED <<configured, fd, mode, registration, rxq, cbq, sem, thread, log>>

\* onReceive, and clearReceiveCallback with NoCallback: the callback first.
OnReceive(f) ==
  /\ SketchRuns
  /\ callback' = f
  /\ registering' = TRUE
  /\ UNCHANGED <<control, userData, rxq, cbq, sem, thread, log>>

SetUserData ==
  /\ WorkerWaits
  /\ registering
  /\ userData' = IF callback = NoCallback THEN NoData ELSE DataOf[callback]
  /\ registering' = FALSE
  /\ UNCHANGED <<control, callback, rxq, cbq, sem, thread, log>>

\* read, readFD.
Read ==
  /\ SketchRuns
  /\ rxq # <<>>
  /\ lastRead' = Head(rxq)
  /\ rxq' = Tail(rxq)
  /\ UNCHANGED <<control, registration, cbq, sem, thread, arrived, lastCalled>>

-----------------------------------------------------------------------------
(* The interrupt *)

\* Mutant: the test of k_msgq_put is inverted.
RxCallback_GivesWhenFull ==
  /\ started
  /\ Installed # {}
  /\ arrived < MaxFrames
  /\ arrived' = arrived + 1
  /\ IF callback # NoCallback
     THEN /\ IF Len(cbq) < CbCap
             THEN cbq' = Append(cbq, arrived') /\ UNCHANGED sem
             ELSE sem' = sem + 1 /\ UNCHANGED cbq
          /\ UNCHANGED rxq
     ELSE /\ rxq' = IF Len(rxq) < RxCap THEN Append(rxq, arrived') ELSE rxq
          /\ UNCHANGED <<cbq, sem>>
  /\ UNCHANGED <<control, registration, thread, lastRead, lastCalled>>

\* Mutant: a frame for the callback is queued for read() too.
RxCallback_BothQueues ==
  /\ started
  /\ Installed # {}
  /\ arrived < MaxFrames
  /\ arrived' = arrived + 1
  /\ IF callback # NoCallback
     THEN /\ IF Len(cbq) < CbCap
             THEN cbq' = Append(cbq, arrived') /\ sem' = sem + 1
             ELSE UNCHANGED <<cbq, sem>>
          /\ rxq' = IF Len(rxq) < RxCap THEN Append(rxq, arrived') ELSE rxq
     ELSE /\ rxq' = IF Len(rxq) < RxCap THEN Append(rxq, arrived') ELSE rxq
          /\ UNCHANGED <<cbq, sem>>
  /\ UNCHANGED <<control, registration, thread, lastRead, lastCalled>>

\* Mutant: _rx_msgq is one frame too long for its buffer.
RxCallback_QueueTooLong ==
  /\ started
  /\ Installed # {}
  /\ arrived < MaxFrames
  /\ arrived' = arrived + 1
  /\ IF callback # NoCallback
     THEN /\ IF Len(cbq) < CbCap
             THEN cbq' = Append(cbq, arrived') /\ sem' = sem + 1
             ELSE UNCHANGED <<cbq, sem>>
          /\ UNCHANGED rxq
     ELSE /\ rxq' = IF Len(rxq) <= RxCap THEN Append(rxq, arrived') ELSE rxq
          /\ UNCHANGED <<cbq, sem>>
  /\ UNCHANGED <<control, registration, thread, lastRead, lastCalled>>

\* _rx_callback for a frame that an installed filter accepts.  A full queue
\* drops it.
RxCallback ==
  /\ started
  /\ Installed # {}
  /\ arrived < MaxFrames
  /\ arrived' = arrived + 1
  /\ IF callback # NoCallback
     THEN /\ IF Len(cbq) < CbCap
             THEN cbq' = Append(cbq, arrived') /\ sem' = sem + 1
             ELSE UNCHANGED <<cbq, sem>>
          /\ UNCHANGED rxq
     ELSE /\ rxq' = IF Len(rxq) < RxCap THEN Append(rxq, arrived') ELSE rxq
          /\ UNCHANGED <<cbq, sem>>
  /\ UNCHANGED <<control, registration, thread, lastRead, lastCalled>>

-----------------------------------------------------------------------------
(* The worker: _callback_thread_entry *)

TakeSem ==
  /\ worker = "take"
  /\ sem > 0
  /\ sem' = sem - 1
  /\ worker' = "drain"
  /\ UNCHANGED <<control, registration, rxq, cbq, frame, fn, arg, log>>

GetFrame ==
  /\ worker = "drain"
  /\ cbq # <<>>
  /\ frame' = Head(cbq)
  /\ cbq' = Tail(cbq)
  /\ worker' = "load"
  /\ UNCHANGED <<control, registration, rxq, sem, fn, arg, log>>

Drained ==
  /\ worker = "drain"
  /\ cbq = <<>>
  /\ worker' = "take"
  /\ UNCHANGED <<control, registration, rxq, cbq, sem, frame, fn, arg, log>>

\* The callback is copied; the frame is dropped when there is none.
LoadCallback ==
  /\ worker = "load"
  /\ \/ /\ callback # NoCallback
        /\ fn' = callback
        /\ worker' = "call"
        /\ UNCHANGED frame
     \/ /\ callback = NoCallback
        /\ worker' = "drain"
        /\ frame' = NoFrame
        /\ UNCHANGED fn
  /\ UNCHANGED <<control, registration, rxq, cbq, sem, arg, log>>

\* The user data is read as the argument of the call.
CallCallback ==
  /\ worker = "call"
  /\ arg' = userData
  /\ lastCalled' = frame
  /\ worker' = "inside"
  /\ UNCHANGED <<control, registration, rxq, cbq, sem, frame, fn, arrived, lastRead>>

CallbackReturns ==
  /\ worker = "inside"
  /\ worker' = "drain"
  /\ frame' = NoFrame
  /\ fn' = NoCallback
  /\ arg' = NoData
  /\ UNCHANGED <<control, registration, rxq, cbq, sem, log>>

Worker == \/ TakeSem \/ GetFrame \/ Drained
          \/ LoadCallback \/ CallCallback \/ CallbackReturns

-----------------------------------------------------------------------------
Init ==
  /\ id = [k \in Kind |-> NoFilter]
  /\ configured = {}
  /\ fd = FALSE
  /\ begun = FALSE
  /\ table = [i \in FilterId |-> "unused"]
  /\ mode = "normal"
  /\ started = FALSE
  /\ callback = NoCallback
  /\ userData = NoData
  /\ registering = FALSE
  /\ rxq = <<>>
  /\ cbq = <<>>
  /\ sem = 0
  /\ worker = "none"
  /\ frame = NoFrame
  /\ fn = NoCallback
  /\ arg = NoData
  /\ arrived = 0
  /\ lastRead = NoFrame
  /\ lastCalled = NoFrame

Next ==
  \/ \E k \in Kind : AddReceiveFilter(k)
  \/ \E m \in {"normal", "fd"} : BeginFails(m) \/ Begin(m)
  \/ End
  \/ \E f \in Callback \union {NoCallback} : OnReceive(f)
  \/ SetUserData
  \/ Read
  \/ RxCallback
  \/ Worker

Spec == Init /\ [][Next]_vars

\* The worker runs when it can, and callbacks return.
Fairness == WF_vars(Worker)

FairSpec == Spec /\ Fairness

-----------------------------------------------------------------------------
(* Properties *)

\* Every variable has its type; the queues keep their capacity.
TypeOK ==
  /\ id \in [Kind -> FilterId \union {NoFilter}]
  /\ configured \in SUBSET Kind
  /\ fd \in BOOLEAN /\ begun \in BOOLEAN /\ started \in BOOLEAN
  /\ table \in [FilterId -> Kind \union {"unused"}]
  /\ mode \in {"normal", "fd"}
  /\ callback \in Callback \union {NoCallback}
  /\ userData \in Data \union {NoData}
  /\ registering \in BOOLEAN
  /\ rxq \in Seq(Frame) /\ Len(rxq) <= RxCap
  /\ cbq \in Seq(Frame) /\ Len(cbq) <= CbCap
  /\ sem \in Nat
  /\ worker \in {"none", "take", "drain", "load", "call", "inside"}
  /\ frame \in Frame \union {NoFrame}
  /\ fn \in Callback \union {NoCallback}
  /\ arg \in Data \union {NoData}
  /\ arrived \in 0 .. MaxFrames
  /\ lastRead \in Frame \union {NoFrame}
  /\ lastCalled \in Frame \union {NoFrame}

\* A frame on its way to the callback is never left in the queue with the
\* worker asleep: neither a full queue, nor a callback cleared and set again,
\* nor a frame that comes as the worker finds the queue empty loses a wakeup.
NoFrameStranded == cbq # <<>> => sem > 0 \/ worker \notin {"none", "take"}

\* The frames of q came in this order, all after frame n.
InOrderAfter(n, q) ==
  \A i \in DOMAIN q : n < q[i] /\ \A j \in DOMAIN q : i < j => q[i] < q[j]

\* Each reader gets the frames in the order of the bus and none twice, and a
\* frame goes to the callback or to read(), never to both, however often the
\* callback is set and cleared.
FramesOnceInOrder ==
  /\ InOrderAfter(lastRead, rxq)
  /\ InOrderAfter(lastCalled, cbq)
  /\ frame # NoFrame /\ worker # "inside" => lastCalled < frame
  /\ \A n \in ToSet(rxq) \union {lastRead} :
       n # NoFrame => n \notin ToSet(cbq) \union {frame, lastCalled}

\* A controller that runs sends FD frames exactly in FD mode, after any
\* sequence of begin, beginFD and their failures.
FlagsMatchMode == started => (fd <=> mode = "fd")

\* When begin has returned true the controller runs and a filter is installed
\* whose id end will remove, also after a begin that found other filters.
BegunIsListening == begun => started /\ Tracked \intersect Installed # {}

\* The only way to lose an installed filter, so that end cannot remove it, is
\* to begin again without end.
FiltersLostByBeginOnly ==
  [][(Installed' \ Tracked') \subseteq (Installed \ Tracked)
       \/ (Tracked # {} /\ \E m \in {"normal", "fd"} : Begin(m))]_vars

\* Every frame queued for the callback leaves the queue, to be handed to it or
\* dropped because it has been cleared.
CallbackQueueServed == \A n \in Frame : n \in ToSet(cbq) ~> n \notin ToSet(cbq)

\* The callback gets the user data it was registered with.
CallbackGetsItsData == worker = "inside" => arg = DataOf[fn]

(* What the properties rest on *)

\* The filters end will remove are filters of the driver.
IdsInstalled == \A k \in Kind : id[k] # NoFilter => table[id[k]] # "unused"

\* The worker has a frame from GetFrame to the end of its call.
WorkerHolds ==
  /\ frame # NoFrame <=> worker \in {"load", "call", "inside"}
  /\ worker = "inside" => lastCalled = frame

\* The frames on their way, and those that reached their reader, have arrived;
\* the frame the worker has comes before those queued behind it.
QueuesArrived ==
  /\ lastRead <= arrived /\ lastCalled <= arrived /\ frame <= arrived
  /\ \A i \in DOMAIN rxq : rxq[i] <= arrived
  /\ \A i \in DOMAIN cbq : cbq[i] <= arrived /\ frame < cbq[i]

ReceiveInv ==
  /\ TypeOK
  /\ WorkerHolds
  /\ QueuesArrived
  /\ FramesOnceInOrder
  /\ NoFrameStranded
=============================================================================
