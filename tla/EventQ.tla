------------------------------- MODULE EventQ -------------------------------
(***************************************************************************)
(* simplesim-3.0/eventq.c: a list of events sorted by time, with a free    *)
(* list of descriptors.  An event sets or clears a bit, sets a flag, adds  *)
(* to a sum, or calls a function; the functions modelled may queue one     *)
(* more event, delay time units after the time they are called with.       *)
(*                                                                         *)
(* eventq_service_events is one action per turn of its loop: while it runs *)
(* only the called functions reach the queue.                              *)
(***************************************************************************)
EXTENDS Integers, Sequences, SequencesExt, FiniteSets

CONSTANTS MaxEvents,   \* the argument of eventq_init
          Acts,        \* the actions queued: [kind, ...]
          MaxTime, MaxId

\* A function called at now queues an event for a later time: one queued for now
\* itself may be put before the event being served, which drops it (eventq.c:265).
LaterCallbacks == \A act \in Acts : act.kind = "Callback" => act.delay \in Nat \ {0}
ASSUME EventQAssumption == MaxTime \in Nat /\ LaterCallbacks

VARIABLES pending,     \* eventq_pending
          free,        \* the length of eventq_free
          next_ID, time, q_mode,
          world,       \* what the actions write
          ran, removed, \* ids that were executed, in order, and removed
          descriptors          \* descriptors allocated

queueVars == <<pending, free, next_ID, time, q_mode, world, ran, removed, descriptors>>

QueueInit ==
    /\ pending = <<>> /\ free = 0 /\ next_ID = 1 /\ time = 0 /\ q_mode = "idle"
    /\ world = [bits |-> {}, flag |-> 0, sum |-> 0]
    /\ ran = <<>> /\ removed = {} /\ descriptors = 0

\* Mutant: a new event always goes to the front.
InsertFront(q, e) == <<e>> \o q

\* The place of a new event: before the first event that is not earlier.
Place(q, e) ==
    CHOOSE i \in 1..(Len(q) + 1) : /\ i <= Len(q) => q[i].when >= e.when
                                  /\ \A j \in 1..(i - 1) : q[j].when < e.when
Insert(q, e) == InsertAt(q, Place(q, e), e)

\* eventq_event_count is never counted up, so the limit never stops an event.
eventq_event_count == 0
TooMany(count) == free = 0 /\ MaxEvents > 0 /\ count >= MaxEvents

\* __QUEUE_EVENT on the queue q: an event with the next id.
QUEUE_EVENT(q, when, act) == Insert(q, [when |-> when, id |-> next_ID, act |-> act])
Allocate == /\ free' = IF free = 0 THEN 0 ELSE free - 1
            /\ descriptors' = IF free = 0 THEN descriptors + 1 ELSE descriptors
            /\ next_ID' = next_ID + 1

\* The five eventq_queue functions, told apart by the action.
Queue(when, act) ==
    /\ q_mode = "idle" /\ next_ID <= MaxId
    /\ ~TooMany(eventq_event_count)
    /\ pending' = QUEUE_EVENT(pending, when, act)
    /\ Allocate
    /\ UNCHANGED <<time, q_mode, world, ran, removed>>

\* What an action writes.
EXECUTE_ACTION(act) ==
    CASE act.kind = "SetBit" -> [world EXCEPT !.bits = @ \cup {act.bit}]
      [] act.kind = "ClearBit" -> [world EXCEPT !.bits = @ \ {act.bit}]
      [] act.kind = "SetFlag" -> [world EXCEPT !.flag = act.value]
      [] act.kind = "AddOp" -> [world EXCEPT !.sum = @ + act.addend]
      [] act.kind = "Callback" -> world

Queues(e) == e.act.kind = "Callback" /\ next_ID <= MaxId
Counted == [kind |-> "AddOp", addend |-> 1]

\* The queue after the function of e has been called at now.
Called(q, e, now) ==
    IF Queues(e) THEN QUEUE_EVENT(q, now + e.act.delay, Counted) ELSE q

\* Mutant: the descriptor of an executed event is not given back.
Leaked(e) == /\ free' = IF Queues(e) /\ free > 0 THEN free - 1 ELSE free
             /\ descriptors' = IF Queues(e) /\ free = 0 THEN descriptors + 1 ELSE descriptors
             /\ next_ID' = IF Queues(e) THEN next_ID + 1 ELSE next_ID

\* The descriptor of the event goes back to the free list, after the called
\* function may have taken one from it.
Recycle(e) == /\ free' = IF Queues(e) /\ free > 0 THEN free ELSE free + 1
              /\ descriptors' = IF Queues(e) /\ free = 0 THEN descriptors + 1 ELSE descriptors
              /\ next_ID' = IF Queues(e) THEN next_ID + 1 ELSE next_ID

\* Executes an event at once: it is unlinked first and its function sees time 0.
eventq_execute(id) ==
    /\ q_mode = "idle"
    /\ \E i \in DOMAIN pending :
         LET e == pending[i]
         IN  /\ e.id = id
             /\ pending' = Called(RemoveAt(pending, i), e, 0)
             /\ world' = EXECUTE_ACTION(e.act)
             /\ ran' = Append(ran, id)
             /\ Recycle(e)
    /\ UNCHANGED <<time, q_mode, removed>>

eventq_remove(id) ==
    /\ q_mode = "idle"
    /\ \E i \in DOMAIN pending : pending[i].id = id /\ pending' = RemoveAt(pending, i)
    /\ removed' = removed \cup {id}
    /\ free' = free + 1
    /\ UNCHANGED <<next_ID, time, q_mode, world, ran, descriptors>>

Due == pending # <<>> /\ Head(pending).when <= time

\* eventq_service_events(now) starts.
StartService(now) ==
    /\ q_mode = "idle"
    /\ time' = now /\ q_mode' = "service"
    /\ UNCHANGED <<pending, free, next_ID, world, ran, removed, descriptors>>

\* Mutant: the queue after the function has been called is not looked at again.
TailBefore(e) == Tail(pending)

\* eventq_pending = ev->next: what follows the event in the queue its function
\* has left.
AfterEvent(e) ==
    LET q == Called(pending, e, time)
        at == CHOOSE i \in DOMAIN q : q[i].id = e.id
    IN  SubSeq(q, at + 1, Len(q))

Service ==
    /\ q_mode = "service" /\ Due
    /\ LET e == Head(pending)
       IN  /\ world' = EXECUTE_ACTION(e.act)
           /\ pending' = AfterEvent(e)
           /\ ran' = Append(ran, e.id)
           /\ Recycle(e)
    /\ UNCHANGED <<time, q_mode, removed>>

EndService ==
    /\ q_mode = "service" /\ ~Due
    /\ q_mode' = "idle"
    /\ UNCHANGED <<pending, free, next_ID, time, world, ran, removed, descriptors>>

QueueNext ==
    \/ \E when \in time..MaxTime, act \in Acts : Queue(when, act)
    \/ \E id \in 1..MaxId : eventq_execute(id) \/ eventq_remove(id)
    \/ \E now \in time..MaxTime : StartService(now)
    \/ Service \/ EndService

QueueSpec == QueueInit /\ [][QueueNext]_queueVars
-----------------------------------------------------------------------------
Ids(q) == {q[i].id : i \in DOMAIN q}
NoRepeat(f) == \A i, j \in DOMAIN f : f[i] = f[j] => i = j

\* Every event that was queued is pending, or was removed, or ran exactly once.
NoEventLost ==
    /\ Ids(pending) \cup removed \cup Range(ran) = 1..(next_ID - 1)
    /\ Ids(pending) \cap (removed \cup Range(ran)) = {} /\ removed \cap Range(ran) = {}
    /\ NoRepeat(ran) /\ NoRepeat([i \in DOMAIN pending |-> pending[i].id])

\* No descriptor leaks: each one that was allocated is pending or free.
NoDescriptorLost == descriptors = Len(pending) + free

\* An event that was queued is pending, or was removed, or ran exactly once,
\* and every descriptor of the event queue is pending or free.
QueueConserved == NoEventLost /\ NoDescriptorLost

\* "service all events in order of occurrance until and at NOW": a finished
\* service leaves nothing due: the loop runs every event up to and at
\* now, and those its callbacks queued in between.
NothingDueLeft ==
    [][q_mode = "service" /\ q_mode' = "idle" => \A i \in DOMAIN pending' : pending'[i].when > time]_queueVars
=============================================================================
