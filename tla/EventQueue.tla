----------------------------- MODULE EventQueue -----------------------------
(***************************************************************************)
(* The queue through which every thread hands its work to the main thread   *)
(* (lib/base/EventQueue.cpp with lib/base/SimpleEventQueueBuffer.cpp).       *)
(* Until the main loop is ready events are kept aside in m_pending, which no *)
(* lock protects; afterwards their data is stored under an id, and the ids   *)
(* wait in the buffer.  An event is a pair of the thread that adds it and a  *)
(* number.                                                                   *)
(***************************************************************************)
EXTENDS Integers, Sequences, FiniteSets

CONSTANTS
    Producers,      \* threads that add events
    MaxEvents,      \* of each
    MaxAdopts       \* buffers that are adopted

\* What the constants may be.
EventQueueAssumption == IsFiniteSet(Producers) /\ MaxEvents \in Nat /\ MaxAdopts \in Nat

VARIABLES
    ready,          \* m_readyCondVar
    draining,       \* the loop empties m_pending
    pending,        \* m_pending
    buffer,         \* the ids in the buffer, the oldest first
    events,         \* m_events: what is stored under an id
    oldIDs,         \* m_oldEventIDs
    holding,        \* per thread: it found the loop not ready and did not yet push
    sent,           \* per thread: the events it added
    dispatched,     \* in their order
    aside,          \* the events that were pushed to m_pending
    discarded,      \* by a new buffer
    adopts          \* bound

vars == <<ready, draining, pending, buffer, events, oldIDs, holding, sent, dispatched, aside,
          discarded, adopts>>

IDs == 0..(Cardinality(Producers) * MaxEvents)
Events == Producers \X (1..MaxEvents)

Held(s) == {s[i] : i \in 1..Len(s)}

\* Every variable has its type.
TypeOK ==
    /\ ready \in BOOLEAN /\ draining \in BOOLEAN
    /\ Held(pending) \subseteq Events
    /\ Held(buffer) \subseteq IDs /\ Held(oldIDs) \subseteq IDs
    /\ DOMAIN events \subseteq IDs /\ \A i \in DOMAIN events : events[i] \in Events
    /\ holding \in [Producers -> BOOLEAN] /\ sent \in [Producers -> 0..MaxEvents]
    /\ Held(dispatched) \subseteq Events
    /\ aside \subseteq Events /\ discarded \subseteq Events
    /\ adopts \in 0..MaxAdopts

Init ==
    /\ ready = FALSE /\ draining = FALSE
    /\ pending = <<>> /\ buffer = <<>> /\ events = [i \in {} |-> 0] /\ oldIDs = <<>>
    /\ holding = [p \in Producers |-> FALSE] /\ sent = [p \in Producers |-> 0]
    /\ dispatched = <<>> /\ aside = {} /\ discarded = {} /\ adopts = 0

Last(s) == s[Len(s)]

\* Mutant: an id is the number of events that are stored, whatever was used before.
freshID == Cardinality(DOMAIN events)

\* saveEvent: an id that was used before, or one more.
saveID == IF oldIDs # <<>> THEN Last(oldIDs) ELSE Cardinality(DOMAIN events)

\* addEventToBuffer, which is one step: the lock is held.
addEventToBuffer(e) ==
    /\ events' = [i \in DOMAIN events \cup {saveID} |-> IF i = saveID THEN e ELSE events[i]]
    /\ buffer' = Append(buffer, saveID)
    /\ oldIDs' = IF oldIDs # <<>> THEN SubSeq(oldIDs, 1, Len(oldIDs) - 1) ELSE oldIDs

\* addEvent, to where it looks whether the loop is ready.
addEvent(p) ==
    /\ ~holding[p] /\ sent[p] < MaxEvents
    /\ sent' = [sent EXCEPT ![p] = @ + 1]
    /\ IF ready
       THEN addEventToBuffer(<<p, sent'[p]>>) /\ UNCHANGED holding
       ELSE holding' = [holding EXCEPT ![p] = TRUE] /\ UNCHANGED <<buffer, events, oldIDs>>
    /\ UNCHANGED <<ready, draining, pending, dispatched, aside, discarded, adopts>>

\* addEvent: m_pending.push, with no lock.
push(p) ==
    /\ holding[p]
    /\ holding' = [holding EXCEPT ![p] = FALSE]
    /\ pending' = Append(pending, <<p, sent[p]>>)
    /\ aside' = aside \cup {<<p, sent[p]>>}
    /\ UNCHANGED <<ready, draining, buffer, events, oldIDs, sent, dispatched, discarded, adopts>>

\* loop: the queue is ready before what is pending goes to the buffer.
loop ==
    /\ ~ready
    /\ ready' = TRUE /\ draining' = TRUE
    /\ UNCHANGED <<pending, buffer, events, oldIDs, holding, sent, dispatched, aside, discarded, adopts>>

drain ==
    /\ draining /\ pending # <<>>
    /\ addEventToBuffer(Head(pending))
    /\ pending' = Tail(pending)
    /\ UNCHANGED <<ready, draining, holding, sent, dispatched, aside, discarded, adopts>>

drained ==
    /\ draining /\ pending = <<>>
    /\ draining' = FALSE
    /\ UNCHANGED <<ready, pending, buffer, events, oldIDs, holding, sent, dispatched, aside,
                   discarded, adopts>>

\* removeEvent: what is stored under an id.
removedEvent(i) == events[i]

\* getEvent, removeEvent and dispatchEvent.
dispatchEvent ==
    /\ ready /\ ~draining /\ buffer # <<>>
    /\ LET i == Head(buffer)
       IN  /\ dispatched' = Append(dispatched, removedEvent(i))
           /\ events' = [j \in DOMAIN events \ {i} |-> events[j]]
           /\ oldIDs' = Append(oldIDs, i)
    /\ buffer' = Tail(buffer)
    /\ UNCHANGED <<ready, draining, pending, holding, sent, aside, discarded, adopts>>

\* adoptBuffer, when a screen is opened or closed: the events in the buffer are dropped.
adoptBuffer ==
    /\ ~draining /\ adopts < MaxAdopts
    /\ adopts' = adopts + 1
    /\ discarded' = discarded \cup {events[i] : i \in DOMAIN events}
    /\ buffer' = <<>> /\ events' = [i \in {} |-> 0] /\ oldIDs' = <<>>
    /\ UNCHANGED <<ready, draining, pending, holding, sent, dispatched, aside>>

Main == loop \/ drain \/ drained \/ dispatchEvent

Next ==
    \/ \E p \in Producers : addEvent(p) \/ push(p)
    \/ Main
    \/ adoptBuffer

Spec == Init /\ [][Next]_vars

------------------------------------------------------------------------------
(* Properties.                                                                 *)

\* The ids in the buffer are those of the stored events, each once, and none of them is free
\* to be used again, though ids are reused in any order.
IdsInUse ==
    /\ DOMAIN events = Held(buffer) /\ Len(buffer) = Cardinality(DOMAIN events)
    /\ Held(oldIDs) \cap DOMAIN events = {} /\ Len(oldIDs) = Cardinality(Held(oldIDs))

\* An event that overtakes an older one of the same thread overtakes one that was put aside:
\* the loop is ready before it has emptied m_pending.  All others are handled in their order.
InOrder ==
    \A i, j \in 1..Len(dispatched) :
        LET e == dispatched[i]
            f == dispatched[j]
        IN  i < j /\ e[1] = f[1] => e[2] < f[2] \/ (e[2] > f[2] /\ f \in aside)

\* Where an added event is: its thread holds it, it waits in m_pending or is stored, it was
\* handled, or a new buffer dropped it.
Places(e) ==
    <<holding[e[1]] /\ sent[e[1]] = e[2],
      e \in Held(pending),
      \E i \in DOMAIN events : events[i] = e,
      e \in Held(dispatched),
      e \in discarded>>

\* No event is lost on its way and none is handled twice: it is at one of these places.
OnePlace ==
    \A e \in Events : sent[e[1]] >= e[2] =>
        /\ Cardinality({i \in 1..5 : Places(e)[i]}) = 1
        /\ Cardinality({i \in 1..Len(dispatched) : dispatched[i] = e}) <= 1
=============================================================================
