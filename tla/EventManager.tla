---------------------------- MODULE EventManager -----------------------------
(***************************************************************************)
(* The event manager of the tests of a supervision system                  *)
(* (smtest/event_manager.go): EventCollector hands an event to the         *)
(* goroutine of StartCollector and waits until it is in evBuffer; readers  *)
(* iterate over evBuffer and wait on a condition variable at its end.      *)
(* An event is its identity, a natural number.                             *)
(*                                                                         *)
(* evDone is set on the copy of the manager StartCollector runs with, and  *)
(* only if evCh is closed, which nothing does: readers never see it.       *)
(***************************************************************************)
EXTENDS Naturals, Sequences, SequencesExt

CONSTANT Reader  \* goroutines with an iterator

VARIABLES
    collector,  \* the goroutine of StartCollector: where it is
    evMsg,      \* the event it has received
    evBuffer,   \* the events collected so far
    reader      \* per reader: evIx, and whether it waits for a Broadcast

managerVars == <<collector, evMsg, evBuffer, reader>>

ManagerInit ==
    /\ collector = "select"
    /\ evMsg = 0
    /\ evBuffer = << >>
    /\ reader = [r \in Reader |-> [evIx |-> 0, waits |-> FALSE]]

\* EventCollector sends the event; evCh is unbuffered.
SendEvent(ev) ==
    /\ collector = "select"
    /\ collector' = "store"
    /\ evMsg' = ev
    /\ UNCHANGED <<evBuffer, reader>>

\* Fault: nobody who waits is told.
NoBroadcast == reader
Broadcast == [r \in Reader |-> [reader[r] EXCEPT !.waits = FALSE]]

\* storeEvent, under the lock of the condition variable.
StoreEvent ==
    /\ collector = "store"
    /\ evBuffer' = Append(evBuffer, evMsg)
    /\ reader' = Broadcast
    /\ collector' = "stored"
    /\ UNCHANGED evMsg

\* Fault: the notifier does not wait for the event to be stored.
ProcessedEarly(ev) == collector \in {"store", "stored"} /\ evMsg = ev
\* doneCh of the event is closed.
Processed(ev) == collector = "stored" /\ evMsg = ev

\* eventProcessed and waitForProcessing: EventCollector returns.
EventProcessed(ev) ==
    /\ Processed(ev)
    /\ collector' = IF collector = "stored" THEN "select" ELSE collector
    /\ UNCHANGED <<evMsg, evBuffer, reader>>

\* The context is done; from then on EventCollector returns at once.
StopCollector ==
    /\ collector = "select"
    /\ collector' = "gone"
    /\ UNCHANGED <<evMsg, evBuffer, reader>>

\* GetEventIx, under the lock: it returns the event or waits.
ReadEvent(r) ==
    /\ ~reader[r].waits /\ reader[r].evIx < Len(evBuffer)
    /\ reader' = [reader EXCEPT ![r].evIx = @ + 1]
    /\ UNCHANGED <<collector, evMsg, evBuffer>>

WaitForEvent(r) ==
    /\ ~reader[r].waits /\ reader[r].evIx >= Len(evBuffer)
    /\ reader' = [reader EXCEPT ![r].waits = TRUE]
    /\ UNCHANGED <<collector, evMsg, evBuffer>>

=============================================================================
