------------------------------- MODULE Telemetry -------------------------------
(***************************************************************************)
(* The two thread-safe observers of src/src/observability/telemetry.cpp:   *)
(* the InMemoryEventSink, which numbers events and keeps the latest ones,  *)
(* and the MetricsRegistry, which adds up named counters.  Every method    *)
(* checks its arguments, takes the object's mutex and works in several     *)
(* steps while it holds it; threads interleave between any two steps.      *)
(* Event contents and timestamps are left out.                             *)
(***************************************************************************)
EXTENDS Integers, Sequences

CONSTANTS
    Threads,
    NoThread,
    MetricNames,   \* names the callers use; NoName is the empty string
    NoName,
    Amounts,       \* amounts a caller adds
    Capacity,      \* events the sink keeps
    MaxWord        \* the largest value of the uint64 counters and numbers

ASSUME ThreadAssumption == NoThread \notin Threads
ASSUME NameAssumption == NoName \notin MetricNames
ASSUME CapacityAssumption == Capacity \in Nat \ {0}
ASSUME WordAssumption == MaxWord \in Nat \ {0}
ASSUME AmountAssumption == Amounts \subseteq 0 .. MaxWord

VARIABLES
    sinkHolder,      \* who holds the sink's mutex
    events,          \* events_: the numbers of the events kept, oldest first
    nextSequence,    \* next_sequence_
    registryHolder,  \* who holds the registry's mutex
    counters,        \* counters_: a name that is not in the map counts 0
    call,            \* what each thread is doing
    accepted,        \* history: publishes acknowledged so far
    granted          \* history: the sum of acknowledged increments per name

sinkVars == <<sinkHolder, events, nextSequence>>
registryVars == <<registryHolder, counters>>
historyVars == <<accepted, granted>>
vars == <<sinkVars, registryVars, historyVars, call>>

\* The stack of a thread outside the two objects.  Inside, pc is the step it is
\* at; number the event's sequence or the next_sequence a snapshot read; copied
\* and counts what a snapshot has copied; value the counter as it was read.
\* History: the publishes accepted when the call began, and the sums that were
\* true since then.
Idle == [pc |-> "idle", number |-> 0, copied |-> <<>>, name |-> NoName, amount |-> 0,
         value |-> 0, counts |-> <<>>, calledAfter |-> 0, moments |-> {}]

Init ==
    /\ sinkHolder = NoThread /\ registryHolder = NoThread
    /\ events = <<>> /\ nextSequence = 1
    /\ counters = [n \in MetricNames |-> 0]
    /\ call = [t \in Threads |-> Idle]
    /\ accepted = 0
    /\ granted = [n \in MetricNames |-> 0]

At(t, step) == call[t].pc = step
Goes(t, step) == call' = [call EXCEPT ![t].pc = step]
Returns(t) == call' = [call EXCEPT ![t] = Idle]

LockSink(t) == sinkHolder = NoThread /\ sinkHolder' = t
UnlockSink == sinkHolder' = NoThread
LockRegistry(t) == registryHolder = NoThread /\ registryHolder' = t
UnlockRegistry == registryHolder' = NoThread

-------------------------------------------------------------------------------
\* InMemoryEventSink::Publish

\* The component and the name are checked before the lock is taken.
CallPublish(t, component, name) ==
    /\ At(t, "idle")
    /\ NoName \notin {component, name}
    /\ call' = [call EXCEPT ![t] = [Idle EXCEPT !.pc = "publish", !.calledAfter = accepted]]
    /\ UNCHANGED <<sinkVars, registryVars, historyVars>>

EnterPublish(t) ==
    /\ At(t, "publish") /\ Goes(t, "number")
    /\ LockSink(t)
    /\ UNCHANGED <<events, nextSequence, registryVars, historyVars>>

\* next_sequence_ has wrapped to zero: no number is left.
Exhausted == nextSequence = 0

PublishRefused(t) ==
    /\ At(t, "number") /\ Returns(t)
    /\ Exhausted
    /\ UnlockSink
    /\ UNCHANGED <<events, nextSequence, registryVars, historyVars>>

\* ++next_sequence_ on an unsigned word.
NextWord(n) == IF n = MaxWord THEN 0 ELSE n + 1

TakeNumber(t) ==
    /\ At(t, "number")
    /\ ~Exhausted
    /\ call' = [call EXCEPT ![t].pc = "room", ![t].number = nextSequence]
    /\ nextSequence' = NextWord(nextSequence)
    /\ UNCHANGED <<sinkHolder, events, registryVars, historyVars>>

\* Variant: room is made one event too late.
MakeRoomLate(t) ==
    /\ At(t, "room") /\ Goes(t, "append")
    /\ events' = IF Len(events) > Capacity THEN Tail(events) ELSE events
    /\ UNCHANGED <<sinkHolder, nextSequence, registryVars, historyVars>>

\* The oldest event leaves a full log.
MakeRoom(t) ==
    /\ At(t, "room") /\ Goes(t, "append")
    /\ events' = IF Len(events) = Capacity THEN Tail(events) ELSE events
    /\ UNCHANGED <<sinkHolder, nextSequence, registryVars, historyVars>>

AppendEvent(t) ==
    /\ At(t, "append") /\ Goes(t, "published")
    /\ events' = Append(events, call[t].number)
    /\ UNCHANGED <<sinkHolder, nextSequence, registryVars, historyVars>>

PublishReturns(t) ==
    /\ At(t, "published") /\ Returns(t)
    /\ UnlockSink
    /\ accepted' = accepted + 1
    /\ UNCHANGED <<events, nextSequence, registryVars, granted>>

-------------------------------------------------------------------------------
\* InMemoryEventSink::Snapshot: the events first, then next_sequence_

CallEvents(t) ==
    /\ At(t, "idle")
    /\ call' = [call EXCEPT ![t] = [Idle EXCEPT !.pc = "snapshot", !.calledAfter = accepted]]
    /\ UNCHANGED <<sinkVars, registryVars, historyVars>>

EnterEvents(t) ==
    /\ At(t, "snapshot") /\ Goes(t, "copyEvents")
    /\ LockSink(t)
    /\ UNCHANGED <<events, nextSequence, registryVars, historyVars>>

\* Variant: the lock covers the copy of the events only.
CopyEventsAndUnlock(t) ==
    /\ At(t, "copyEvents")
    /\ call' = [call EXCEPT ![t].pc = "copyNext", ![t].copied = events]
    /\ UnlockSink
    /\ UNCHANGED <<events, nextSequence, registryVars, historyVars>>

CopyEvents(t) ==
    /\ At(t, "copyEvents")
    /\ call' = [call EXCEPT ![t].pc = "copyNext", ![t].copied = events]
    /\ UNCHANGED <<sinkVars, registryVars, historyVars>>

CopyNext(t) ==
    /\ At(t, "copyNext")
    /\ call' = [call EXCEPT ![t].pc = "eventsRead", ![t].number = nextSequence]
    /\ UnlockSink
    /\ UNCHANGED <<events, nextSequence, registryVars, historyVars>>

-------------------------------------------------------------------------------
\* MetricsRegistry::IncrementCounter

CallIncrement(t, name, amount) ==
    /\ At(t, "idle")
    /\ name # NoName
    /\ call' = [call EXCEPT ![t] = [Idle EXCEPT !.pc = "increment", !.name = name, !.amount = amount]]
    /\ UNCHANGED <<sinkVars, registryVars, historyVars>>

EnterIncrement(t) ==
    /\ At(t, "increment") /\ Goes(t, "find")
    /\ LockRegistry(t)
    /\ UNCHANGED <<sinkVars, counters, historyVars>>

\* An addition of unsigned words.
AddWords(a, b) == (a + b) % (MaxWord + 1)

\* Variant: the sum is compared after it has wrapped.
WouldOverflowWrapped(counter, amount) == AddWords(counter, amount) > MaxWord

WouldOverflow(counter, amount) == amount > MaxWord - counter

\* Variant: the error return leaves the mutex locked.
IncrementRefusedLocked(t) ==
    /\ At(t, "find") /\ Returns(t)
    /\ WouldOverflow(counters[call[t].name], call[t].amount)
    /\ UNCHANGED <<sinkVars, registryVars, historyVars>>

IncrementRefused(t) ==
    /\ At(t, "find") /\ Returns(t)
    /\ WouldOverflow(counters[call[t].name], call[t].amount)
    /\ UnlockRegistry
    /\ UNCHANGED <<sinkVars, counters, historyVars>>

FindCounter(t) ==
    /\ At(t, "find")
    /\ ~WouldOverflow(counters[call[t].name], call[t].amount)
    /\ call' = [call EXCEPT ![t].pc = "add", ![t].value = counters[call[t].name]]
    /\ UNCHANGED <<sinkVars, registryVars, historyVars>>

AddAmount(t) ==
    /\ At(t, "add") /\ Goes(t, "added")
    /\ counters' = [counters EXCEPT ![call[t].name] = AddWords(call[t].value, call[t].amount)]
    /\ UNCHANGED <<sinkVars, registryHolder, historyVars>>

\* Threads inside MetricsRegistry::Snapshot or CounterValue.
Copying == {t \in Threads : call[t].pc \in {"counters", "copyCounters"}}

IncrementReturns(t) ==
    /\ At(t, "added")
    /\ UnlockRegistry
    /\ granted' = [granted EXCEPT ![call[t].name] = @ + call[t].amount]
    /\ call' = [u \in Threads |->
                  IF u = t THEN Idle
                  ELSE IF u \in Copying THEN [call[u] EXCEPT !.moments = @ \cup {granted'}]
                  ELSE call[u]]
    /\ UNCHANGED <<sinkVars, counters, accepted>>

-------------------------------------------------------------------------------
\* MetricsRegistry::Snapshot copies the map entry by entry; CounterValue looks
\* up one entry.

CallCounters(t) ==
    /\ At(t, "idle")
    /\ call' = [call EXCEPT ![t] = [Idle EXCEPT !.pc = "counters", !.moments = {granted}]]
    /\ UNCHANGED <<sinkVars, registryVars, historyVars>>

EnterCounters(t) ==
    /\ At(t, "counters") /\ Goes(t, "copyCounters")
    /\ LockRegistry(t)
    /\ UNCHANGED <<sinkVars, counters, historyVars>>

CopyCounter(t, n) ==
    /\ At(t, "copyCounters")
    /\ n \notin DOMAIN call[t].counts
    /\ call' = [call EXCEPT ![t].counts =
                  [m \in {n} \cup DOMAIN @ |-> IF m = n THEN counters[n] ELSE @[m]]]
    /\ UNCHANGED <<sinkVars, registryVars, historyVars>>

CountersReturn(t) ==
    /\ At(t, "copyCounters") /\ Goes(t, "countersRead")
    /\ DOMAIN call[t].counts = MetricNames
    /\ UnlockRegistry
    /\ UNCHANGED <<sinkVars, counters, historyVars>>

CounterValue(t, n) ==
    /\ At(t, "copyCounters")
    /\ DOMAIN call[t].counts = {}
    /\ call' = [call EXCEPT ![t].pc = "countersRead", ![t].counts = [m \in {n} |-> counters[n]]]
    /\ UnlockRegistry
    /\ UNCHANGED <<sinkVars, counters, historyVars>>

\* The caller is done with the snapshot it got.
DropSnapshot(t) ==
    /\ call[t].pc \in {"eventsRead", "countersRead"}
    /\ Returns(t)
    /\ UNCHANGED <<sinkVars, registryVars, historyVars>>

-------------------------------------------------------------------------------
Calls(t) ==
    \/ \E component, name \in MetricNames \cup {NoName} : CallPublish(t, component, name)
    \/ CallEvents(t)
    \/ \E name \in MetricNames \cup {NoName}, amount \in Amounts : CallIncrement(t, name, amount)
    \/ CallCounters(t)

Enters(t) == EnterPublish(t) \/ EnterEvents(t) \/ EnterIncrement(t) \/ EnterCounters(t)

\* Steps of a thread that holds a mutex.
Works(t) ==
    \/ PublishRefused(t) \/ TakeNumber(t) \/ MakeRoom(t) \/ AppendEvent(t) \/ PublishReturns(t)
    \/ CopyEvents(t) \/ CopyNext(t)
    \/ IncrementRefused(t) \/ FindCounter(t) \/ AddAmount(t) \/ IncrementReturns(t)
    \/ \E n \in MetricNames : CopyCounter(t, n) \/ CounterValue(t, n)
    \/ CountersReturn(t)

Next == \E t \in Threads : Calls(t) \/ Enters(t) \/ Works(t) \/ DropSnapshot(t)

Spec == Init /\ [][Next]_vars

\* A thread that holds a mutex is scheduled and computes; nothing is said of
\* which waiting thread std::mutex lets in, or of threads that never call.
FairSpec == Spec /\ \A t \in Threads : WF_vars(Works(t))

-------------------------------------------------------------------------------
(* Properties *)

\* The log of a sink that accepted n events: the latest numbers, in order.
LatestEvents(n) ==
    LET kept == IF n < Capacity THEN n ELSE Capacity IN [i \in 1 .. kept |-> n - kept + i]

\* The next number after n accepted events, 0 when every number was given.
NumberAfter(n) == IF n = MaxWord THEN 0 ELSE n + 1

\* Between calls the sink holds exactly the latest accepted events, numbered 1,
\* 2, 3 ... without a gap or a repetition; the last number of the word is given
\* once and then every publish is refused (Publish).  A publish called after
\* another one returned gets a larger number.
EventsInOrder ==
    /\ sinkHolder = NoThread =>
         accepted <= MaxWord /\ events = LatestEvents(accepted) /\ nextSequence = NumberAfter(accepted)
    /\ \A t \in Threads :
         call[t].pc \in {"room", "append", "published"} => call[t].number > call[t].calledAfter

\* A snapshot shows the object as it was at one moment during the call: an event
\* log that agrees with the next number it reports, and counters that were all
\* true at once (both Snapshot methods, CounterValue).
SnapshotsConsistent ==
    \A t \in Threads :
        /\ At(t, "eventsRead") =>
             \E n \in call[t].calledAfter .. accepted :
                 call[t].copied = LatestEvents(n) /\ call[t].number = NumberAfter(n)
        /\ At(t, "countersRead") =>
             \E sums \in call[t].moments :
                 \A n \in DOMAIN call[t].counts : call[t].counts[n] = sums[n]

\* Between calls every counter is the sum of the increments that were answered
\* Ok, as integers: none is lost to another thread and none wraps the word; a
\* refused increment leaves the counter alone (IncrementCounter).
NoIncrementLost == registryHolder = NoThread => counters = granted

\* A thread that holds one of the two mutexes gives it back, on the error paths
\* too, whatever the other threads do.
LocksReleased ==
    \A t \in Threads :
        sinkHolder = t \/ registryHolder = t ~> sinkHolder # t /\ registryHolder # t
===============================================================================
