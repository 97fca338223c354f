--------------------------- MODULE TelemetryProofs ---------------------------
(***************************************************************************)
(* The two observers' safety, for any threads, names, amounts, capacity    *)
(* and word.  A property of Telemetry speaks of the moments when a mutex   *)
(* is free or a snapshot is done; the invariant below says what the thread *)
(* that holds the mutex has done so far, step by step.                     *)
(***************************************************************************)
EXTENDS Telemetry, SequenceTheorems, TLAPS

SinkSteps == {"number", "room", "append", "published", "copyEvents", "copyNext"}
RegistrySteps == {"find", "add", "added", "copyCounters"}
OtherSteps == {"idle", "publish", "snapshot", "eventsRead", "increment", "counters", "countersRead"}

Words == 0 .. MaxWord
Sums == [MetricNames -> Nat]

\* What a snapshot has copied of the counters.
Counts == UNION {[names -> Words] : names \in SUBSET MetricNames}

Calling == [pc : SinkSteps \cup RegistrySteps \cup OtherSteps, number : Words, copied : Seq(Nat),
            name : MetricNames \cup {NoName}, amount : Words, value : Words,
            counts : Counts,
            calledAfter : Nat, moments : SUBSET Sums]

TypeOK ==
    /\ sinkHolder \in Threads \cup {NoThread} /\ registryHolder \in Threads \cup {NoThread}
    /\ events \in Seq(Nat) /\ nextSequence \in Words
    /\ counters \in [MetricNames -> Words]
    /\ call \in [Threads -> Calling]
    /\ accepted \in Nat /\ granted \in Sums

\* A thread is at a step of a mutex's section exactly while it holds the mutex.
Exclusion ==
    \A t \in Threads :
        /\ call[t].pc \in SinkSteps <=> sinkHolder = t
        /\ call[t].pc \in RegistrySteps <=> registryHolder = t

\* The log that remains of n events when room is made for the next one.
Roomy(n) == IF Len(LatestEvents(n)) = Capacity THEN Tail(LatestEvents(n)) ELSE LatestEvents(n)

\* The sink with n events accepted and the number of the next one not taken.
SinkHas(n) == n <= MaxWord /\ events = LatestEvents(n) /\ nextSequence = NumberAfter(n)

\* What Publish and Snapshot have done at each of their steps.
SinkStep(c) ==
    /\ c.calledAfter <= accepted
    /\ c.pc \in {"number", "copyEvents", "copyNext"} => SinkHas(accepted)
    /\ c.pc \in {"room", "append", "published"} =>
         /\ accepted < MaxWord /\ c.number = accepted + 1
         /\ nextSequence = NumberAfter(accepted + 1)
    /\ c.pc = "room" => events = LatestEvents(accepted)
    /\ c.pc = "append" => events = Roomy(accepted)
    /\ c.pc = "published" => events = LatestEvents(accepted + 1)
    /\ c.pc = "copyNext" => c.copied = events
    /\ c.pc = "eventsRead" =>
         \E n \in c.calledAfter .. accepted : c.copied = LatestEvents(n) /\ c.number = NumberAfter(n)

SinkInv ==
    /\ sinkHolder = NoThread => SinkHas(accepted)
    /\ \A t \in Threads : SinkStep(call[t])

\* What IncrementCounter, Snapshot and CounterValue have done at each step.
RegistryStep(c) ==
    /\ c.pc \in {"increment", "find", "add", "added"} => c.name \in MetricNames
    /\ c.pc \in {"find", "add", "copyCounters"} => counters = granted
    /\ c.pc = "add" => c.value = counters[c.name] /\ c.amount <= MaxWord - c.value
    /\ c.pc = "added" => counters = [granted EXCEPT ![c.name] = @ + c.amount]
    /\ c.pc \in {"counters", "copyCounters"} => granted \in c.moments
    /\ c.pc = "counters" => DOMAIN c.counts = {}
    /\ c.pc = "copyCounters" => \A n \in DOMAIN c.counts : c.counts[n] = granted[n]
    /\ c.pc = "countersRead" =>
         \E sums \in c.moments : \A n \in DOMAIN c.counts : c.counts[n] = sums[n]

RegistryInv ==
    /\ registryHolder = NoThread => counters = granted
    /\ \A t \in Threads : RegistryStep(call[t])

TelemetryInv == TypeOK /\ Exclusion /\ SinkInv /\ RegistryInv

\* The assumptions of Telemetry together.
LEMMA ConstantFacts ==
    /\ NoThread \notin Threads /\ NoName \notin MetricNames
    /\ Capacity \in Nat \ {0} /\ MaxWord \in Nat \ {0}
    /\ \A a \in Amounts : a \in Words
BY ThreadAssumption, NameAssumption, CapacityAssumption, WordAssumption, AmountAssumption DEF Words

-------------------------------------------------------------------------------
(* The log *)

\* The log of n events, as a sequence.
LEMMA LatestLog ==
    ASSUME NEW n \in Nat
    PROVE  /\ LatestEvents(n) \in Seq(Nat)
           /\ Len(LatestEvents(n)) = IF n < Capacity THEN n ELSE Capacity
           /\ \A i \in 1 .. Len(LatestEvents(n)) : LatestEvents(n)[i] = n - Len(LatestEvents(n)) + i
<1> DEFINE kept == IF n < Capacity THEN n ELSE Capacity
           log == [i \in 1 .. kept |-> n - kept + i]
<1>1. kept \in Nat /\ kept <= n
  BY ConstantFacts
<1>2. LatestEvents(n) = log
  BY DEF LatestEvents
<1>3. log \in [1 .. kept -> Nat]
  <2> HIDE DEF kept
  <2>1. \A i \in 1 .. kept : n - kept + i \in Nat
    BY <1>1
  <2> QED BY <2>1
<1>4. log \in Seq(Nat)
  BY <1>1, <1>3
<1>5. Len(log) = kept
  <2> HIDE DEF kept
  <2> QED BY <1>1, <1>4, LenProperties
<1> QED BY <1>2, <1>4, <1>5

\* Appending to the log with room gives the log of one more event.
LEMMA RoomyLog ==
    ASSUME NEW n \in Nat
    PROVE  Roomy(n) \in Seq(Nat) /\ Append(Roomy(n), n + 1) = LatestEvents(n + 1)
<1> DEFINE old == LatestEvents(n)
           new == LatestEvents(n + 1)
           grown == Append(Roomy(n), n + 1)
<1>1. n + 1 \in Nat /\ Capacity \in Nat \ {0}
  BY ConstantFacts
<1>2. /\ old \in Seq(Nat) /\ Len(old) = IF n < Capacity THEN n ELSE Capacity
      /\ \A i \in 1 .. Len(old) : old[i] = n - Len(old) + i
  BY LatestLog
<1>3. /\ new \in Seq(Nat) /\ Len(new) = IF n + 1 < Capacity THEN n + 1 ELSE Capacity
      /\ \A i \in 1 .. Len(new) : new[i] = (n + 1) - Len(new) + i
  BY <1>1, LatestLog
<1>4. CASE Len(old) = Capacity
  <2>1. Roomy(n) = Tail(old)
    BY <1>4 DEF Roomy
  <2> HIDE DEF old, new
  <2>2. old # <<>>
    BY <1>1, <1>2, <1>4
  <2>3. Tail(old) \in Seq(Nat) /\ Len(Tail(old)) = Capacity - 1
    BY <1>1, <1>2, <1>4, <2>2, HeadTailProperties
  <2>4. \A i \in 1 .. Len(Tail(old)) : Tail(old)[i] = old[i + 1]
    BY <1>2, <2>2, HeadTailProperties
  <2>5. grown \in Seq(Nat) /\ Len(grown) = Capacity
    BY <1>1, <2>1, <2>3, AppendProperties
  <2>6. Len(new) = Capacity
    BY <1>1, <1>2, <1>3, <1>4
  <2>7. ASSUME NEW i \in 1 .. Capacity PROVE grown[i] = new[i]
    <3>1. new[i] = (n + 1) - Capacity + i
      BY <1>1, <1>3, <2>6
    <3>2. CASE i = Capacity
      BY <1>1, <2>1, <2>3, <3>1, <3>2, AppendProperties
    <3>3. CASE i # Capacity
      <4>1. i \in 1 .. Len(Tail(old)) /\ i + 1 \in 1 .. Len(old)
        BY <1>1, <1>4, <2>3, <3>3
      <4>2. grown[i] = Tail(old)[i]
        BY <1>1, <2>1, <2>3, <4>1, AppendProperties
      <4>3. old[i + 1] = n - Capacity + (i + 1)
        BY <1>2, <1>4, <4>1
      <4>4. n - Capacity + (i + 1) = (n + 1) - Capacity + i
        BY <1>1
      <4> HIDE DEF grown
      <4> QED BY <2>4, <3>1, <4>1, <4>2, <4>3, <4>4
    <3> QED BY <3>2, <3>3
  <2>8. grown = new
    BY <1>3, <2>5, <2>6, <2>7, SeqEqual
  <2> QED BY <2>1, <2>3, <2>8 DEF new
<1>5. CASE Len(old) # Capacity
  <2>1. Roomy(n) = old
    BY <1>5 DEF Roomy
  <2> HIDE DEF old, new
  <2>2. n < Capacity /\ Len(old) = n /\ Len(new) = n + 1
    BY <1>1, <1>2, <1>3, <1>5
  <2>3. grown \in Seq(Nat) /\ Len(grown) = n + 1
    BY <1>1, <1>2, <2>1, <2>2, AppendProperties
  <2>4. ASSUME NEW i \in 1 .. n + 1 PROVE grown[i] = new[i]
    <3>1. new[i] = i
      BY <1>3, <2>2
    <3>2. CASE i = n + 1
      BY <1>1, <1>2, <2>1, <2>2, <3>1, <3>2, AppendProperties
    <3>3. CASE i # n + 1
      <4>1. i \in 1 .. Len(old)
        BY <2>2, <3>3
      <4> QED BY <1>1, <1>2, <2>1, <2>2, <3>1, <4>1, AppendProperties
    <3> QED BY <3>2, <3>3
  <2>5. grown = new
    BY <1>3, <2>2, <2>3, <2>4, SeqEqual
  <2> QED BY <1>2, <2>1, <2>5 DEF new
<1> QED BY <1>4, <1>5

-------------------------------------------------------------------------------
\* What the parts of a step leave alone, thread by thread.

\* A step at the registry, or before and after the sink's section.
LEMMA SinkUntouched ==
    ASSUME TelemetryInv, NEW t \in Threads, UNCHANGED <<sinkVars, accepted>>,
           \A u \in Threads \ {t} :
               /\ call'[u].pc = call[u].pc /\ call'[u].number = call[u].number
               /\ call'[u].copied = call[u].copied /\ call'[u].calledAfter = call[u].calledAfter,
           call'[t].pc \notin SinkSteps \cup {"eventsRead"}, call'[t].calledAfter <= accepted
    PROVE  SinkInv'
<1>1. SinkHas(accepted)' = SinkHas(accepted)
  BY DEF SinkHas, sinkVars
<1>2. (sinkHolder = NoThread)' => SinkHas(accepted)'
  BY <1>1 DEF TelemetryInv, SinkInv, sinkVars
<1>3. ASSUME NEW u \in Threads PROVE SinkStep(call[u])'
  <2>1. CASE u = t
    BY <2>1 DEF SinkStep, SinkSteps, sinkVars
  <2>2. CASE u # t
    <3>1. SinkStep(call[u])
      BY DEF TelemetryInv, SinkInv
    <3> QED BY <1>1, <2>2, <3>1 DEF SinkStep, sinkVars
  <2> QED BY <2>1, <2>2
<1> QED BY <1>2, <1>3 DEF SinkInv

\* A step at the sink, or before and after the registry's section.
LEMMA RegistryUntouched ==
    ASSUME TelemetryInv, NEW t \in Threads, UNCHANGED <<registryVars, granted>>,
           \A u \in Threads \ {t} : call'[u] = call[u],
           call'[t].pc \notin RegistrySteps \cup {"increment", "counters", "countersRead"}
    PROVE  RegistryInv'
<1>1. (registryHolder = NoThread)' => (counters = granted)'
  BY DEF TelemetryInv, RegistryInv, registryVars
<1>2. ASSUME NEW u \in Threads PROVE RegistryStep(call[u])'
  <2>1. CASE u = t
    BY <2>1 DEF RegistryStep, RegistrySteps
  <2>2. CASE u # t
    <3>1. RegistryStep(call[u])
      BY DEF TelemetryInv, RegistryInv
    <3> QED BY <2>2, <3>1 DEF RegistryStep, registryVars
  <2> QED BY <2>1, <2>2
<1> QED BY <1>1, <1>2 DEF RegistryInv

\* The thread that holds the sink's mutex changes what the mutex protects; the
\* others are outside the section.
LEMMA SinkAlone ==
    ASSUME TelemetryInv, NEW t \in Threads, sinkHolder = t,
           accepted' \in Nat, accepted <= accepted',
           \A u \in Threads \ {t} : call'[u] = call[u],
           SinkStep(call[t])', (sinkHolder = NoThread)' => SinkHas(accepted)'
    PROVE  SinkInv'
<1>1. ASSUME NEW u \in Threads, u # t PROVE SinkStep(call[u])'
  <2>1. SinkStep(call[u]) /\ call[u].pc \notin SinkSteps /\ call'[u] = call[u]
    BY <1>1 DEF TelemetryInv, SinkInv, Exclusion
  <2>2. call[u].calledAfter \in Nat /\ accepted \in Nat
    BY DEF TelemetryInv, TypeOK, Calling
  <2>3. (call[u].calledAfter <= accepted)'
    BY <2>1, <2>2 DEF SinkStep
  <2>4. \A n \in call[u].calledAfter .. accepted : n \in call[u].calledAfter .. accepted'
    BY <2>2
  <2> QED BY <2>1, <2>3, <2>4 DEF SinkStep, SinkSteps
<1> QED BY <1>1 DEF SinkInv

\* The thread enters the section, or does not change what the mutex protects.
LEMMA SinkKept ==
    ASSUME TelemetryInv, NEW t \in Threads, UNCHANGED <<events, nextSequence, accepted>>,
           \A u \in Threads \ {t} : call'[u] = call[u],
           SinkStep(call[t])', (sinkHolder = NoThread)' => SinkHas(accepted)'
    PROVE  SinkInv'
<1>1. ASSUME NEW u \in Threads, u # t PROVE SinkStep(call[u])'
  <2>1. SinkStep(call[u]) /\ call'[u] = call[u]
    BY <1>1 DEF TelemetryInv, SinkInv
  <2> QED BY <2>1 DEF SinkStep, SinkHas
<1> QED BY <1>1 DEF SinkInv

\* The same two at the registry.
LEMMA RegistryKept ==
    ASSUME TelemetryInv, NEW t \in Threads, UNCHANGED <<counters, granted>>,
           \A u \in Threads \ {t} : call'[u] = call[u],
           RegistryStep(call[t])', (registryHolder = NoThread)' => (counters = granted)'
    PROVE  RegistryInv'
<1>1. ASSUME NEW u \in Threads, u # t PROVE RegistryStep(call[u])'
  <2>1. RegistryStep(call[u]) /\ call'[u] = call[u]
    BY <1>1 DEF TelemetryInv, RegistryInv
  <2> QED BY <2>1 DEF RegistryStep
<1> QED BY <1>1 DEF RegistryInv

LEMMA RegistryAlone ==
    ASSUME TelemetryInv, NEW t \in Threads, registryHolder = t, granted' = granted,
           \A u \in Threads \ {t} : call'[u] = call[u],
           RegistryStep(call[t])', (registryHolder = NoThread)' => (counters = granted)'
    PROVE  RegistryInv'
<1>1. ASSUME NEW u \in Threads, u # t PROVE RegistryStep(call[u])'
  <2>1. RegistryStep(call[u]) /\ call[u].pc \notin RegistrySteps /\ call'[u] = call[u]
    BY <1>1 DEF TelemetryInv, RegistryInv, Exclusion
  <2> QED BY <2>1 DEF RegistryStep, RegistrySteps
<1> QED BY <1>1 DEF RegistryInv

-------------------------------------------------------------------------------
(* Types *)

USE DEF At, Goes, Returns, LockSink, UnlockSink, LockRegistry, UnlockRegistry, Exhausted,
        sinkVars, registryVars, historyVars, vars

\* Copying one counter more keeps the type of what was copied.
LEMMA CopiedCounts ==
    /\ <<>> \in Counts
    /\ \A n \in MetricNames, word \in Words : [m \in {n} |-> word] \in Counts
    /\ \A n \in MetricNames, word \in Words, counts \in Counts :
         [m \in {n} \cup DOMAIN counts |-> IF m = n THEN word ELSE counts[m]] \in Counts
<1>1. <<>> \in [{} -> Words]
  OBVIOUS
<1>2. \A names \in SUBSET MetricNames : [names -> Words] \subseteq Counts
  BY DEF Counts
<1>3. ASSUME NEW n \in MetricNames, NEW word \in Words
      PROVE  [m \in {n} |-> word] \in Counts
  <2>1. {n} \in SUBSET MetricNames /\ [m \in {n} |-> word] \in [{n} -> Words]
    OBVIOUS
  <2> QED BY <1>2, <2>1
<1>4. ASSUME NEW n \in MetricNames, NEW word \in Words, NEW counts \in Counts
      PROVE  [m \in {n} \cup DOMAIN counts |-> IF m = n THEN word ELSE counts[m]] \in Counts
  <2>1. PICK names \in SUBSET MetricNames : counts \in [names -> Words]
    BY DEF Counts
  <2>2. {n} \cup DOMAIN counts \in SUBSET MetricNames
    BY <2>1
  <2>3. [m \in {n} \cup DOMAIN counts |-> IF m = n THEN word ELSE counts[m]]
          \in [{n} \cup DOMAIN counts -> Words]
    BY <2>1
  <2> QED BY <1>2, <2>2, <2>3
<1> QED BY <1>1, <1>2, <1>3, <1>4

\* An addition of words wraps, and does not when the sum is a word.
LEMMA WordSum ==
    ASSUME NEW a \in Words, NEW b \in Words
    PROVE  AddWords(a, b) \in Words /\ (a + b <= MaxWord => AddWords(a, b) = a + b)
<1> DEFINE sum == a + b
<1>1. MaxWord \in Nat /\ sum \in Nat
  BY ConstantFacts DEF Words
<1> HIDE DEF sum
<1>2. sum % (MaxWord + 1) \in 0 .. MaxWord
  BY <1>1
<1>3. sum <= MaxWord => sum % (MaxWord + 1) = sum
  BY <1>1
<1>. QED BY <1>2, <1>3 DEF AddWords, Words, sum

\* A thread outside both objects has a stack of the right type.
LEMMA IdleType == Idle \in Calling
<1>1. <<>> \in Seq(Nat) /\ <<>> \in Counts /\ 0 \in Words /\ {} \in SUBSET Sums
  BY ConstantFacts, CopiedCounts DEF Words
<1> QED BY <1>1 DEF Idle, Calling, OtherSteps

\* Setting fields of a stack keeps its type.
LEMMA StackFields ==
    ASSUME NEW c \in Calling, NEW step \in SinkSteps \cup RegistrySteps \cup OtherSteps
    PROVE  /\ [c EXCEPT !.pc = step] \in Calling
           /\ \A n \in Words : [c EXCEPT !.pc = step, !.number = n] \in Calling
           /\ \A log \in Seq(Nat) : [c EXCEPT !.pc = step, !.copied = log] \in Calling
           /\ \A v \in Words : [c EXCEPT !.pc = step, !.value = v] \in Calling
           /\ \A counts \in Counts : [c EXCEPT !.pc = step, !.counts = counts] \in Calling
<1> HIDE DEF SinkSteps, RegistrySteps, OtherSteps, Words, Counts, Sums
<1>1. [c EXCEPT !.pc = step] \in Calling
  BY DEF Calling
<1>2. ASSUME NEW n \in Words PROVE [c EXCEPT !.pc = step, !.number = n] \in Calling
  BY DEF Calling
<1>3. ASSUME NEW log \in Seq(Nat) PROVE [c EXCEPT !.pc = step, !.copied = log] \in Calling
  BY DEF Calling
<1>4. ASSUME NEW v \in Words PROVE [c EXCEPT !.pc = step, !.value = v] \in Calling
  BY DEF Calling
<1>5. ASSUME NEW counts \in Counts PROVE [c EXCEPT !.pc = step, !.counts = counts] \in Calling
  BY DEF Calling
<1> QED BY <1>1, <1>2, <1>3, <1>4, <1>5

\* The types of what a stack holds.
LEMMA StackTypes ==
    ASSUME NEW c \in Calling
    PROVE  /\ c.number \in Words /\ c.number \in Nat
           /\ c.amount \in Words /\ c.amount \in Nat /\ c.value \in Words
           /\ c.counts \in Counts /\ c.calledAfter \in Nat
<1>1. /\ c.number \in Words /\ c.amount \in Words /\ c.value \in Words
      /\ c.counts \in Counts /\ c.calledAfter \in Nat
  BY DEF Calling
<1>2. \A n \in Words : n \in Nat
  BY DEF Words
<1> QED BY <1>1, <1>2

\* A step of one thread that sets its own stack keeps the types.
LEMMA StackStep ==
    ASSUME TypeOK, NEW t \in Threads, NEW c \in Calling, call' = [call EXCEPT ![t] = c],
           sinkHolder' \in Threads \cup {NoThread}, registryHolder' \in Threads \cup {NoThread},
           events' \in Seq(Nat), nextSequence' \in Words,
           counters' \in [MetricNames -> Words],
           accepted' \in Nat, granted' \in Sums
    PROVE  TypeOK'
BY DEF TypeOK

\* A step of a thread that stays at or moves to a step keeps the types when it
\* changes no other variable than the mutexes.
LEMMA MoveStep ==
    ASSUME TypeOK, NEW t \in Threads,
           NEW step \in SinkSteps \cup RegistrySteps \cup OtherSteps, Goes(t, step),
           sinkHolder' \in Threads \cup {NoThread}, registryHolder' \in Threads \cup {NoThread},
           UNCHANGED <<events, nextSequence, counters, accepted, granted>>
    PROVE  TypeOK'
<1>1. call[t] \in Calling
  BY DEF TypeOK
<1>2. [call[t] EXCEPT !.pc = step] \in Calling
  BY <1>1, StackFields
<1>3. call' = [call EXCEPT ![t] = [call[t] EXCEPT !.pc = step]]
  OBVIOUS
<1>4. /\ events' \in Seq(Nat) /\ nextSequence' \in Words /\ counters' \in [MetricNames -> Words]
      /\ accepted' \in Nat /\ granted' \in Sums
  BY DEF TypeOK
<1> QED BY <1>2, <1>3, <1>4, StackStep

\* Every step keeps the types.
LEMMA NextTypeOK ==
    ASSUME TelemetryInv, [Next]_vars
    PROVE  TypeOK'
<1>0. /\ TypeOK /\ call \in [Threads -> Calling] /\ Idle \in Calling
      /\ sinkHolder \in Threads \cup {NoThread} /\ registryHolder \in Threads \cup {NoThread}
      /\ events \in Seq(Nat) /\ nextSequence \in Words /\ counters \in [MetricNames -> Words]
      /\ accepted \in Nat /\ granted \in Sums
  BY IdleType DEF TelemetryInv, TypeOK
<1>1. ASSUME NEW t \in Threads, EnterPublish(t) PROVE TypeOK'
  <2>1. "number" \in SinkSteps
    BY DEF SinkSteps
  <2> QED BY <1>0, <1>1, <2>1, MoveStep DEF EnterPublish
<1>2. ASSUME NEW t \in Threads, PublishRefused(t) PROVE TypeOK'
  BY <1>0, <1>2, StackStep DEF PublishRefused
<1>3. ASSUME NEW t \in Threads, TakeNumber(t) PROVE TypeOK'
  <2>1. nextSequence' \in Words
    BY <1>0, <1>3, ConstantFacts DEF TakeNumber, NextWord, Words
  <2>2. "room" \in SinkSteps
    BY DEF SinkSteps
  <2>3. [call[t] EXCEPT !.pc = "room", !.number = nextSequence] \in Calling
    BY <1>0, <2>2, StackFields
  <2>4. call' = [call EXCEPT ![t] = [call[t] EXCEPT !.pc = "room", !.number = nextSequence]]
    BY <1>3 DEF TakeNumber
  <2>. QED BY <1>0, <1>3, <2>1, <2>3, <2>4, StackStep DEF TakeNumber
<1>4. ASSUME NEW t \in Threads, MakeRoom(t) PROVE TypeOK'
  <2>1. events' \in Seq(Nat)
    BY <1>0, <1>4, ConstantFacts DEF MakeRoom
  <2>2. "append" \in SinkSteps
    BY DEF SinkSteps
  <2>3. [call[t] EXCEPT !.pc = "append"] \in Calling
    BY <1>0, <2>2, StackFields
  <2>4. call' = [call EXCEPT ![t] = [call[t] EXCEPT !.pc = "append"]]
    BY <1>4 DEF MakeRoom
  <2>. QED BY <1>0, <1>4, <2>1, <2>3, <2>4, StackStep DEF MakeRoom
<1>5. ASSUME NEW t \in Threads, AppendEvent(t) PROVE TypeOK'
  <2>1. call[t].number \in Nat
    BY <1>0, StackTypes
  <2>2. events' \in Seq(Nat)
    BY <1>0, <1>5, <2>1 DEF AppendEvent
  <2>3. "published" \in SinkSteps
    BY DEF SinkSteps
  <2>4. [call[t] EXCEPT !.pc = "published"] \in Calling
    BY <1>0, <2>3, StackFields
  <2>5. call' = [call EXCEPT ![t] = [call[t] EXCEPT !.pc = "published"]]
    BY <1>5 DEF AppendEvent
  <2>. QED BY <1>0, <1>5, <2>2, <2>4, <2>5, StackStep DEF AppendEvent
<1>6. ASSUME NEW t \in Threads, PublishReturns(t) PROVE TypeOK'
  <2>1. accepted' \in Nat /\ NoThread \in Threads \cup {NoThread}
    BY <1>0, <1>6 DEF PublishReturns
  <2>. QED BY <1>0, <1>6, <2>1, StackStep DEF PublishReturns
<1>7. ASSUME NEW t \in Threads, CallEvents(t) PROVE TypeOK'
  <2> DEFINE c == [Idle EXCEPT !.pc = "snapshot", !.calledAfter = accepted]
  <2>1. c \in Calling
    BY <1>0 DEF Calling, Idle, OtherSteps
  <2>2. call' = [call EXCEPT ![t] = c]
    BY <1>7 DEF CallEvents
  <2> HIDE DEF c
  <2>. QED BY <1>0, <1>7, <2>1, <2>2, StackStep DEF CallEvents
<1>8. ASSUME NEW t \in Threads, EnterEvents(t) PROVE TypeOK'
  <2>1. "copyEvents" \in SinkSteps
    BY DEF SinkSteps
  <2> QED BY <1>0, <1>8, <2>1, MoveStep DEF EnterEvents
<1>9. ASSUME NEW t \in Threads, CopyEvents(t) PROVE TypeOK'
  <2>1. "copyNext" \in SinkSteps
    BY DEF SinkSteps
  <2>2. [call[t] EXCEPT !.pc = "copyNext", !.copied = events] \in Calling
    BY <1>0, <2>1, StackFields
  <2>3. call' = [call EXCEPT ![t] = [call[t] EXCEPT !.pc = "copyNext", !.copied = events]]
    BY <1>9 DEF CopyEvents
  <2>. QED BY <1>0, <1>9, <2>2, <2>3, StackStep DEF CopyEvents
<1>10. ASSUME NEW t \in Threads, CopyNext(t) PROVE TypeOK'
  <2>1. "eventsRead" \in OtherSteps
    BY DEF OtherSteps
  <2>2. [call[t] EXCEPT !.pc = "eventsRead", !.number = nextSequence] \in Calling
    BY <1>0, <2>1, StackFields
  <2>3. call' = [call EXCEPT ![t] = [call[t] EXCEPT !.pc = "eventsRead", !.number = nextSequence]]
    BY <1>10 DEF CopyNext
  <2>. QED BY <1>0, <1>10, <2>2, <2>3, StackStep DEF CopyNext
<1>11. ASSUME NEW t \in Threads, EnterIncrement(t) PROVE TypeOK'
  <2>1. "find" \in RegistrySteps
    BY DEF RegistrySteps
  <2> QED BY <1>0, <1>11, <2>1, MoveStep DEF EnterIncrement
<1>12. ASSUME NEW t \in Threads, IncrementRefused(t) PROVE TypeOK'
  BY <1>0, <1>12, StackStep DEF IncrementRefused
<1>13. ASSUME NEW t \in Threads, FindCounter(t) PROVE TypeOK'
  <2>1. counters[call[t].name] \in Words
    <3>1. call[t].pc = "find" /\ RegistryStep(call[t])
      BY <1>13 DEF FindCounter, TelemetryInv, RegistryInv
    <3>2. call[t].name \in MetricNames
      BY <3>1 DEF RegistryStep
    <3> QED BY <1>0, <3>2
  <2>2. "add" \in RegistrySteps
    BY DEF RegistrySteps
  <2>3. [call[t] EXCEPT !.pc = "add", !.value = counters[call[t].name]] \in Calling
    BY <1>0, <2>1, <2>2, StackFields
  <2>4. call' = [call EXCEPT ![t] = [call[t] EXCEPT !.pc = "add", !.value = counters[call[t].name]]]
    BY <1>13 DEF FindCounter
  <2>. QED BY <1>0, <1>13, <2>3, <2>4, StackStep DEF FindCounter
<1>14. ASSUME NEW t \in Threads, AddAmount(t) PROVE TypeOK'
  <2>1. AddWords(call[t].value, call[t].amount) \in Words
    BY <1>0, StackTypes, WordSum
  <2>2. counters' \in [MetricNames -> Words]
    BY <1>0, <1>14, <2>1 DEF AddAmount
  <2>3. "added" \in RegistrySteps
    BY DEF RegistrySteps
  <2>4. [call[t] EXCEPT !.pc = "added"] \in Calling
    BY <1>0, <2>3, StackFields
  <2>5. call' = [call EXCEPT ![t] = [call[t] EXCEPT !.pc = "added"]]
    BY <1>14 DEF AddAmount
  <2>. QED BY <1>0, <1>14, <2>2, <2>4, <2>5, StackStep DEF AddAmount
<1>15. ASSUME NEW t \in Threads, IncrementReturns(t) PROVE TypeOK'
  <2>1. granted' \in Sums
    <3>1. call[t].amount \in Nat
      BY <1>0, StackTypes
    <3>2. granted' = [granted EXCEPT ![call[t].name] = @ + call[t].amount]
      BY <1>15 DEF IncrementReturns
    <3>3. granted \in [MetricNames -> Nat]
      BY <1>0 DEF Sums
    <3>4. \A n \in MetricNames : granted[n] + call[t].amount \in Nat
      BY <3>1, <3>3
    <3>. QED BY <3>2, <3>3, <3>4 DEF Sums
  <2>2. ASSUME NEW u \in Threads PROVE [call[u] EXCEPT !.moments = @ \cup {granted'}] \in Calling
    <3>1. call[u] \in Calling
      BY <1>0
    <3>. QED BY <2>1, <3>1 DEF Calling
  <2>3. call' \in [Threads -> Calling]
    BY <1>0, <1>15, <2>2 DEF IncrementReturns
  <2>4. UNCHANGED <<sinkVars, counters, accepted>> /\ registryHolder' = NoThread
    BY <1>15 DEF IncrementReturns
  <2>. QED BY <1>0, <2>1, <2>3, <2>4 DEF TypeOK
<1>16. ASSUME NEW t \in Threads, CallCounters(t) PROVE TypeOK'
  <2> DEFINE c == [Idle EXCEPT !.pc = "counters", !.moments = {granted}]
  <2>1. c \in Calling
    BY <1>0 DEF Calling, Idle, OtherSteps
  <2>2. call' = [call EXCEPT ![t] = c]
    BY <1>16 DEF CallCounters
  <2> HIDE DEF c
  <2>. QED BY <1>0, <1>16, <2>1, <2>2, StackStep DEF CallCounters
<1>17. ASSUME NEW t \in Threads, EnterCounters(t) PROVE TypeOK'
  <2>1. "copyCounters" \in RegistrySteps
    BY DEF RegistrySteps
  <2> QED BY <1>0, <1>17, <2>1, MoveStep DEF EnterCounters
<1>18. ASSUME NEW t \in Threads, CountersReturn(t) PROVE TypeOK'
  <2>1. "countersRead" \in OtherSteps
    BY DEF OtherSteps
  <2> QED BY <1>0, <1>18, <2>1, MoveStep DEF CountersReturn
<1>19. ASSUME NEW t \in Threads, DropSnapshot(t) PROVE TypeOK'
  BY <1>0, <1>19, StackStep DEF DropSnapshot
<1>20. ASSUME NEW t \in Threads, NEW component, NEW name,
             CallPublish(t, component, name) PROVE TypeOK'
  <2> DEFINE c == [Idle EXCEPT !.pc = "publish", !.calledAfter = accepted]
  <2>1. c \in Calling
    BY <1>0 DEF Calling, Idle, OtherSteps
  <2>2. call' = [call EXCEPT ![t] = c]
    BY <1>20 DEF CallPublish
  <2> HIDE DEF c
  <2>. QED BY <1>0, <1>20, <2>1, <2>2, StackStep DEF CallPublish
<1>21. ASSUME NEW t \in Threads, NEW name \in MetricNames \cup {NoName},
             NEW amount \in Amounts, CallIncrement(t, name, amount) PROVE TypeOK'
  <2> DEFINE c == [Idle EXCEPT !.pc = "increment", !.name = name, !.amount = amount]
  <2>1. c \in Calling
    BY <1>0, ConstantFacts DEF Calling, Idle, OtherSteps
  <2>2. call' = [call EXCEPT ![t] = c]
    BY <1>21 DEF CallIncrement
  <2> HIDE DEF c
  <2>. QED BY <1>0, <1>21, <2>1, <2>2, StackStep DEF CallIncrement
<1>22. ASSUME NEW t \in Threads, NEW n \in MetricNames, CopyCounter(t, n) PROVE TypeOK'
  <2> DEFINE counts == [m \in {n} \cup DOMAIN call[t].counts |->
                          IF m = n THEN counters[n] ELSE call[t].counts[m]]
  <2>1. call[t] \in Calling /\ call[t].counts \in Counts /\ counters[n] \in Words
    BY <1>0, StackTypes
  <2>2. counts \in Counts
    BY <2>1, CopiedCounts
  <2>3. call' = [call EXCEPT ![t] = [call[t] EXCEPT !.counts = counts]]
    BY <1>22 DEF CopyCounter
  <2> HIDE DEF counts
  <2>4. [call[t] EXCEPT !.counts = counts] \in Calling
    BY <2>1, <2>2 DEF Calling
  <2>. QED BY <1>0, <1>22, <2>3, <2>4, StackStep DEF CopyCounter
<1>23. ASSUME NEW t \in Threads, NEW n \in MetricNames, CounterValue(t, n) PROVE TypeOK'
  <2> DEFINE counts == [m \in {n} |-> counters[n]]
  <2>1. counts \in Counts
    <3>1. counters[n] \in Words
      BY <1>0
    <3>. QED BY <3>1, CopiedCounts
  <2>2. call' = [call EXCEPT ![t] = [call[t] EXCEPT !.pc = "countersRead", !.counts = counts]]
    BY <1>23 DEF CounterValue
  <2> HIDE DEF counts
  <2>3. "countersRead" \in OtherSteps
    BY DEF OtherSteps
  <2>4. [call[t] EXCEPT !.pc = "countersRead", !.counts = counts] \in Calling
    BY <1>0, <2>1, <2>3, StackFields
  <2>. QED BY <1>0, <1>23, <2>2, <2>4, StackStep DEF CounterValue
<1>24. CASE UNCHANGED vars
  BY <1>0, <1>24 DEF TypeOK
<1>. QED BY <1>1, <1>2, <1>3, <1>4, <1>5, <1>6, <1>7, <1>8, <1>9, <1>10, <1>11, <1>12, <1>13,
            <1>14, <1>15, <1>16, <1>17, <1>18, <1>19, <1>20, <1>21, <1>22, <1>23, <1>24
         DEF Next, Calls, Enters, Works

-------------------------------------------------------------------------------
(* Mutual exclusion *)

\* A step of one thread that enters or leaves a section together with the
\* section's mutex.
LEMMA ExclusionStep ==
    ASSUME TelemetryInv, NEW t \in Threads,
           \A u \in Threads \ {t} : call'[u].pc = call[u].pc,
           sinkHolder' = sinkHolder \/ {sinkHolder, sinkHolder'} \subseteq {t, NoThread},
           registryHolder' = registryHolder
               \/ {registryHolder, registryHolder'} \subseteq {t, NoThread},
           call'[t].pc \in SinkSteps <=> sinkHolder' = t,
           call'[t].pc \in RegistrySteps <=> registryHolder' = t
    PROVE  Exclusion'
<1>1. ASSUME NEW u \in Threads, u # t
      PROVE  /\ call'[u].pc \in SinkSteps <=> sinkHolder' = u
             /\ call'[u].pc \in RegistrySteps <=> registryHolder' = u
  <2>1. /\ call[u].pc \in SinkSteps <=> sinkHolder = u
        /\ call[u].pc \in RegistrySteps <=> registryHolder = u
    BY DEF TelemetryInv, Exclusion
  <2>2. sinkHolder' = u <=> sinkHolder = u
    BY <1>1, ConstantFacts
  <2>3. registryHolder' = u <=> registryHolder = u
    BY <1>1, ConstantFacts
  <2> QED BY <1>1, <2>1, <2>2, <2>3
<1> QED BY <1>1 DEF Exclusion, SinkSteps, RegistrySteps

\* No step puts two threads inside one section or leaves a mutex behind.
LEMMA NextExclusion ==
    ASSUME TelemetryInv, [Next]_vars
    PROVE  Exclusion'
<1>0. /\ call \in [Threads -> Calling] /\ NoThread \notin Threads
      /\ \A t \in Threads : /\ call[t].pc \in SinkSteps <=> sinkHolder = t
                            /\ call[t].pc \in RegistrySteps <=> registryHolder = t
  BY ConstantFacts DEF TelemetryInv, TypeOK, Exclusion
<1>1. ASSUME NEW t \in Threads, EnterPublish(t) PROVE Exclusion'
  <2>1. call[t].pc = "publish" /\ call'[t].pc = "number"
    BY <1>0, <1>1 DEF EnterPublish, Calling, Idle
  <2>2. \A u \in Threads \ {t} : call'[u].pc = call[u].pc
    BY <1>0, <1>1 DEF EnterPublish
  <2>3. /\ sinkHolder = NoThread /\ sinkHolder' = t
        /\ registryHolder' = registryHolder
    BY <1>1 DEF EnterPublish
  <2>. QED BY <1>0, <2>1, <2>2, <2>3, ExclusionStep DEF SinkSteps, RegistrySteps
<1>2. ASSUME NEW t \in Threads, PublishRefused(t) PROVE Exclusion'
  <2>1. call[t].pc = "number" /\ call'[t].pc = "idle"
    BY <1>0, <1>2 DEF PublishRefused, Calling, Idle
  <2>2. \A u \in Threads \ {t} : call'[u].pc = call[u].pc
    BY <1>0, <1>2 DEF PublishRefused
  <2>3. /\ sinkHolder' = NoThread
        /\ registryHolder' = registryHolder
    BY <1>2 DEF PublishRefused
  <2>. QED BY <1>0, <2>1, <2>2, <2>3, ExclusionStep DEF SinkSteps, RegistrySteps
<1>3. ASSUME NEW t \in Threads, TakeNumber(t) PROVE Exclusion'
  <2>1. call[t].pc = "number" /\ call'[t].pc = "room"
    BY <1>0, <1>3 DEF TakeNumber, Calling, Idle
  <2>2. \A u \in Threads \ {t} : call'[u].pc = call[u].pc
    BY <1>0, <1>3 DEF TakeNumber
  <2>3. /\ sinkHolder' = sinkHolder
        /\ registryHolder' = registryHolder
    BY <1>3 DEF TakeNumber
  <2>. QED BY <1>0, <2>1, <2>2, <2>3, ExclusionStep DEF SinkSteps, RegistrySteps
<1>4. ASSUME NEW t \in Threads, MakeRoom(t) PROVE Exclusion'
  <2>1. call[t].pc = "room" /\ call'[t].pc = "append"
    BY <1>0, <1>4 DEF MakeRoom, Calling, Idle
  <2>2. \A u \in Threads \ {t} : call'[u].pc = call[u].pc
    BY <1>0, <1>4 DEF MakeRoom
  <2>3. /\ sinkHolder' = sinkHolder
        /\ registryHolder' = registryHolder
    BY <1>4 DEF MakeRoom
  <2>. QED BY <1>0, <2>1, <2>2, <2>3, ExclusionStep DEF SinkSteps, RegistrySteps
<1>5. ASSUME NEW t \in Threads, AppendEvent(t) PROVE Exclusion'
  <2>1. call[t].pc = "append" /\ call'[t].pc = "published"
    BY <1>0, <1>5 DEF AppendEvent, Calling, Idle
  <2>2. \A u \in Threads \ {t} : call'[u].pc = call[u].pc
    BY <1>0, <1>5 DEF AppendEvent
  <2>3. /\ sinkHolder' = sinkHolder
        /\ registryHolder' = registryHolder
    BY <1>5 DEF AppendEvent
  <2>. QED BY <1>0, <2>1, <2>2, <2>3, ExclusionStep DEF SinkSteps, RegistrySteps
<1>6. ASSUME NEW t \in Threads, PublishReturns(t) PROVE Exclusion'
  <2>1. call[t].pc = "published" /\ call'[t].pc = "idle"
    BY <1>0, <1>6 DEF PublishReturns, Calling, Idle
  <2>2. \A u \in Threads \ {t} : call'[u].pc = call[u].pc
    BY <1>0, <1>6 DEF PublishReturns
  <2>3. /\ sinkHolder' = NoThread
        /\ registryHolder' = registryHolder
    BY <1>6 DEF PublishReturns
  <2>. QED BY <1>0, <2>1, <2>2, <2>3, ExclusionStep DEF SinkSteps, RegistrySteps
<1>7. ASSUME NEW t \in Threads, CallEvents(t) PROVE Exclusion'
  <2>1. call[t].pc = "idle" /\ call'[t].pc = "snapshot"
    BY <1>0, <1>7 DEF CallEvents, Calling, Idle
  <2>2. \A u \in Threads \ {t} : call'[u].pc = call[u].pc
    BY <1>0, <1>7 DEF CallEvents
  <2>3. /\ sinkHolder' = sinkHolder
        /\ registryHolder' = registryHolder
    BY <1>7 DEF CallEvents
  <2>. QED BY <1>0, <2>1, <2>2, <2>3, ExclusionStep DEF SinkSteps, RegistrySteps
<1>8. ASSUME NEW t \in Threads, EnterEvents(t) PROVE Exclusion'
  <2>1. call[t].pc = "snapshot" /\ call'[t].pc = "copyEvents"
    BY <1>0, <1>8 DEF EnterEvents, Calling, Idle
  <2>2. \A u \in Threads \ {t} : call'[u].pc = call[u].pc
    BY <1>0, <1>8 DEF EnterEvents
  <2>3. /\ sinkHolder = NoThread /\ sinkHolder' = t
        /\ registryHolder' = registryHolder
    BY <1>8 DEF EnterEvents
  <2>. QED BY <1>0, <2>1, <2>2, <2>3, ExclusionStep DEF SinkSteps, RegistrySteps
<1>9. ASSUME NEW t \in Threads, CopyEvents(t) PROVE Exclusion'
  <2>1. call[t].pc = "copyEvents" /\ call'[t].pc = "copyNext"
    BY <1>0, <1>9 DEF CopyEvents, Calling, Idle
  <2>2. \A u \in Threads \ {t} : call'[u].pc = call[u].pc
    BY <1>0, <1>9 DEF CopyEvents
  <2>3. /\ sinkHolder' = sinkHolder
        /\ registryHolder' = registryHolder
    BY <1>9 DEF CopyEvents
  <2>. QED BY <1>0, <2>1, <2>2, <2>3, ExclusionStep DEF SinkSteps, RegistrySteps
<1>10. ASSUME NEW t \in Threads, CopyNext(t) PROVE Exclusion'
  <2>1. call[t].pc = "copyNext" /\ call'[t].pc = "eventsRead"
    BY <1>0, <1>10 DEF CopyNext, Calling, Idle
  <2>2. \A u \in Threads \ {t} : call'[u].pc = call[u].pc
    BY <1>0, <1>10 DEF CopyNext
  <2>3. /\ sinkHolder' = NoThread
        /\ registryHolder' = registryHolder
    BY <1>10 DEF CopyNext
  <2>. QED BY <1>0, <2>1, <2>2, <2>3, ExclusionStep DEF SinkSteps, RegistrySteps
<1>11. ASSUME NEW t \in Threads, EnterIncrement(t) PROVE Exclusion'
  <2>1. call[t].pc = "increment" /\ call'[t].pc = "find"
    BY <1>0, <1>11 DEF EnterIncrement, Calling, Idle
  <2>2. \A u \in Threads \ {t} : call'[u].pc = call[u].pc
    BY <1>0, <1>11 DEF EnterIncrement
  <2>3. /\ sinkHolder' = sinkHolder
        /\ registryHolder = NoThread /\ registryHolder' = t
    BY <1>11 DEF EnterIncrement
  <2>. QED BY <1>0, <2>1, <2>2, <2>3, ExclusionStep DEF SinkSteps, RegistrySteps
<1>12. ASSUME NEW t \in Threads, IncrementRefused(t) PROVE Exclusion'
  <2>1. call[t].pc = "find" /\ call'[t].pc = "idle"
    BY <1>0, <1>12 DEF IncrementRefused, Calling, Idle
  <2>2. \A u \in Threads \ {t} : call'[u].pc = call[u].pc
    BY <1>0, <1>12 DEF IncrementRefused
  <2>3. /\ sinkHolder' = sinkHolder
        /\ registryHolder' = NoThread
    BY <1>12 DEF IncrementRefused
  <2>. QED BY <1>0, <2>1, <2>2, <2>3, ExclusionStep DEF SinkSteps, RegistrySteps
<1>13. ASSUME NEW t \in Threads, FindCounter(t) PROVE Exclusion'
  <2>1. call[t].pc = "find" /\ call'[t].pc = "add"
    BY <1>0, <1>13 DEF FindCounter, Calling, Idle
  <2>2. \A u \in Threads \ {t} : call'[u].pc = call[u].pc
    BY <1>0, <1>13 DEF FindCounter
  <2>3. /\ sinkHolder' = sinkHolder
        /\ registryHolder' = registryHolder
    BY <1>13 DEF FindCounter
  <2>. QED BY <1>0, <2>1, <2>2, <2>3, ExclusionStep DEF SinkSteps, RegistrySteps
<1>14. ASSUME NEW t \in Threads, AddAmount(t) PROVE Exclusion'
  <2>1. call[t].pc = "add" /\ call'[t].pc = "added"
    BY <1>0, <1>14 DEF AddAmount, Calling, Idle
  <2>2. \A u \in Threads \ {t} : call'[u].pc = call[u].pc
    BY <1>0, <1>14 DEF AddAmount
  <2>3. /\ sinkHolder' = sinkHolder
        /\ registryHolder' = registryHolder
    BY <1>14 DEF AddAmount
  <2>. QED BY <1>0, <2>1, <2>2, <2>3, ExclusionStep DEF SinkSteps, RegistrySteps
<1>15. ASSUME NEW t \in Threads, IncrementReturns(t) PROVE Exclusion'
  <2>1. call[t].pc = "added" /\ call'[t].pc = "idle"
    BY <1>0, <1>15 DEF IncrementReturns, Calling, Idle
  <2>2. \A u \in Threads \ {t} : call'[u].pc = call[u].pc
    BY <1>0, <1>15 DEF IncrementReturns
  <2>3. /\ sinkHolder' = sinkHolder
        /\ registryHolder' = NoThread
    BY <1>15 DEF IncrementReturns
  <2>. QED BY <1>0, <2>1, <2>2, <2>3, ExclusionStep DEF SinkSteps, RegistrySteps
<1>16. ASSUME NEW t \in Threads, CallCounters(t) PROVE Exclusion'
  <2>1. call[t].pc = "idle" /\ call'[t].pc = "counters"
    BY <1>0, <1>16 DEF CallCounters, Calling, Idle
  <2>2. \A u \in Threads \ {t} : call'[u].pc = call[u].pc
    BY <1>0, <1>16 DEF CallCounters
  <2>3. /\ sinkHolder' = sinkHolder
        /\ registryHolder' = registryHolder
    BY <1>16 DEF CallCounters
  <2>. QED BY <1>0, <2>1, <2>2, <2>3, ExclusionStep DEF SinkSteps, RegistrySteps
<1>17. ASSUME NEW t \in Threads, EnterCounters(t) PROVE Exclusion'
  <2>1. call[t].pc = "counters" /\ call'[t].pc = "copyCounters"
    BY <1>0, <1>17 DEF EnterCounters, Calling, Idle
  <2>2. \A u \in Threads \ {t} : call'[u].pc = call[u].pc
    BY <1>0, <1>17 DEF EnterCounters
  <2>3. /\ sinkHolder' = sinkHolder
        /\ registryHolder = NoThread /\ registryHolder' = t
    BY <1>17 DEF EnterCounters
  <2>. QED BY <1>0, <2>1, <2>2, <2>3, ExclusionStep DEF SinkSteps, RegistrySteps
<1>18. ASSUME NEW t \in Threads, CountersReturn(t) PROVE Exclusion'
  <2>1. call[t].pc = "copyCounters" /\ call'[t].pc = "countersRead"
    BY <1>0, <1>18 DEF CountersReturn, Calling, Idle
  <2>2. \A u \in Threads \ {t} : call'[u].pc = call[u].pc
    BY <1>0, <1>18 DEF CountersReturn
  <2>3. /\ sinkHolder' = sinkHolder
        /\ registryHolder' = NoThread
    BY <1>18 DEF CountersReturn
  <2>. QED BY <1>0, <2>1, <2>2, <2>3, ExclusionStep DEF SinkSteps, RegistrySteps
<1>19. ASSUME NEW t \in Threads, DropSnapshot(t) PROVE Exclusion'
  <2>1. call[t].pc \in {"eventsRead", "countersRead"} /\ call'[t].pc = "idle"
    BY <1>0, <1>19 DEF DropSnapshot, Calling, Idle
  <2>2. \A u \in Threads \ {t} : call'[u].pc = call[u].pc
    BY <1>0, <1>19 DEF DropSnapshot
  <2>3. /\ sinkHolder' = sinkHolder
        /\ registryHolder' = registryHolder
    BY <1>19 DEF DropSnapshot
  <2>. QED BY <1>0, <2>1, <2>2, <2>3, ExclusionStep DEF SinkSteps, RegistrySteps
<1>20. ASSUME NEW t \in Threads, NEW component, NEW name,
             CallPublish(t, component, name) PROVE Exclusion'
  <2>1. call[t].pc = "idle" /\ call'[t].pc = "publish"
    BY <1>0, <1>20 DEF CallPublish, Calling, Idle
  <2>2. \A u \in Threads \ {t} : call'[u].pc = call[u].pc
    BY <1>0, <1>20 DEF CallPublish
  <2>3. /\ sinkHolder' = sinkHolder
        /\ registryHolder' = registryHolder
    BY <1>20 DEF CallPublish
  <2>. QED BY <1>0, <2>1, <2>2, <2>3, ExclusionStep DEF SinkSteps, RegistrySteps
<1>21. ASSUME NEW t \in Threads, NEW name \in MetricNames \cup {NoName},
             NEW amount \in Amounts, CallIncrement(t, name, amount) PROVE Exclusion'
  <2>1. call[t].pc = "idle" /\ call'[t].pc = "increment"
    BY <1>0, <1>21 DEF CallIncrement, Calling, Idle
  <2>2. \A u \in Threads \ {t} : call'[u].pc = call[u].pc
    BY <1>0, <1>21 DEF CallIncrement
  <2>3. /\ sinkHolder' = sinkHolder
        /\ registryHolder' = registryHolder
    BY <1>21 DEF CallIncrement
  <2>. QED BY <1>0, <2>1, <2>2, <2>3, ExclusionStep DEF SinkSteps, RegistrySteps
<1>22. ASSUME NEW t \in Threads, NEW n \in MetricNames, CopyCounter(t, n) PROVE Exclusion'
  <2>1. call[t].pc = "copyCounters" /\ call'[t].pc = "copyCounters"
    BY <1>0, <1>22 DEF CopyCounter, Calling, Idle
  <2>2. \A u \in Threads \ {t} : call'[u].pc = call[u].pc
    BY <1>0, <1>22 DEF CopyCounter
  <2>3. /\ sinkHolder' = sinkHolder
        /\ registryHolder' = registryHolder
    BY <1>22 DEF CopyCounter
  <2>. QED BY <1>0, <2>1, <2>2, <2>3, ExclusionStep DEF SinkSteps, RegistrySteps
<1>23. ASSUME NEW t \in Threads, NEW n \in MetricNames, CounterValue(t, n) PROVE Exclusion'
  <2>1. call[t].pc = "copyCounters" /\ call'[t].pc = "countersRead"
    BY <1>0, <1>23 DEF CounterValue, Calling, Idle
  <2>2. \A u \in Threads \ {t} : call'[u].pc = call[u].pc
    BY <1>0, <1>23 DEF CounterValue
  <2>3. /\ sinkHolder' = sinkHolder
        /\ registryHolder' = NoThread
    BY <1>23 DEF CounterValue
  <2>. QED BY <1>0, <2>1, <2>2, <2>3, ExclusionStep DEF SinkSteps, RegistrySteps
<1>24. CASE UNCHANGED vars
  BY <1>24 DEF TelemetryInv, Exclusion
<1>. QED BY <1>1, <1>2, <1>3, <1>4, <1>5, <1>6, <1>7, <1>8, <1>9, <1>10, <1>11, <1>12, <1>13,
            <1>14, <1>15, <1>16, <1>17, <1>18, <1>19, <1>20, <1>21, <1>22, <1>23, <1>24
         DEF Next, Calls, Enters, Works

-------------------------------------------------------------------------------
(* The sink *)

\* Every step keeps the account of the sink.
LEMMA NextSink ==
    ASSUME TelemetryInv, [Next]_vars
    PROVE  SinkInv'
<1> USE ConstantFacts DEF TelemetryInv, TypeOK
<1>1. ASSUME NEW t \in Threads, EnterPublish(t) PROVE SinkInv'
  <2>1. SinkHas(accepted) /\ SinkStep(call[t])
    BY <1>1 DEF EnterPublish, SinkInv
  <2>2. SinkHas(accepted)'
    BY <1>1, <2>1 DEF EnterPublish, SinkHas
  <2>3. call'[t].pc = "number" /\ call'[t].calledAfter = call[t].calledAfter
    BY <1>1 DEF EnterPublish, Calling
  <2>4. SinkStep(call[t])'
    BY <1>1, <2>1, <2>2, <2>3 DEF EnterPublish, SinkStep
  <2>5. \A u \in Threads \ {t} : call'[u] = call[u]
    BY <1>1 DEF EnterPublish
  <2>. QED BY <1>1, <2>2, <2>4, <2>5, SinkKept DEF EnterPublish
<1>2. ASSUME NEW t \in Threads, PublishRefused(t) PROVE SinkInv'
  <2>1. SinkHas(accepted) /\ sinkHolder = t
    BY <1>2 DEF PublishRefused, SinkInv, SinkStep, Exclusion, SinkSteps
  <2>2. SinkHas(accepted)'
    BY <1>2, <2>1 DEF PublishRefused, SinkHas
  <2>3. SinkStep(call[t])'
    BY <1>2 DEF PublishRefused, SinkStep, Idle
  <2>4. \A u \in Threads \ {t} : call'[u] = call[u]
    BY <1>2 DEF PublishRefused
  <2>. QED BY <1>2, <2>2, <2>3, <2>4, SinkKept DEF PublishRefused
<1>3. ASSUME NEW t \in Threads, TakeNumber(t) PROVE SinkInv'
  <2>1. SinkHas(accepted) /\ sinkHolder = t /\ call[t].calledAfter <= accepted
    BY <1>3 DEF TakeNumber, SinkInv, SinkStep, Exclusion, SinkSteps
  <2>2. accepted < MaxWord /\ nextSequence = accepted + 1
    BY <1>3, <2>1 DEF TakeNumber, SinkHas, NumberAfter
  <2>3. nextSequence' = NumberAfter(accepted + 1)
    BY <1>3, <2>2 DEF TakeNumber, NextWord, NumberAfter
  <2>4. call'[t].pc = "room" /\ call'[t].number = nextSequence /\ call'[t].calledAfter = call[t].calledAfter
    BY <1>3 DEF TakeNumber, Calling
  <2>5. events' = LatestEvents(accepted) /\ accepted' = accepted /\ sinkHolder' = t
    BY <1>3, <2>1 DEF TakeNumber, SinkHas
  <2>6. SinkStep(call[t])'
    BY <2>1, <2>2, <2>3, <2>4, <2>5 DEF SinkStep
  <2>7. \A u \in Threads \ {t} : call'[u] = call[u]
    BY <1>3 DEF TakeNumber
  <2>. QED BY <2>1, <2>5, <2>6, <2>7, SinkAlone
<1>4. ASSUME NEW t \in Threads, MakeRoom(t) PROVE SinkInv'
  <2>1. SinkStep(call[t]) /\ sinkHolder = t
    BY <1>4 DEF MakeRoom, SinkInv, Exclusion, SinkSteps
  <2>2. events' = Roomy(accepted)
    BY <1>4, <2>1 DEF MakeRoom, SinkStep, Roomy
  <2>3. /\ call'[t].pc = "append" /\ call'[t].number = call[t].number
        /\ call'[t].calledAfter = call[t].calledAfter
    BY <1>4 DEF MakeRoom, Calling
  <2>4. UNCHANGED <<sinkHolder, nextSequence, accepted>>
    BY <1>4 DEF MakeRoom
  <2>5. SinkStep(call[t])'
    BY <1>4, <2>1, <2>2, <2>3, <2>4 DEF MakeRoom, SinkStep
  <2>6. \A u \in Threads \ {t} : call'[u] = call[u]
    BY <1>4 DEF MakeRoom
  <2>. QED BY <2>1, <2>4, <2>5, <2>6, SinkAlone
<1>5. ASSUME NEW t \in Threads, AppendEvent(t) PROVE SinkInv'
  <2>1. SinkStep(call[t]) /\ sinkHolder = t
    BY <1>5 DEF AppendEvent, SinkInv, Exclusion, SinkSteps
  <2>2. events' = LatestEvents(accepted + 1)
    BY <1>5, <2>1, RoomyLog DEF AppendEvent, SinkStep
  <2>3. /\ call'[t].pc = "published" /\ call'[t].number = call[t].number
        /\ call'[t].calledAfter = call[t].calledAfter
    BY <1>5 DEF AppendEvent, Calling
  <2>4. UNCHANGED <<sinkHolder, nextSequence, accepted>>
    BY <1>5 DEF AppendEvent
  <2>5. SinkStep(call[t])'
    BY <1>5, <2>1, <2>2, <2>3, <2>4 DEF AppendEvent, SinkStep
  <2>6. \A u \in Threads \ {t} : call'[u] = call[u]
    BY <1>5 DEF AppendEvent
  <2>. QED BY <2>1, <2>4, <2>5, <2>6, SinkAlone
<1>6. ASSUME NEW t \in Threads, PublishReturns(t) PROVE SinkInv'
  <2>1. SinkStep(call[t]) /\ sinkHolder = t
    BY <1>6 DEF PublishReturns, SinkInv, Exclusion, SinkSteps
  <2>2. accepted' = accepted + 1 /\ UNCHANGED <<events, nextSequence>>
    BY <1>6 DEF PublishReturns
  <2>3. SinkHas(accepted)'
    BY <1>6, <2>1, <2>2 DEF PublishReturns, SinkHas, SinkStep
  <2>4. SinkStep(call[t])'
    BY <1>6, <2>2 DEF PublishReturns, SinkStep, Idle
  <2>5. \A u \in Threads \ {t} : call'[u] = call[u]
    BY <1>6 DEF PublishReturns
  <2>6. accepted' \in Nat /\ accepted <= accepted'
    BY <2>2
  <2>. QED BY <2>1, <2>3, <2>4, <2>5, <2>6, SinkAlone
<1>7. ASSUME NEW t \in Threads, CallEvents(t) PROVE SinkInv'
  <2>1. call'[t].pc = "snapshot" /\ call'[t].calledAfter = accepted
    BY <1>7 DEF CallEvents, Idle
  <2>2. \A u \in Threads \ {t} : call'[u] = call[u]
    BY <1>7 DEF CallEvents
  <2>. QED BY <1>7, <2>1, <2>2, SinkUntouched DEF CallEvents, SinkSteps
<1>8. ASSUME NEW t \in Threads, EnterEvents(t) PROVE SinkInv'
  <2>1. SinkHas(accepted) /\ SinkStep(call[t])
    BY <1>8 DEF EnterEvents, SinkInv
  <2>2. SinkHas(accepted)'
    BY <1>8, <2>1 DEF EnterEvents, SinkHas
  <2>3. call'[t].pc = "copyEvents" /\ call'[t].calledAfter = call[t].calledAfter
    BY <1>8 DEF EnterEvents, Calling
  <2>4. SinkStep(call[t])'
    BY <1>8, <2>1, <2>2, <2>3 DEF EnterEvents, SinkStep
  <2>5. \A u \in Threads \ {t} : call'[u] = call[u]
    BY <1>8 DEF EnterEvents
  <2>. QED BY <1>8, <2>2, <2>4, <2>5, SinkKept DEF EnterEvents
<1>9. ASSUME NEW t \in Threads, CopyEvents(t) PROVE SinkInv'
  <2>1. SinkStep(call[t]) /\ sinkHolder = t /\ SinkHas(accepted)
    BY <1>9 DEF CopyEvents, SinkInv, SinkStep, Exclusion, SinkSteps
  <2>2. /\ call'[t].pc = "copyNext" /\ call'[t].copied = events
        /\ call'[t].calledAfter = call[t].calledAfter
    BY <1>9 DEF CopyEvents, Calling
  <2>3. SinkHas(accepted)'
    BY <1>9, <2>1 DEF CopyEvents, SinkHas
  <2>4. SinkStep(call[t])'
    BY <1>9, <2>1, <2>2, <2>3 DEF CopyEvents, SinkStep
  <2>5. \A u \in Threads \ {t} : call'[u] = call[u]
    BY <1>9 DEF CopyEvents
  <2>. QED BY <1>9, <2>3, <2>4, <2>5, SinkKept DEF CopyEvents
<1>10. ASSUME NEW t \in Threads, CopyNext(t) PROVE SinkInv'
  <2>1. SinkStep(call[t]) /\ sinkHolder = t /\ SinkHas(accepted) /\ call[t].copied = events
    BY <1>10 DEF CopyNext, SinkInv, SinkStep, Exclusion, SinkSteps
  <2>2. /\ call'[t].pc = "eventsRead" /\ call'[t].copied = call[t].copied
        /\ call'[t].number = nextSequence /\ call'[t].calledAfter = call[t].calledAfter
    BY <1>10 DEF CopyNext, Calling
  <2>3. SinkHas(accepted)'
    BY <1>10, <2>1 DEF CopyNext, SinkHas
  <2>4. SinkStep(call[t])'
    <3>1. call[t].calledAfter \in Nat /\ call[t].calledAfter <= accepted
      BY <2>1 DEF SinkStep, Calling
    <3>2. accepted \in call[t].calledAfter .. accepted
      BY <3>1
    <3>3. call'[t].copied = LatestEvents(accepted) /\ call'[t].number = NumberAfter(accepted)
      BY <2>1, <2>2 DEF SinkHas
    <3>4. accepted' = accepted
      BY <1>10 DEF CopyNext
    <3>. QED BY <2>2, <3>1, <3>2, <3>3, <3>4 DEF SinkStep
  <2>5. \A u \in Threads \ {t} : call'[u] = call[u]
    BY <1>10 DEF CopyNext
  <2>. QED BY <1>10, <2>3, <2>4, <2>5, SinkKept DEF CopyNext
<1>11. ASSUME NEW t \in Threads, EnterIncrement(t) PROVE SinkInv'
  <2>1. call'[t].pc \notin SinkSteps \cup {"eventsRead"} /\ call'[t].calledAfter <= accepted
    BY <1>11 DEF EnterIncrement, Calling, SinkSteps, SinkInv, SinkStep
  <2>2. \A u \in Threads \ {t} : call'[u] = call[u]
    BY <1>11 DEF EnterIncrement
  <2>3. UNCHANGED <<sinkVars, accepted>>
    BY <1>11 DEF EnterIncrement
  <2>. QED BY <2>1, <2>2, <2>3, SinkUntouched
<1>12. ASSUME NEW t \in Threads, IncrementRefused(t) PROVE SinkInv'
  <2>1. call'[t].pc \notin SinkSteps \cup {"eventsRead"} /\ call'[t].calledAfter <= accepted
    BY <1>12 DEF IncrementRefused, Idle, SinkSteps
  <2>2. \A u \in Threads \ {t} :
          /\ call'[u].pc = call[u].pc /\ call'[u].number = call[u].number
          /\ call'[u].copied = call[u].copied /\ call'[u].calledAfter = call[u].calledAfter
    BY <1>12 DEF IncrementRefused, Calling
  <2>3. UNCHANGED <<sinkVars, accepted>>
    BY <1>12 DEF IncrementRefused
  <2>. QED BY <2>1, <2>2, <2>3, SinkUntouched
<1>13. ASSUME NEW t \in Threads, FindCounter(t) PROVE SinkInv'
  <2>1. call'[t].pc \notin SinkSteps \cup {"eventsRead"} /\ call'[t].calledAfter <= accepted
    BY <1>13 DEF FindCounter, Calling, SinkSteps, SinkInv, SinkStep
  <2>2. \A u \in Threads \ {t} : call'[u] = call[u]
    BY <1>13 DEF FindCounter
  <2>3. UNCHANGED <<sinkVars, accepted>>
    BY <1>13 DEF FindCounter
  <2>. QED BY <2>1, <2>2, <2>3, SinkUntouched
<1>14. ASSUME NEW t \in Threads, AddAmount(t) PROVE SinkInv'
  <2>1. call'[t].pc \notin SinkSteps \cup {"eventsRead"} /\ call'[t].calledAfter <= accepted
    BY <1>14 DEF AddAmount, Calling, SinkSteps, SinkInv, SinkStep
  <2>2. \A u \in Threads \ {t} : call'[u] = call[u]
    BY <1>14 DEF AddAmount
  <2>3. UNCHANGED <<sinkVars, accepted>>
    BY <1>14 DEF AddAmount
  <2>. QED BY <2>1, <2>2, <2>3, SinkUntouched
<1>15. ASSUME NEW t \in Threads, IncrementReturns(t) PROVE SinkInv'
  <2>1. call'[t].pc \notin SinkSteps \cup {"eventsRead"} /\ call'[t].calledAfter <= accepted
    BY <1>15 DEF IncrementReturns, Idle, SinkSteps
  <2>2. \A u \in Threads \ {t} :
          /\ call'[u].pc = call[u].pc /\ call'[u].number = call[u].number
          /\ call'[u].copied = call[u].copied /\ call'[u].calledAfter = call[u].calledAfter
    BY <1>15 DEF IncrementReturns, Calling
  <2>3. UNCHANGED <<sinkVars, accepted>>
    BY <1>15 DEF IncrementReturns
  <2>. QED BY <2>1, <2>2, <2>3, SinkUntouched
<1>16. ASSUME NEW t \in Threads, CallCounters(t) PROVE SinkInv'
  <2>1. call'[t].pc \notin SinkSteps \cup {"eventsRead"} /\ call'[t].calledAfter <= accepted
    BY <1>16 DEF CallCounters, Idle, SinkSteps
  <2>2. \A u \in Threads \ {t} :
          /\ call'[u].pc = call[u].pc /\ call'[u].number = call[u].number
          /\ call'[u].copied = call[u].copied /\ call'[u].calledAfter = call[u].calledAfter
    BY <1>16 DEF CallCounters, Calling
  <2>3. UNCHANGED <<sinkVars, accepted>>
    BY <1>16 DEF CallCounters
  <2>. QED BY <2>1, <2>2, <2>3, SinkUntouched
<1>17. ASSUME NEW t \in Threads, EnterCounters(t) PROVE SinkInv'
  <2>1. call'[t].pc \notin SinkSteps \cup {"eventsRead"} /\ call'[t].calledAfter <= accepted
    BY <1>17 DEF EnterCounters, Calling, SinkSteps, SinkInv, SinkStep
  <2>2. \A u \in Threads \ {t} : call'[u] = call[u]
    BY <1>17 DEF EnterCounters
  <2>3. UNCHANGED <<sinkVars, accepted>>
    BY <1>17 DEF EnterCounters
  <2>. QED BY <2>1, <2>2, <2>3, SinkUntouched
<1>18. ASSUME NEW t \in Threads, CountersReturn(t) PROVE SinkInv'
  <2>1. call'[t].pc \notin SinkSteps \cup {"eventsRead"} /\ call'[t].calledAfter <= accepted
    BY <1>18 DEF CountersReturn, Calling, SinkSteps, SinkInv, SinkStep
  <2>2. \A u \in Threads \ {t} : call'[u] = call[u]
    BY <1>18 DEF CountersReturn
  <2>3. UNCHANGED <<sinkVars, accepted>>
    BY <1>18 DEF CountersReturn
  <2>. QED BY <2>1, <2>2, <2>3, SinkUntouched
<1>19. ASSUME NEW t \in Threads, DropSnapshot(t) PROVE SinkInv'
  <2>1. call'[t].pc \notin SinkSteps \cup {"eventsRead"} /\ call'[t].calledAfter <= accepted
    BY <1>19 DEF DropSnapshot, Idle, SinkSteps
  <2>2. \A u \in Threads \ {t} :
          /\ call'[u].pc = call[u].pc /\ call'[u].number = call[u].number
          /\ call'[u].copied = call[u].copied /\ call'[u].calledAfter = call[u].calledAfter
    BY <1>19 DEF DropSnapshot, Calling
  <2>3. UNCHANGED <<sinkVars, accepted>>
    BY <1>19 DEF DropSnapshot
  <2>. QED BY <2>1, <2>2, <2>3, SinkUntouched
<1>20. ASSUME NEW t \in Threads, NEW component, NEW name, CallPublish(t, component, name) PROVE SinkInv'
  <2>1. call'[t].pc = "publish" /\ call'[t].calledAfter = accepted
    BY <1>20 DEF CallPublish, Idle
  <2>2. \A u \in Threads \ {t} : call'[u] = call[u]
    BY <1>20 DEF CallPublish
  <2>. QED BY <1>20, <2>1, <2>2, SinkUntouched DEF CallPublish, SinkSteps
<1>21. ASSUME NEW t \in Threads, NEW name \in MetricNames \cup {NoName}, NEW amount \in Amounts, CallIncrement(t, name, amount) PROVE SinkInv'
  <2>1. call'[t].pc \notin SinkSteps \cup {"eventsRead"} /\ call'[t].calledAfter <= accepted
    BY <1>21 DEF CallIncrement, Idle, SinkSteps
  <2>2. \A u \in Threads \ {t} :
          /\ call'[u].pc = call[u].pc /\ call'[u].number = call[u].number
          /\ call'[u].copied = call[u].copied /\ call'[u].calledAfter = call[u].calledAfter
    BY <1>21 DEF CallIncrement, Calling
  <2>3. UNCHANGED <<sinkVars, accepted>>
    BY <1>21 DEF CallIncrement
  <2>. QED BY <2>1, <2>2, <2>3, SinkUntouched
<1>22. ASSUME NEW t \in Threads, NEW n \in MetricNames, CopyCounter(t, n) PROVE SinkInv'
  <2>1. call'[t].pc \notin SinkSteps \cup {"eventsRead"} /\ call'[t].calledAfter <= accepted
    BY <1>22 DEF CopyCounter, Calling, SinkSteps, SinkInv, SinkStep
  <2>2. \A u \in Threads \ {t} : call'[u] = call[u]
    BY <1>22 DEF CopyCounter
  <2>3. UNCHANGED <<sinkVars, accepted>>
    BY <1>22 DEF CopyCounter
  <2>. QED BY <2>1, <2>2, <2>3, SinkUntouched
<1>23. ASSUME NEW t \in Threads, NEW n \in MetricNames, CounterValue(t, n) PROVE SinkInv'
  <2>1. call'[t].pc \notin SinkSteps \cup {"eventsRead"} /\ call'[t].calledAfter <= accepted
    BY <1>23 DEF CounterValue, Calling, SinkSteps, SinkInv, SinkStep
  <2>2. \A u \in Threads \ {t} : call'[u] = call[u]
    BY <1>23 DEF CounterValue
  <2>3. UNCHANGED <<sinkVars, accepted>>
    BY <1>23 DEF CounterValue
  <2>. QED BY <2>1, <2>2, <2>3, SinkUntouched
<1>24. CASE UNCHANGED vars
  <2>1. \A u \in Threads : SinkStep(call[u]) /\ call'[u] = call[u]
    BY <1>24 DEF SinkInv
  <2>. QED BY <1>24, <2>1 DEF SinkInv, SinkStep, SinkHas
<1>. QED BY <1>1, <1>2, <1>3, <1>4, <1>5, <1>6, <1>7, <1>8, <1>9, <1>10, <1>11, <1>12, <1>13, <1>14, <1>15, <1>16, <1>17, <1>18, <1>19, <1>20, <1>21, <1>22, <1>23, <1>24 DEF Next, Calls, Enters, Works

-------------------------------------------------------------------------------
(* The registry *)

\* Every step keeps the account of the registry.
LEMMA NextRegistry ==
    ASSUME TelemetryInv, [Next]_vars
    PROVE  RegistryInv'
<1> USE ConstantFacts DEF TelemetryInv, TypeOK
<1>1. ASSUME NEW t \in Threads, EnterPublish(t) PROVE RegistryInv'
  <2>1. call'[t].pc \notin RegistrySteps \cup {"increment", "counters", "countersRead"}
    BY <1>1 DEF EnterPublish, Idle, Calling, RegistrySteps
  <2>2. \A u \in Threads \ {t} : call'[u] = call[u]
    BY <1>1 DEF EnterPublish
  <2>3. UNCHANGED <<registryVars, granted>>
    BY <1>1 DEF EnterPublish
  <2>. QED BY <2>1, <2>2, <2>3, RegistryUntouched
<1>2. ASSUME NEW t \in Threads, PublishRefused(t) PROVE RegistryInv'
  <2>1. call'[t].pc \notin RegistrySteps \cup {"increment", "counters", "countersRead"}
    BY <1>2 DEF PublishRefused, Idle, Calling, RegistrySteps
  <2>2. \A u \in Threads \ {t} : call'[u] = call[u]
    BY <1>2 DEF PublishRefused
  <2>3. UNCHANGED <<registryVars, granted>>
    BY <1>2 DEF PublishRefused
  <2>. QED BY <2>1, <2>2, <2>3, RegistryUntouched
<1>3. ASSUME NEW t \in Threads, TakeNumber(t) PROVE RegistryInv'
  <2>1. call'[t].pc \notin RegistrySteps \cup {"increment", "counters", "countersRead"}
    BY <1>3 DEF TakeNumber, Idle, Calling, RegistrySteps
  <2>2. \A u \in Threads \ {t} : call'[u] = call[u]
    BY <1>3 DEF TakeNumber
  <2>3. UNCHANGED <<registryVars, granted>>
    BY <1>3 DEF TakeNumber
  <2>. QED BY <2>1, <2>2, <2>3, RegistryUntouched
<1>4. ASSUME NEW t \in Threads, MakeRoom(t) PROVE RegistryInv'
  <2>1. call'[t].pc \notin RegistrySteps \cup {"increment", "counters", "countersRead"}
    BY <1>4 DEF MakeRoom, Idle, Calling, RegistrySteps
  <2>2. \A u \in Threads \ {t} : call'[u] = call[u]
    BY <1>4 DEF MakeRoom
  <2>3. UNCHANGED <<registryVars, granted>>
    BY <1>4 DEF MakeRoom
  <2>. QED BY <2>1, <2>2, <2>3, RegistryUntouched
<1>5. ASSUME NEW t \in Threads, AppendEvent(t) PROVE RegistryInv'
  <2>1. call'[t].pc \notin RegistrySteps \cup {"increment", "counters", "countersRead"}
    BY <1>5 DEF AppendEvent, Idle, Calling, RegistrySteps
  <2>2. \A u \in Threads \ {t} : call'[u] = call[u]
    BY <1>5 DEF AppendEvent
  <2>3. UNCHANGED <<registryVars, granted>>
    BY <1>5 DEF AppendEvent
  <2>. QED BY <2>1, <2>2, <2>3, RegistryUntouched
<1>6. ASSUME NEW t \in Threads, PublishReturns(t) PROVE RegistryInv'
  <2>1. call'[t].pc \notin RegistrySteps \cup {"increment", "counters", "countersRead"}
    BY <1>6 DEF PublishReturns, Idle, Calling, RegistrySteps
  <2>2. \A u \in Threads \ {t} : call'[u] = call[u]
    BY <1>6 DEF PublishReturns
  <2>3. UNCHANGED <<registryVars, granted>>
    BY <1>6 DEF PublishReturns
  <2>. QED BY <2>1, <2>2, <2>3, RegistryUntouched
<1>7. ASSUME NEW t \in Threads, CallEvents(t) PROVE RegistryInv'
  <2>1. call'[t].pc \notin RegistrySteps \cup {"increment", "counters", "countersRead"}
    BY <1>7 DEF CallEvents, Idle, Calling, RegistrySteps
  <2>2. \A u \in Threads \ {t} : call'[u] = call[u]
    BY <1>7 DEF CallEvents
  <2>3. UNCHANGED <<registryVars, granted>>
    BY <1>7 DEF CallEvents
  <2>. QED BY <2>1, <2>2, <2>3, RegistryUntouched
<1>8. ASSUME NEW t \in Threads, EnterEvents(t) PROVE RegistryInv'
  <2>1. call'[t].pc \notin RegistrySteps \cup {"increment", "counters", "countersRead"}
    BY <1>8 DEF EnterEvents, Idle, Calling, RegistrySteps
  <2>2. \A u \in Threads \ {t} : call'[u] = call[u]
    BY <1>8 DEF EnterEvents
  <2>3. UNCHANGED <<registryVars, granted>>
    BY <1>8 DEF EnterEvents
  <2>. QED BY <2>1, <2>2, <2>3, RegistryUntouched
<1>9. ASSUME NEW t \in Threads, CopyEvents(t) PROVE RegistryInv'
  <2>1. call'[t].pc \notin RegistrySteps \cup {"increment", "counters", "countersRead"}
    BY <1>9 DEF CopyEvents, Idle, Calling, RegistrySteps
  <2>2. \A u \in Threads \ {t} : call'[u] = call[u]
    BY <1>9 DEF CopyEvents
  <2>3. UNCHANGED <<registryVars, granted>>
    BY <1>9 DEF CopyEvents
  <2>. QED BY <2>1, <2>2, <2>3, RegistryUntouched
<1>10. ASSUME NEW t \in Threads, CopyNext(t) PROVE RegistryInv'
  <2>1. call'[t].pc \notin RegistrySteps \cup {"increment", "counters", "countersRead"}
    BY <1>10 DEF CopyNext, Idle, Calling, RegistrySteps
  <2>2. \A u \in Threads \ {t} : call'[u] = call[u]
    BY <1>10 DEF CopyNext
  <2>3. UNCHANGED <<registryVars, granted>>
    BY <1>10 DEF CopyNext
  <2>. QED BY <2>1, <2>2, <2>3, RegistryUntouched
<1>11. ASSUME NEW t \in Threads, EnterIncrement(t) PROVE RegistryInv'
  <2>1. counters = granted /\ RegistryStep(call[t])
    BY <1>11 DEF EnterIncrement, RegistryInv
  <2>2. call'[t].pc = "find" /\ call'[t].name = call[t].name
    BY <1>11 DEF EnterIncrement, Calling
  <2>3. RegistryStep(call[t])'
    BY <1>11, <2>1, <2>2 DEF EnterIncrement, RegistryStep
  <2>4. \A u \in Threads \ {t} : call'[u] = call[u]
    BY <1>11 DEF EnterIncrement
  <2>. QED BY <1>11, <2>1, <2>3, <2>4, RegistryKept DEF EnterIncrement
<1>12. ASSUME NEW t \in Threads, IncrementRefused(t) PROVE RegistryInv'
  <2>1. counters = granted
    BY <1>12 DEF IncrementRefused, RegistryInv, RegistryStep
  <2>2. RegistryStep(call[t])'
    BY <1>12 DEF IncrementRefused, RegistryStep, Idle
  <2>3. \A u \in Threads \ {t} : call'[u] = call[u]
    BY <1>12 DEF IncrementRefused
  <2>. QED BY <1>12, <2>1, <2>2, <2>3, RegistryKept DEF IncrementRefused
<1>13. ASSUME NEW t \in Threads, FindCounter(t) PROVE RegistryInv'
  <2>1. counters = granted /\ call[t].name \in MetricNames
    BY <1>13 DEF FindCounter, RegistryInv, RegistryStep
  <2>2. call[t].amount <= MaxWord - counters[call[t].name]
    <3>1. counters[call[t].name] \in Words /\ call[t].amount \in Words
      BY <2>1 DEF Calling
    <3>. QED BY <1>13, <3>1 DEF FindCounter, WouldOverflow, Words
  <2>3. /\ call'[t].pc = "add" /\ call'[t].value = counters[call[t].name]
        /\ call'[t].name = call[t].name /\ call'[t].amount = call[t].amount
    BY <1>13 DEF FindCounter, Calling
  <2>4. UNCHANGED <<counters, granted, registryHolder>>
    BY <1>13 DEF FindCounter
  <2>5. RegistryStep(call[t])'
    BY <2>1, <2>2, <2>3, <2>4 DEF RegistryStep
  <2>6. \A u \in Threads \ {t} : call'[u] = call[u]
    BY <1>13 DEF FindCounter
  <2>. QED BY <2>1, <2>4, <2>5, <2>6, RegistryKept
<1>14. ASSUME NEW t \in Threads, AddAmount(t) PROVE RegistryInv'
  <2>1. /\ RegistryStep(call[t]) /\ registryHolder = t
        /\ counters = granted /\ call[t].name \in MetricNames
        /\ call[t].value = counters[call[t].name] /\ call[t].amount <= MaxWord - call[t].value
    BY <1>14 DEF AddAmount, RegistryInv, RegistryStep, Exclusion, RegistrySteps
  <2>2. call[t].value \in Words /\ call[t].amount \in Words
    BY DEF Calling
  <2>3. AddWords(call[t].value, call[t].amount) = call[t].value + call[t].amount
    <3>1. call[t].value + call[t].amount <= MaxWord
      BY <2>1, <2>2 DEF Words
    <3>. QED BY <2>2, <3>1, WordSum
  <2>4. counters' = [granted EXCEPT ![call[t].name] = @ + call[t].amount]
    <3>1. counters' = [counters EXCEPT ![call[t].name] = AddWords(call[t].value, call[t].amount)]
      BY <1>14 DEF AddAmount
    <3>2. granted \in [MetricNames -> Nat]
      BY DEF Sums
    <3>. QED BY <2>1, <2>3, <3>1, <3>2
  <2>5. /\ call'[t].pc = "added" /\ call'[t].name = call[t].name /\ call'[t].amount = call[t].amount
        /\ UNCHANGED <<granted, registryHolder>>
    BY <1>14 DEF AddAmount, Calling
  <2>6. RegistryStep(call[t])'
    BY <2>1, <2>4, <2>5 DEF RegistryStep
  <2>7. \A u \in Threads \ {t} : call'[u] = call[u]
    BY <1>14 DEF AddAmount
  <2>. QED BY <2>1, <2>5, <2>6, <2>7, RegistryAlone
<1>15. ASSUME NEW t \in Threads, IncrementReturns(t) PROVE RegistryInv'
  <2>1. RegistryStep(call[t]) /\ registryHolder = t
    BY <1>15 DEF IncrementReturns, RegistryInv, Exclusion, RegistrySteps
  <2>2. counters' = granted'
    BY <1>15, <2>1 DEF IncrementReturns, RegistryStep
  <2>3. ASSUME NEW u \in Threads PROVE RegistryStep(call[u])'
    <3>1. CASE u = t
      <4>1. call'[u].pc = "idle"
        BY <1>15, <3>1 DEF IncrementReturns, Idle
      <4>. QED BY <4>1 DEF RegistryStep
    <3>2. CASE u # t /\ u \in Copying
      <4>1. call[u].pc = "counters"
        BY <2>1, <3>2 DEF Copying, Exclusion, RegistrySteps
      <4>2. call'[u] = [call[u] EXCEPT !.moments = @ \cup {granted'}]
        BY <1>15, <3>2 DEF IncrementReturns
      <4>3. call'[u].pc = "counters" /\ call'[u].counts = call[u].counts /\ granted' \in call'[u].moments
        BY <4>1, <4>2 DEF Calling
      <4>4. RegistryStep(call[u])
        BY DEF RegistryInv
      <4>. QED BY <4>1, <4>3, <4>4 DEF RegistryStep
    <3>3. CASE u # t /\ u \notin Copying
      <4>1. call'[u] = call[u]
        BY <1>15, <3>3 DEF IncrementReturns
      <4>2. RegistryStep(call[u]) /\ call[u].pc \notin RegistrySteps \cup {"counters"}
        BY <2>1, <3>3 DEF RegistryInv, Exclusion, Copying
      <4>. QED BY <4>1, <4>2 DEF RegistryStep, RegistrySteps
    <3>. QED BY <3>1, <3>2, <3>3
  <2>. QED BY <2>2, <2>3 DEF RegistryInv
<1>16. ASSUME NEW t \in Threads, CallCounters(t) PROVE RegistryInv'
  <2>1. (registryHolder = NoThread)' => (counters = granted)'
    BY <1>16 DEF CallCounters, RegistryInv
  <2>2. call'[t].pc = "counters" /\ call'[t].counts = <<>> /\ call'[t].moments = {granted}
    BY <1>16 DEF CallCounters, Idle
  <2>3. DOMAIN call'[t].counts = {}
    BY <2>2
  <2>4. RegistryStep(call[t])'
    BY <1>16, <2>2, <2>3 DEF CallCounters, RegistryStep
  <2>5. \A u \in Threads \ {t} : call'[u] = call[u]
    BY <1>16 DEF CallCounters
  <2>. QED BY <1>16, <2>1, <2>4, <2>5, RegistryKept DEF CallCounters
<1>17. ASSUME NEW t \in Threads, EnterCounters(t) PROVE RegistryInv'
  <2>1. counters = granted /\ RegistryStep(call[t])
    BY <1>17 DEF EnterCounters, RegistryInv
  <2>2. /\ call'[t].pc = "copyCounters" /\ call'[t].moments = call[t].moments
        /\ call'[t].counts = call[t].counts
    BY <1>17 DEF EnterCounters, Calling
  <2>3. DOMAIN call[t].counts = {}
    BY <1>17, <2>1 DEF EnterCounters, RegistryStep
  <2>4. RegistryStep(call[t])'
    BY <1>17, <2>1, <2>2, <2>3 DEF EnterCounters, RegistryStep
  <2>5. \A u \in Threads \ {t} : call'[u] = call[u]
    BY <1>17 DEF EnterCounters
  <2>. QED BY <1>17, <2>1, <2>4, <2>5, RegistryKept DEF EnterCounters
<1>18. ASSUME NEW t \in Threads, CountersReturn(t) PROVE RegistryInv'
  <2>1. counters = granted /\ RegistryStep(call[t])
    BY <1>18 DEF CountersReturn, RegistryInv, RegistryStep
  <2>2. /\ call'[t].pc = "countersRead" /\ call'[t].moments = call[t].moments
        /\ call'[t].counts = call[t].counts
    BY <1>18 DEF CountersReturn, Calling
  <2>3. RegistryStep(call[t])'
    BY <1>18, <2>1, <2>2 DEF CountersReturn, RegistryStep
  <2>4. \A u \in Threads \ {t} : call'[u] = call[u]
    BY <1>18 DEF CountersReturn
  <2>. QED BY <1>18, <2>1, <2>3, <2>4, RegistryKept DEF CountersReturn
<1>19. ASSUME NEW t \in Threads, DropSnapshot(t) PROVE RegistryInv'
  <2>1. call'[t].pc \notin RegistrySteps \cup {"increment", "counters", "countersRead"}
    BY <1>19 DEF DropSnapshot, Idle, Calling, RegistrySteps
  <2>2. \A u \in Threads \ {t} : call'[u] = call[u]
    BY <1>19 DEF DropSnapshot
  <2>3. UNCHANGED <<registryVars, granted>>
    BY <1>19 DEF DropSnapshot
  <2>. QED BY <2>1, <2>2, <2>3, RegistryUntouched
<1>20. ASSUME NEW t \in Threads, NEW component, NEW name, CallPublish(t, component, name) PROVE RegistryInv'
  <2>1. call'[t].pc \notin RegistrySteps \cup {"increment", "counters", "countersRead"}
    BY <1>20 DEF CallPublish, Idle, Calling, RegistrySteps
  <2>2. \A u \in Threads \ {t} : call'[u] = call[u]
    BY <1>20 DEF CallPublish
  <2>3. UNCHANGED <<registryVars, granted>>
    BY <1>20 DEF CallPublish
  <2>. QED BY <2>1, <2>2, <2>3, RegistryUntouched
<1>21. ASSUME NEW t \in Threads, NEW name \in MetricNames \cup {NoName}, NEW amount \in Amounts, CallIncrement(t, name, amount) PROVE RegistryInv'
  <2>1. (registryHolder = NoThread)' => (counters = granted)'
    BY <1>21 DEF CallIncrement, RegistryInv
  <2>2. call'[t].pc = "increment" /\ call'[t].name = name /\ name \in MetricNames
    BY <1>21 DEF CallIncrement, Idle
  <2>3. RegistryStep(call[t])'
    BY <2>2 DEF RegistryStep
  <2>4. \A u \in Threads \ {t} : call'[u] = call[u]
    BY <1>21 DEF CallIncrement
  <2>. QED BY <1>21, <2>1, <2>3, <2>4, RegistryKept DEF CallIncrement
<1>22. ASSUME NEW t \in Threads, NEW n \in MetricNames, CopyCounter(t, n) PROVE RegistryInv'
  <2>1. counters = granted /\ RegistryStep(call[t])
    BY <1>22 DEF CopyCounter, RegistryInv, RegistryStep
  <2>2. /\ call'[t].pc = "copyCounters" /\ call'[t].moments = call[t].moments
        /\ call'[t].counts = [m \in {n} \cup DOMAIN call[t].counts |->
                                IF m = n THEN counters[n] ELSE call[t].counts[m]]
    BY <1>22 DEF CopyCounter, Calling
  <2>3. RegistryStep(call[t])'
    BY <1>22, <2>1, <2>2 DEF CopyCounter, RegistryStep
  <2>4. \A u \in Threads \ {t} : call'[u] = call[u]
    BY <1>22 DEF CopyCounter
  <2>. QED BY <1>22, <2>1, <2>3, <2>4, RegistryKept DEF CopyCounter
<1>23. ASSUME NEW t \in Threads, NEW n \in MetricNames, CounterValue(t, n) PROVE RegistryInv'
  <2>1. counters = granted /\ RegistryStep(call[t])
    BY <1>23 DEF CounterValue, RegistryInv, RegistryStep
  <2>2. /\ call'[t].pc = "countersRead" /\ call'[t].moments = call[t].moments
        /\ call'[t].counts = [m \in {n} |-> counters[n]]
    BY <1>23 DEF CounterValue, Calling
  <2>3. RegistryStep(call[t])'
    BY <1>23, <2>1, <2>2 DEF CounterValue, RegistryStep
  <2>4. \A u \in Threads \ {t} : call'[u] = call[u]
    BY <1>23 DEF CounterValue
  <2>. QED BY <1>23, <2>1, <2>3, <2>4, RegistryKept DEF CounterValue
<1>24. CASE UNCHANGED vars
  <2>1. \A u \in Threads : RegistryStep(call[u]) /\ call'[u] = call[u]
    BY <1>24 DEF RegistryInv
  <2>. QED BY <1>24, <2>1 DEF RegistryInv, RegistryStep
<1>. QED BY <1>1, <1>2, <1>3, <1>4, <1>5, <1>6, <1>7, <1>8, <1>9, <1>10, <1>11, <1>12, <1>13, <1>14, <1>15, <1>16, <1>17, <1>18, <1>19, <1>20, <1>21, <1>22, <1>23, <1>24 DEF Next, Calls, Enters, Works

-------------------------------------------------------------------------------
(* The theorems *)

\* The invariant holds of a sink and a registry just made.
LEMMA InitInv == Init => TelemetryInv
<1> SUFFICES ASSUME Init PROVE TelemetryInv
  OBVIOUS
<1> USE ConstantFacts DEF Init
<1>1. \A t \in Threads : call[t] = Idle
  OBVIOUS
<1>2. TypeOK
  <2>1. <<>> \in Seq(Nat) /\ 1 \in Words /\ 0 \in Words /\ granted \in Sums
    BY DEF Words, Sums
  <2>. QED BY <2>1, IdleType DEF TypeOK
<1>3. Exclusion
  BY <1>1 DEF Exclusion, Idle, SinkSteps, RegistrySteps
<1>4. SinkInv
  <2>1. LatestEvents(0) = <<>>
    <3>1. LatestEvents(0) \in Seq(Nat) /\ Len(LatestEvents(0)) = 0
      BY LatestLog
    <3>. QED BY <3>1, EmptySeq
  <2>2. SinkHas(accepted)
    BY <2>1 DEF SinkHas, NumberAfter
  <2>. QED BY <1>1, <2>2 DEF SinkInv, SinkStep, Idle
<1>5. RegistryInv
  BY <1>1 DEF RegistryInv, RegistryStep, Idle
<1>. QED BY <1>2, <1>3, <1>4, <1>5 DEF TelemetryInv

\* The steps of both objects, under any interleaving of any threads, keep the
\* account of what the holder of each mutex has done.
THEOREM TelemetryInvariant == Spec => []TelemetryInv
<1>1. TelemetryInv /\ [Next]_vars => TelemetryInv'
  <2> SUFFICES ASSUME TelemetryInv, [Next]_vars PROVE TelemetryInv'
    OBVIOUS
  <2>. QED BY NextTypeOK, NextExclusion, NextSink, NextRegistry DEF TelemetryInv
<1>. QED BY InitInv, <1>1, PTL DEF Spec

\* For any number of threads, capacity of the log and width of the numbers, the
\* sink holds the latest accepted events, numbered without a gap or a repetition,
\* and a later publish gets a larger number (InMemoryEventSink::Publish).
THEOREM EventsAlwaysInOrder == Spec => []EventsInOrder
<1>1. TelemetryInv => EventsInOrder
  <2> SUFFICES ASSUME TelemetryInv PROVE EventsInOrder
    OBVIOUS
  <2>1. sinkHolder = NoThread => SinkHas(accepted)
    BY DEF TelemetryInv, SinkInv
  <2>2. ASSUME NEW t \in Threads, call[t].pc \in {"room", "append", "published"}
        PROVE  call[t].number > call[t].calledAfter
    <3>1. call[t].number = accepted + 1 /\ call[t].calledAfter <= accepted
      BY <2>2 DEF TelemetryInv, SinkInv, SinkStep
    <3>2. accepted \in Nat /\ call[t].calledAfter \in Nat
      BY DEF TelemetryInv, TypeOK, Calling
    <3>. QED BY <3>1, <3>2
  <2>. QED BY <2>1, <2>2 DEF EventsInOrder, SinkHas
<1>. QED BY <1>1, TelemetryInvariant, PTL

\* For any threads and names, a snapshot of either object is its state at one
\* moment of the call (both Snapshot methods, MetricsRegistry::CounterValue).
THEOREM SnapshotsAlwaysConsistent == Spec => []SnapshotsConsistent
<1>1. TelemetryInv => SnapshotsConsistent
  BY DEF TelemetryInv, SinkInv, SinkStep, RegistryInv, RegistryStep, SnapshotsConsistent
<1>. QED BY <1>1, TelemetryInvariant, PTL

\* For any threads, amounts and width of the counters, a counter is the sum of the
\* increments that were answered Ok (MetricsRegistry::IncrementCounter).
THEOREM NoIncrementEverLost == Spec => []NoIncrementLost
<1>1. TelemetryInv => NoIncrementLost
  BY DEF TelemetryInv, RegistryInv, NoIncrementLost
<1>. QED BY <1>1, TelemetryInvariant, PTL
==============================================================================
