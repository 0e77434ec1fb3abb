-------------------------- MODULE MessagingProofs --------------------------
(***************************************************************************)
(* Proofs about Messaging, for any events, any number of relays, members,  *)
(* replays and failures: its types; that a record is skipped and an event  *)
(* lost only by a poll that reports an error; the refinement of            *)
(* EffectPromise; and, of RelayTurns, that effects are in order as long as *)
(* no two relays overlap.                                                  *)
(***************************************************************************)
EXTENDS RelayTurns, FiniteSetTheorems, TLAPS

USE MessagingAssumption

-----------------------------------------------------------------------------
(* Sequences *)

LEMMA ElementsOfAppend ==
    ASSUME NEW S, NEW s \in Seq(S), NEW e \in S
    PROVE  /\ Append(s, e) \in Seq(S)
           /\ Elements(Append(s, e)) = Elements(s) \cup {e}
           /\ Len(Append(s, e)) = Len(s) + 1
           /\ \A i \in 1..Len(s) : Append(s, e)[i] = s[i]
BY DEF Elements

LEMMA ElementsInSet ==
    ASSUME NEW S, NEW s \in Seq(S)
    PROVE  /\ Elements(s) \subseteq S
           /\ \A i \in 1..Len(s) : s[i] \in Elements(s)
           /\ Len(s) \in Nat
BY DEF Elements

-----------------------------------------------------------------------------
(* Types *)

MemberState(n) ==
    [position : 1..(n + 1), next : 1..(n + 1), last : 0..n,
     pc : {"handle", "deadletter", "commit"}, attempt : 1..MaxAttempts]

(* TypeOK by parts. *)
ProducerTypes ==
    /\ outbox \in Seq(Events) /\ marked \subseteq Events
    /\ relay \in [Relays -> [batch : SUBSET Events, done : SUBSET Events]]

GroupTypes ==
    /\ committed \in 1..(Len(log) + 1)
    /\ owner \in Members \cup {NoMember}
    /\ member \in [Members -> MemberState(Len(log))]
    /\ discarded \subseteq 1..Len(log)

ConsumerTypes ==
    /\ inbox \subseteq Supported /\ effects \in Seq(Supported)
    /\ repaired \in BOOLEAN

CounterTypes == replayer \in Nat /\ replays \in Nat /\ faults \in Nat

Types ==
    /\ ProducerTypes
    /\ log \in Seq(Events) /\ dlq \in Seq(Events)
    /\ GroupTypes
    /\ ConsumerTypes
    /\ CounterTypes

LEMMA TypesIsTypeOK == Types <=> TypeOK
BY DEF Types, TypeOK, ProducerTypes, GroupTypes, ConsumerTypes, CounterTypes, MemberState

LEMMA InitTypes == ASSUME Init PROVE Types
<1>1. ProducerTypes
  BY DEF Init, ProducerTypes, NoBatch
<1>2. log = << >> /\ Len(log) = 0 /\ dlq = << >>
  BY DEF Init
<1>3. Stopped \in MemberState(0)
  BY DEF Stopped, MemberState
<1>4. GroupTypes
  BY <1>2, <1>3 DEF Init, GroupTypes
<1>5. effects \in Seq(Supported) /\ log \in Seq(Events) /\ dlq \in Seq(Events)
  BY DEF Init
<1>6. ConsumerTypes
  BY <1>5 DEF Init, ConsumerTypes
<1>7. CounterTypes
  BY DEF Init, CounterTypes
<1> QED
  BY <1>1, <1>4, <1>5, <1>6, <1>7 DEF Types

(* The group's offsets stay in range when the log does not shrink. *)
LEMMA LogGrows ==
    ASSUME Types, NEW e \in Events, log' = Append(log, e), UNCHANGED groupVars
    PROVE  log' \in Seq(Events) /\ GroupTypes'
<1>1. log' \in Seq(Events) /\ Len(log') = Len(log) + 1 /\ Len(log) \in Nat
  BY ElementsOfAppend, ElementsInSet DEF Types
<1>2. MemberState(Len(log)) \subseteq MemberState(Len(log'))
  BY <1>1 DEF MemberState
<1> QED
  BY <1>1, <1>2 DEF Types, GroupTypes, groupVars

LEMMA FaultTypes == CounterTypes /\ Fault => faults' \in Nat
BY DEF CounterTypes, Fault

LEMMA PendingTypes == ASSUME Types PROVE Pending \subseteq Elements(outbox) /\ Elements(outbox) \subseteq Events
BY ElementsInSet DEF Types, ProducerTypes, Pending

LEMMA ToProduceTypes ==
    ASSUME Types, NEW r \in Relays
    PROVE  ToProduce(r) \subseteq relay[r].batch /\ relay[r].batch \subseteq Events
BY DEF Types, ProducerTypes, ToProduce, Oldest

LEMMA CommitMarksTypes ==
    ASSUME Types, NEW r \in Relays, CommitMarks(r), UNCHANGED outbox
    PROVE  ProducerTypes'
BY DEF Types, ProducerTypes, CommitMarks, NoBatch

LEMMA RelayStepsKeepTypes ==
    ASSUME Types, NEW r \in Relays,
           RelayStep(r) \/ ProduceFails(r) \/ RelayRollsBack(r)
    PROVE  Types'
<1>1. CASE TakeBatch(r)
  <2>1. relay' \in [Relays -> [batch : SUBSET Events, done : SUBSET Events]]
    BY <1>1, PendingTypes DEF TakeBatch, Types, ProducerTypes
  <2> QED
    BY <1>1, <2>1 DEF TakeBatch, Types, ProducerTypes, GroupTypes, ConsumerTypes, CounterTypes,
                      groupVars, consumerVars, replayVars
<1>2. CASE Produce(r)
  <2>1. PICK e \in ToProduce(r) :
           /\ log' = Append(log, e)
           /\ relay' = [relay EXCEPT ![r].done = @ \cup {e}]
           /\ UNCHANGED <<outbox, marked, dlq, groupVars, consumerVars, replayVars, faults>>
    BY <1>2 DEF Produce
  <2>2. e \in Events
    BY ToProduceTypes
  <2>3. log' \in Seq(Events) /\ GroupTypes'
    BY <2>1, <2>2, LogGrows
  <2>4. relay' \in [Relays -> [batch : SUBSET Events, done : SUBSET Events]]
    BY <2>1, <2>2 DEF Types, ProducerTypes
  <2> QED
    BY <2>1, <2>3, <2>4 DEF Types, ProducerTypes, ConsumerTypes, CounterTypes, consumerVars, replayVars
<1>3. CASE CommitBatch(r)
  BY <1>3, CommitMarksTypes DEF CommitBatch, Types, GroupTypes, ConsumerTypes, CounterTypes,
                                groupVars, consumerVars, replayVars
<1>4. CASE ProduceFails(r)
  <2>1. PICK e \in ToProduce(r) : log' \in {log, Append(log, e)}
    BY <1>4 DEF ProduceFails
  <2>2. e \in Events
    BY ToProduceTypes
  <2>3. log' \in Seq(Events) /\ GroupTypes'
    <3>1. UNCHANGED groupVars
      BY <1>4 DEF ProduceFails
    <3>2. CASE log' = log
      BY <3>1, <3>2 DEF Types, GroupTypes, groupVars
    <3>3. CASE log' = Append(log, e)
      BY <3>1, <3>3, <2>2, LogGrows
    <3> QED
      BY <2>1, <3>2, <3>3
  <2>4. ProducerTypes'
    BY <1>4, CommitMarksTypes DEF ProduceFails
  <2> QED
    BY <1>4, <2>3, <2>4, FaultTypes DEF ProduceFails, Types, ConsumerTypes, CounterTypes,
                                        consumerVars, replayVars
<1>5. CASE RelayRollsBack(r)
  BY <1>5, FaultTypes DEF RelayRollsBack, Types, ProducerTypes, GroupTypes, ConsumerTypes, CounterTypes, NoBatch,
                          groupVars, consumerVars, replayVars
<1> QED
  BY <1>1, <1>2, <1>3, <1>4, <1>5 DEF RelayStep

(* The steps of a member, those that its environment makes it take included. *)
MemberMove(m) ==
    Assign(m) \/ MemberStep(m) \/ PollFails(m) \/ DeadLetterTwice(m) \/ MemberStops(m)

(* What a step of a member may do to the group. *)
LEMMA MemberTypes ==
    ASSUME Types, NEW m \in Members, NEW x \in MemberState(Len(log)),
           member' = [member EXCEPT ![m] = x],
           committed' \in 1..(Len(log) + 1), owner' \in Members \cup {NoMember},
           discarded' \subseteq 1..Len(log),
           UNCHANGED log
    PROVE  GroupTypes'
BY DEF Types, GroupTypes

LEMMA WorkingRecord ==
    ASSUME Types, NEW m \in Members, Working(m)
    PROVE  /\ member[m] \in MemberState(Len(log))
           /\ member[m].next \in 1..Len(log) /\ Len(log) \in Nat
           /\ Record(m) \in Events
           /\ Record(m) = log[member[m].next]
           /\ Record(m) \in Elements(log)
<1>1. member[m] \in MemberState(Len(log)) /\ log \in Seq(Events) /\ Len(log) \in Nat
  BY ElementsInSet DEF Types, GroupTypes
<1>2. member[m].next \in 1..Len(log)
  BY <1>1 DEF MemberState, Working
<1> QED
  BY <1>1, <1>2, ElementsInSet DEF Record

LEMMA NextRecordTypes ==
    ASSUME Types, NEW m \in Members, Working(m)
    PROVE  /\ NextRecord(m) \in MemberState(Len(log))
           /\ member[m].next + 1 \in 1..(Len(log) + 1)
<1>1. member[m].next + 1 \in 1..(Len(log) + 1) /\ 1 \in 1..MaxAttempts
  BY WorkingRecord
<1> QED
  BY <1>1, WorkingRecord DEF MemberState, NextRecord

LEMMA TakeEffectTypes ==
    ASSUME Types, NEW e, TakeEffect(e) \/ UNCHANGED <<inbox, effects>>, UNCHANGED repaired
    PROVE  ConsumerTypes'
<1>1. CASE UNCHANGED <<inbox, effects>>
  BY <1>1 DEF Types, ConsumerTypes
<1>2. CASE TakeEffect(e) /\ e \in Supported
  BY <1>2, ElementsOfAppend DEF Types, ConsumerTypes, TakeEffect
<1>3. CASE TakeEffect(e) /\ e \notin Supported
  BY <1>3 DEF Types, ConsumerTypes, TakeEffect
<1> QED
  BY <1>1, <1>2, <1>3

(* What a step that works on a record leaves alone, and what it may change. *)
LEMMA MemberStepTypes ==
    ASSUME Types, NEW m \in Members, NEW x \in MemberState(Len(log)),
           member' = [member EXCEPT ![m] = x],
           committed' \in 1..(Len(log) + 1), owner' \in Members \cup {NoMember},
           discarded' \subseteq 1..Len(log),
           dlq' \in Seq(Events), ConsumerTypes', faults' \in Nat,
           UNCHANGED <<producerVars, log, replayVars>>
    PROVE  Types'
<1>1. GroupTypes'
  BY MemberTypes
<1>2. ProducerTypes'
  BY DEF Types, ProducerTypes, producerVars
<1>3. CounterTypes' /\ log' \in Seq(Events)
  BY DEF Types, CounterTypes, replayVars
<1> QED
  BY <1>1, <1>2, <1>3 DEF Types

LEMMA MemberStepsKeepTypes ==
    ASSUME Types, NEW m \in Members,
           MemberMove(m)
    PROVE  Types'
<1> DEFINE n == Len(log)
<1>0. /\ member[m] \in MemberState(n) /\ n \in Nat
      /\ member \in [Members -> MemberState(n)]
      /\ committed \in 1..(n + 1) /\ owner \in Members \cup {NoMember}
      /\ discarded \subseteq 1..n
      /\ dlq \in Seq(Events) /\ faults \in Nat
  BY ElementsInSet DEF Types, GroupTypes, CounterTypes
<1>1. CASE Assign(m)
  <2>1. [member[m] EXCEPT !.position = committed] \in MemberState(n)
    BY <1>0 DEF MemberState
  <2>2. faults' \in Nat
    BY <1>1, <1>0 DEF Assign, Fault
  <2>3. ConsumerTypes'
    BY <1>1 DEF Assign, Types, ConsumerTypes, consumerVars
  <2> QED
    BY <1>0, <1>1, <2>1, <2>2, <2>3, MemberStepTypes DEF Assign
<1>2. CASE Poll(m)
  <2> DEFINE x == [position |-> n + 1, next |-> member[m].position, last |-> n,
                   pc |-> "handle", attempt |-> 1]
  <2>1. x \in MemberState(n)
    BY <1>0 DEF MemberState
  <2>2. ConsumerTypes'
    BY <1>2 DEF Poll, Types, ConsumerTypes, consumerVars
  <2>3. member' = [member EXCEPT ![m] = x]
    BY <1>2 DEF Poll
  <2> HIDE DEF x
  <2> QED
    BY <1>0, <1>2, <2>1, <2>2, <2>3, MemberStepTypes DEF Poll
<1>3. CASE HandleSucceeds(m)
  <2>1. [member[m] EXCEPT !.pc = "commit"] \in MemberState(n)
    BY <1>0 DEF MemberState
  <2>2. ConsumerTypes'
    BY <1>3, TakeEffectTypes DEF HandleSucceeds
  <2> QED
    BY <1>0, <1>3, <2>1, <2>2, MemberStepTypes DEF HandleSucceeds
<1>4. CASE HandleFails(m)
  <2>0. /\ member[m].attempt \in 1..MaxAttempts
        /\ member[m].attempt < MaxAttempts => member[m].attempt + 1 \in 1..MaxAttempts
    BY <1>0 DEF MemberState
  <2>1. /\ [member[m] EXCEPT !.pc = "deadletter"] \in MemberState(n)
        /\ member[m].attempt < MaxAttempts =>
              [member[m] EXCEPT !.attempt = @ + 1] \in MemberState(n)
    BY <1>0, <2>0 DEF MemberState
  <2>2. ConsumerTypes'
    BY <1>4, TakeEffectTypes DEF HandleFails
  <2>3. faults' \in Nat
    BY <1>4, <1>0 DEF HandleFails, Fault
  <2>4. PICK x \in MemberState(n) : member' = [member EXCEPT ![m] = x]
    BY <1>4, <2>1 DEF HandleFails
  <2> QED
    BY <1>0, <1>4, <2>2, <2>3, <2>4, MemberStepTypes DEF HandleFails
<1>5. CASE PublishDeadLetter(m)
  <2>1. [member[m] EXCEPT !.pc = "commit"] \in MemberState(n)
    BY <1>0 DEF MemberState
  <2>2. ConsumerTypes'
    BY <1>5 DEF PublishDeadLetter, Types, ConsumerTypes, consumerVars
  <2>3. dlq' \in Seq(Events)
    BY <1>0, <1>5, WorkingRecord, ElementsOfAppend DEF PublishDeadLetter
  <2> QED
    BY <1>0, <1>5, <2>1, <2>2, <2>3, MemberStepTypes DEF PublishDeadLetter
<1>6. CASE CommitOffset(m)
  <2>1. NextRecord(m) \in MemberState(n) /\ member[m].next + 1 \in 1..(n + 1)
    BY <1>0, <1>6, NextRecordTypes DEF CommitOffset
  <2>2. ConsumerTypes'
    BY <1>6 DEF CommitOffset, Types, ConsumerTypes, consumerVars
  <2>3. faults' \in Nat
    BY <1>6, <1>0 DEF CommitOffset, Fault
  <2>4. committed' \in 1..(n + 1)
    BY <1>6, <1>0, <2>1 DEF CommitOffset
  <2> QED
    BY <1>0, <1>6, <2>1, <2>2, <2>3, <2>4, MemberStepTypes DEF CommitOffset
<1>7. CASE DeadLetterTwice(m)
  <2>1. ConsumerTypes'
    BY <1>7 DEF DeadLetterTwice, Types, ConsumerTypes, consumerVars
  <2>2. dlq' \in Seq(Events)
    BY <1>0, <1>7, WorkingRecord, ElementsOfAppend DEF DeadLetterTwice
  <2>3. faults' \in Nat
    BY <1>7, <1>0 DEF DeadLetterTwice, Fault
  <2>4. member' = [member EXCEPT ![m] = member[m]] /\ UNCHANGED <<committed, owner, discarded>>
    BY <1>0, <1>7 DEF DeadLetterTwice, groupVars
  <2> QED
    BY <1>0, <1>7, <2>1, <2>2, <2>3, <2>4, MemberStepTypes DEF DeadLetterTwice
<1>8. CASE MemberStops(m)
  <2>1. Stopped \in MemberState(n)
    BY <1>0 DEF MemberState, Stopped
  <2>2. ConsumerTypes'
    BY <1>8 DEF MemberStops, Types, ConsumerTypes, consumerVars
  <2>3. faults' \in Nat
    BY <1>8, <1>0 DEF MemberStops, Fault
  <2> QED
    BY <1>0, <1>8, <2>1, <2>2, <2>3, MemberStepTypes DEF MemberStops
<1>9. CASE PollFails(m)
  <2>1. [member[m] EXCEPT !.position = n + 1] \in MemberState(n)
    <3>1. n + 1 \in 1..(n + 1)
      BY <1>0
    <3> QED
      BY <1>0, <3>1 DEF MemberState
  <2>2. faults' \in Nat
    BY <1>9, <1>0 DEF PollFails, Fault
  <2>3. ConsumerTypes'
    BY <1>9 DEF PollFails, Types, ConsumerTypes, consumerVars
  <2>4. discarded' \subseteq 1..n
    <3>1. member[m].position \in 1..(n + 1)
      BY <1>0 DEF MemberState
    <3> QED
      BY <1>0, <1>9, <3>1 DEF PollFails
  <2> QED
    BY <1>0, <1>9, <2>1, <2>2, <2>3, <2>4, MemberStepTypes DEF PollFails
<1> QED
  BY <1>1, <1>2, <1>3, <1>4, <1>5, <1>6, <1>7, <1>8, <1>9 DEF MemberMove, MemberStep

LEMMA OtherStepsKeepTypes ==
    ASSUME Types,
           (\E e \in Events : WriteEvent(e)) \/ Repair \/ StartReplay \/ ReplayRecord \/ EndReplay
    PROVE  Types'
<1>1. ASSUME NEW e \in Events, WriteEvent(e) PROVE Types'
  <2>1. outbox' \in Seq(Events)
    BY <1>1, ElementsOfAppend DEF WriteEvent, Types, ProducerTypes
  <2>2. ProducerTypes'
    BY <1>1, <2>1 DEF WriteEvent, Types, ProducerTypes
  <2> QED
    BY <1>1, <2>2 DEF WriteEvent, Types, GroupTypes, ConsumerTypes, CounterTypes,
                      groupVars, consumerVars, replayVars
<1>2. CASE Repair
  <2>1. ConsumerTypes'
    BY <1>2 DEF Repair, Types, ConsumerTypes
  <2> QED
    BY <1>2, <2>1 DEF Repair, Types, ProducerTypes, GroupTypes, CounterTypes,
                      producerVars, groupVars, replayVars
<1>3. CASE StartReplay \/ EndReplay
  <2>1. CounterTypes'
    BY <1>3 DEF StartReplay, EndReplay, Types, CounterTypes
  <2> QED
    BY <1>3, <2>1 DEF StartReplay, EndReplay, Types, ProducerTypes, GroupTypes, ConsumerTypes,
                      producerVars, groupVars, consumerVars
<1>4. CASE ReplayRecord
  <2>1. dlq[replayer] \in Events /\ UNCHANGED groupVars
    BY <1>4, ElementsInSet DEF ReplayRecord, Types
  <2>2. log' \in Seq(Events) /\ GroupTypes'
    BY <1>4, <2>1, LogGrows DEF ReplayRecord
  <2>3. CounterTypes'
    BY <1>4 DEF ReplayRecord, Types, CounterTypes
  <2> QED
    BY <1>4, <2>2, <2>3 DEF ReplayRecord, Types, ProducerTypes, ConsumerTypes,
                            producerVars, consumerVars
<1> QED
  BY <1>1, <1>2, <1>3, <1>4

LEMMA StutterKeepsTypes == ASSUME Types, UNCHANGED vars PROVE Types'
BY DEF Types, ProducerTypes, GroupTypes, ConsumerTypes, CounterTypes, vars

LEMMA NextKeepsTypes == ASSUME Types, [Next]_vars PROVE Types'
BY RelayStepsKeepTypes, MemberStepsKeepTypes, OtherStepsKeepTypes, StutterKeepsTypes DEF Next, MemberMove

(* Tables, topics, offsets and the local states of relays and members stay  *)
(* within their types: no fetch and no commit points past the log's end.    *)
THEOREM TypeCorrect == Spec => []TypeOK
<1>1. Init => Types
  BY InitTypes
<1>2. Types /\ [Next]_vars => Types'
  BY NextKeepsTypes
<1>3. Types => TypeOK
  BY TypesIsTypeOK
<1> QED
  BY <1>1, <1>2, <1>3, PTL DEF Spec

-----------------------------------------------------------------------------
(* Where events come from: every row, record, dead letter and effect stems  *)
(* from the outbox.                                                        *)

TopicsGenuine ==
    /\ Elements(log) \subseteq Elements(outbox)
    /\ Elements(dlq) \subseteq Elements(log)

RelaysGenuine ==
    /\ marked \subseteq Elements(log)
    /\ \A r \in Relays : /\ relay[r].batch \subseteq Elements(outbox)
                         /\ relay[r].done \subseteq Elements(log)

InboxIsEffects ==
    /\ inbox \subseteq Elements(log)
    /\ Elements(effects) = inbox

Genuine == TopicsGenuine /\ RelaysGenuine /\ InboxIsEffects

(* What any step may do to the outbox, the topics and the effects. *)
OutboxGrows ==
    \/ UNCHANGED outbox
    \/ UNCHANGED effects /\ \E e \in Events : e \notin Elements(outbox) /\ outbox' = Append(outbox, e)

TopicsGrow ==
    /\ \/ UNCHANGED log
       \/ \E e \in Elements(outbox) : log' = Append(log, e)
    /\ \/ UNCHANGED dlq
       \/ \E e \in Elements(log) : dlq' = Append(dlq, e)

EffectsGrow ==
    \/ UNCHANGED <<inbox, effects>>
    \/ \E m \in Members, e \in Elements(log) :
          /\ Working(m) /\ e = Record(m)
          /\ e \in Supported /\ e \notin inbox
          /\ inbox' = inbox \cup {e}
          /\ effects' = Append(effects, e)
          /\ UNCHANGED outbox

LEMMA OutboxSteps == ASSUME [Next]_vars PROVE OutboxGrows
<1>1. ASSUME NEW e \in Events, WriteEvent(e) PROVE OutboxGrows
  BY <1>1 DEF WriteEvent, OutboxGrows, consumerVars
<1>2. ASSUME NEW r \in Relays, RelayStep(r) \/ ProduceFails(r) \/ RelayRollsBack(r)
      PROVE  UNCHANGED outbox
  BY <1>2 DEF RelayStep, TakeBatch, Produce, CommitBatch, ProduceFails, RelayRollsBack
<1>3. ASSUME NEW m \in Members, MemberMove(m)
      PROVE  UNCHANGED outbox
  BY <1>3 DEF MemberMove, MemberStep, Assign, Poll, PollFails, HandleSucceeds, HandleFails, PublishDeadLetter,
              CommitOffset, DeadLetterTwice, MemberStops, producerVars
<1>4. ASSUME Repair \/ StartReplay \/ ReplayRecord \/ EndReplay \/ UNCHANGED vars
      PROVE  UNCHANGED outbox
  BY <1>4 DEF Repair, StartReplay, ReplayRecord, EndReplay, producerVars, vars
<1> QED
  BY <1>1, <1>2, <1>3, <1>4 DEF Next, MemberMove, OutboxGrows

LEMMA TopicsSteps == ASSUME Types, Genuine, [Next]_vars PROVE TopicsGrow
<1>1. ASSUME NEW e \in Events, WriteEvent(e) PROVE UNCHANGED <<log, dlq>>
  BY <1>1 DEF WriteEvent
<1>2. ASSUME NEW r \in Relays, RelayStep(r) \/ ProduceFails(r) \/ RelayRollsBack(r)
      PROVE  TopicsGrow
  <2>1. ToProduce(r) \subseteq Elements(outbox)
    BY ToProduceTypes DEF Genuine, RelaysGenuine
  <2>2. UNCHANGED dlq
    BY <1>2 DEF RelayStep, TakeBatch, Produce, CommitBatch, ProduceFails, RelayRollsBack
  <2>3. UNCHANGED log \/ \E e \in ToProduce(r) : log' = Append(log, e)
    BY <1>2 DEF RelayStep, TakeBatch, Produce, CommitBatch, ProduceFails, RelayRollsBack
  <2> QED
    BY <2>1, <2>2, <2>3 DEF TopicsGrow
<1>3. ASSUME NEW m \in Members, MemberMove(m)
      PROVE  TopicsGrow
  <2>1. UNCHANGED log
    BY <1>3 DEF MemberMove, MemberStep, Assign, Poll, PollFails, HandleSucceeds, HandleFails, PublishDeadLetter,
                CommitOffset, DeadLetterTwice, MemberStops
  <2>2. UNCHANGED dlq \/ (Working(m) /\ dlq' = Append(dlq, Record(m)))
    BY <1>3 DEF MemberMove, MemberStep, Assign, Poll, PollFails, HandleSucceeds, HandleFails, PublishDeadLetter,
                CommitOffset, DeadLetterTwice, MemberStops
  <2> QED
    BY <2>1, <2>2, WorkingRecord DEF TopicsGrow
<1>4. CASE ReplayRecord
  <2>1. dlq[replayer] \in Elements(outbox)
    BY <1>4 DEF ReplayRecord, Elements, Genuine, TopicsGenuine
  <2> QED
    BY <1>4, <2>1 DEF ReplayRecord, TopicsGrow
<1>5. ASSUME Repair \/ StartReplay \/ EndReplay \/ UNCHANGED vars
      PROVE  UNCHANGED <<log, dlq>>
  BY <1>5 DEF Repair, StartReplay, EndReplay, vars
<1> QED
  BY <1>1, <1>2, <1>3, <1>4, <1>5 DEF Next, MemberMove, TopicsGrow

LEMMA EffectsSteps == ASSUME Types, [Next]_vars PROVE EffectsGrow
<1>1. ASSUME NEW m \in Members, Working(m), TakeEffect(Record(m)), UNCHANGED outbox
      PROVE  EffectsGrow
  BY <1>1, WorkingRecord DEF TakeEffect, EffectsGrow
<1>2. ASSUME NEW m \in Members, MemberMove(m)
      PROVE  EffectsGrow
  <2>1. CASE HandleSucceeds(m)
    BY <1>1, <2>1 DEF HandleSucceeds, producerVars
  <2>2. CASE HandleFails(m)
    BY <1>1, <2>2 DEF HandleFails, EffectsGrow, producerVars
  <2>3. CASE Assign(m) \/ Poll(m) \/ PollFails(m) \/ PublishDeadLetter(m) \/ CommitOffset(m)
               \/ DeadLetterTwice(m) \/ MemberStops(m)
    BY <2>3 DEF Assign, Poll, PollFails, PublishDeadLetter, CommitOffset, DeadLetterTwice, MemberStops,
                EffectsGrow, consumerVars
  <2> QED
    BY <1>2, <2>1, <2>2, <2>3 DEF MemberMove, MemberStep
<1>3. ASSUME NEW r \in Relays, RelayStep(r) \/ ProduceFails(r) \/ RelayRollsBack(r)
      PROVE  EffectsGrow
  BY <1>3 DEF RelayStep, TakeBatch, Produce, CommitBatch, ProduceFails, RelayRollsBack,
              EffectsGrow, consumerVars
<1>4. ASSUME (\E e \in Events : WriteEvent(e)) \/ Repair \/ StartReplay \/ ReplayRecord \/ EndReplay
                \/ UNCHANGED vars
      PROVE  EffectsGrow
  BY <1>4 DEF WriteEvent, Repair, StartReplay, ReplayRecord, EndReplay, vars, EffectsGrow,
              consumerVars
<1> QED
  BY <1>2, <1>3, <1>4 DEF Next, MemberMove

(* Nothing written is ever removed, and what is settled stays settled. *)
LEMMA Monotone ==
    ASSUME Types, Types', Genuine, [Next]_vars
    PROVE  /\ Elements(outbox) \subseteq Elements(outbox')
           /\ Elements(log) \subseteq Elements(log')
           /\ Elements(dlq) \subseteq Elements(dlq')
           /\ inbox \subseteq inbox'
           /\ Len(log) \in Nat /\ Len(log') \in Nat /\ Len(log) <= Len(log')
           /\ \A i \in 1..Len(log) : log'[i] = log[i]
<1>1. Elements(outbox) \subseteq Elements(outbox')
  BY OutboxSteps, ElementsOfAppend DEF OutboxGrows, Types, ProducerTypes
<1>2. log \in Seq(Events) /\ dlq \in Seq(Events) /\ Elements(log) \subseteq Events
      /\ Elements(outbox) \subseteq Events /\ Len(log) \in Nat
  BY ElementsInSet DEF Types, ProducerTypes
<1>3. /\ Elements(log) \subseteq Elements(log')
      /\ Len(log') \in Nat /\ Len(log) <= Len(log')
      /\ \A i \in 1..Len(log) : log'[i] = log[i]
  <2>1. CASE UNCHANGED log
    BY <1>2, <2>1
  <2>2. ASSUME NEW e \in Elements(outbox), log' = Append(log, e)
        PROVE  /\ Elements(log) \subseteq Elements(log')
               /\ Len(log') \in Nat /\ Len(log) <= Len(log')
               /\ \A i \in 1..Len(log) : log'[i] = log[i]
    BY <1>2, <2>2, ElementsOfAppend
  <2> QED
    BY <2>1, <2>2, TopicsSteps DEF TopicsGrow
<1>4. Elements(dlq) \subseteq Elements(dlq')
  <2>1. ASSUME NEW e \in Elements(log), dlq' = Append(dlq, e)
        PROVE  Elements(dlq) \subseteq Elements(dlq')
    BY <1>2, <2>1, ElementsOfAppend
  <2> QED
    BY <2>1, TopicsSteps DEF TopicsGrow
<1>5. inbox \subseteq inbox'
  BY EffectsSteps DEF EffectsGrow
<1> QED
  BY <1>1, <1>2, <1>3, <1>4, <1>5

(* What a poll has thrown away stays in the history. *)
LEMMA DiscardedGrows == ASSUME [Next]_vars PROVE discarded \subseteq discarded'
<1>1. ASSUME NEW m \in Members, MemberMove(m) PROVE discarded \subseteq discarded'
  BY <1>1 DEF MemberMove, MemberStep, Assign, Poll, PollFails, HandleSucceeds, HandleFails,
              PublishDeadLetter, CommitOffset, DeadLetterTwice, MemberStops, groupVars
<1>2. ASSUME NEW r \in Relays, RelayStep(r) \/ ProduceFails(r) \/ RelayRollsBack(r)
      PROVE  UNCHANGED discarded
  BY <1>2 DEF RelayStep, TakeBatch, Produce, CommitBatch, ProduceFails, RelayRollsBack, groupVars
<1>3. ASSUME (\E e \in Events : WriteEvent(e)) \/ Repair \/ StartReplay \/ ReplayRecord \/ EndReplay
                \/ UNCHANGED vars
      PROVE  UNCHANGED discarded
  BY <1>3 DEF WriteEvent, Repair, StartReplay, ReplayRecord, EndReplay, vars, groupVars
<1> QED
  BY <1>1, <1>2, <1>3 DEF Next, MemberMove

(* An event that is settled, or that a poll has thrown away. *)
Answered(e) == Settled(e) \/ Discarded(e)

LEMMA AnsweredStays ==
    ASSUME Types, Types', Genuine, [Next]_vars, NEW e, Answered(e)
    PROVE  Answered(e)'
BY Monotone, DiscardedGrows DEF Answered, Settled, Discarded, Types, GroupTypes

LEMMA SettledStays ==
    ASSUME Types, Types', Genuine, [Next]_vars, NEW e, Settled(e)
    PROVE  Settled(e)'
BY Monotone DEF Settled

LEMMA TopicsStayGenuine ==
    ASSUME Types, Types', Genuine, [Next]_vars
    PROVE  TopicsGenuine'
<1>1. log \in Seq(Events) /\ dlq \in Seq(Events) /\ Elements(log) \subseteq Events
      /\ Elements(outbox) \subseteq Events
  BY ElementsInSet DEF Types, ProducerTypes
<1>2. Elements(log') \subseteq Elements(outbox)
  <2>1. ASSUME NEW e \in Elements(outbox), log' = Append(log, e)
        PROVE  Elements(log') \subseteq Elements(outbox)
    BY <1>1, <2>1, ElementsOfAppend DEF Genuine, TopicsGenuine
  <2> QED
    BY <2>1, TopicsSteps DEF TopicsGrow, Genuine, TopicsGenuine
<1>3. Elements(dlq') \subseteq Elements(log)
  <2>1. ASSUME NEW e \in Elements(log), dlq' = Append(dlq, e)
        PROVE  Elements(dlq') \subseteq Elements(log)
    BY <1>1, <2>1, ElementsOfAppend DEF Genuine, TopicsGenuine
  <2> QED
    BY <2>1, TopicsSteps DEF TopicsGrow, Genuine, TopicsGenuine
<1> QED
  BY <1>2, <1>3, Monotone DEF TopicsGenuine

LEMMA InboxStaysEffects ==
    ASSUME Types, Types', Genuine, [Next]_vars
    PROVE  InboxIsEffects'
<1>1. effects \in Seq(Supported)
  BY DEF Types, ConsumerTypes
<1>2. CASE UNCHANGED <<inbox, effects>>
  BY <1>2, Monotone DEF Genuine, InboxIsEffects
<1>3. ASSUME NEW e \in Elements(log), e \in Supported,
             inbox' = inbox \cup {e}, effects' = Append(effects, e)
      PROVE  InboxIsEffects'
  <2>1. Elements(effects') = inbox'
    BY <1>1, <1>3, ElementsOfAppend DEF Genuine, InboxIsEffects
  <2>2. inbox' \subseteq Elements(log')
    BY <1>3, Monotone DEF Genuine, InboxIsEffects
  <2> QED
    BY <2>1, <2>2 DEF InboxIsEffects
<1> QED
  BY <1>2, <1>3, EffectsSteps DEF EffectsGrow

LEMMA RelaysStayGenuine ==
    ASSUME Types, Types', Genuine, [Next]_vars
    PROVE  RelaysGenuine'
<1>0. RelaysGenuine /\ relay \in [Relays -> [batch : SUBSET Events, done : SUBSET Events]]
      /\ log \in Seq(Events)
  BY DEF Genuine, Types, ProducerTypes
<1>1. CASE UNCHANGED <<marked, relay>>
  BY <1>0, <1>1, Monotone DEF RelaysGenuine
<1>2. ASSUME NEW r \in Relays, TakeBatch(r) PROVE RelaysGenuine'
  <2>1. PICK b \in SUBSET Pending : relay' = [relay EXCEPT ![r] = [batch |-> b, done |-> {}]]
    BY <1>2 DEF TakeBatch
  <2>2. b \subseteq Elements(outbox)
    BY PendingTypes
  <2>3. UNCHANGED marked
    BY <1>2 DEF TakeBatch
  <2> QED
    BY <1>0, <2>1, <2>2, <2>3, Monotone DEF RelaysGenuine
<1>3. ASSUME NEW r \in Relays, Produce(r) PROVE RelaysGenuine'
  <2>1. PICK e \in ToProduce(r) :
           log' = Append(log, e) /\ relay' = [relay EXCEPT ![r].done = @ \cup {e}]
    BY <1>3 DEF Produce
  <2>2. e \in Elements(log')
    BY <1>0, <2>1, ElementsOfAppend, ToProduceTypes
  <2>3. UNCHANGED marked
    BY <1>3 DEF Produce
  <2>4. \A q \in Relays : /\ relay'[q].batch = relay[q].batch
                         /\ relay'[q].done \subseteq relay[q].done \cup {e}
    BY <1>0, <2>1
  <2> QED
    BY <1>0, <2>2, <2>3, <2>4, Monotone DEF RelaysGenuine
<1>4. ASSUME NEW r \in Relays, CommitMarks(r) PROVE RelaysGenuine'
  <2>1. marked' \subseteq Elements(log)
    BY <1>0, <1>4 DEF CommitMarks, RelaysGenuine
  <2>2. \A q \in Relays : relay'[q] \in {relay[q], NoBatch}
    BY <1>0, <1>4 DEF CommitMarks
  <2> QED
    BY <1>0, <2>1, <2>2, Monotone DEF RelaysGenuine, NoBatch
<1>5. ASSUME NEW r \in Relays, RelayRollsBack(r) PROVE RelaysGenuine'
  <2>1. \A q \in Relays : relay'[q] \in {relay[q], NoBatch}
    BY <1>0, <1>5 DEF RelayRollsBack
  <2> QED
    BY <1>0, <1>5, <2>1, Monotone DEF RelayRollsBack, RelaysGenuine, NoBatch
<1>6. ASSUME NEW r \in Relays, RelayStep(r) \/ ProduceFails(r) \/ RelayRollsBack(r)
      PROVE  RelaysGenuine'
  BY <1>2, <1>3, <1>4, <1>5, <1>6 DEF RelayStep, CommitBatch, ProduceFails
<1>7. ASSUME NEW m \in Members, MemberMove(m)
      PROVE  UNCHANGED <<marked, relay>>
  BY <1>7 DEF MemberMove, MemberStep, Assign, Poll, PollFails, HandleSucceeds, HandleFails, PublishDeadLetter,
              CommitOffset, DeadLetterTwice, MemberStops, producerVars
<1>8. ASSUME (\E e \in Events : WriteEvent(e)) \/ Repair \/ StartReplay \/ ReplayRecord \/ EndReplay
                \/ UNCHANGED vars
      PROVE  UNCHANGED <<marked, relay>>
  BY <1>8 DEF WriteEvent, Repair, StartReplay, ReplayRecord, EndReplay, vars, producerVars
<1> QED
  BY <1>1, <1>6, <1>7, <1>8 DEF Next, MemberMove

-----------------------------------------------------------------------------
(* Consumption: what lies before an offset or a member's place is settled   *)
(* or was thrown away by a poll, and of what a member has fetched, it still *)
(* has the rest in hand.                                                    *)

CommittedSettled == \A i \in 1..(committed - 1) : Passable(i)

WorkSettled(m) ==
    Working(m) => /\ \A i \in 1..(member[m].next - 1) : Passable(i)
                  /\ member[m].pc = "commit" => Settled(Record(m))

FetchedSettled(m) ==
    \A i \in 1..(member[m].position - 1) :
        Passable(i) \/ (Working(m) /\ i \in member[m].next..member[m].last)

Progress == CommittedSettled /\ \A m \in Members : WorkSettled(m) /\ FetchedSettled(m)

LEMMA PrefixStays ==
    ASSUME Types, Types', Genuine, [Next]_vars, NEW i \in 1..Len(log)
    PROVE  /\ Passable(i) => Passable(i)'
           /\ Settled(log[i]) => Settled(log[i])'
BY Monotone, DiscardedGrows DEF Settled, Passable

LEMMA RangeOfMember ==
    ASSUME Types, NEW m \in Members
    PROVE  /\ member[m].position \in 1..(Len(log) + 1)
           /\ member[m].next \in 1..(Len(log) + 1)
           /\ member[m].last \in 0..Len(log)
           /\ committed \in 1..(Len(log) + 1)
           /\ Len(log) \in Nat
BY ElementsInSet DEF Types, GroupTypes, MemberState

LEMMA CommittedStays ==
    ASSUME Types, Types', Genuine, Progress, [Next]_vars, UNCHANGED committed
    PROVE  CommittedSettled'
BY PrefixStays, ElementsInSet DEF Progress, CommittedSettled, Types, GroupTypes

(* A member that takes no step keeps its place. *)
LEMMA PlaceStays ==
    ASSUME Types, Types', Genuine, Progress, [Next]_vars,
           NEW m \in Members, UNCHANGED member[m]
    PROVE  WorkSettled(m)' /\ FetchedSettled(m)'
<1>1. WorkSettled(m)'
  <2> SUFFICES ASSUME Working(m)'
               PROVE  /\ \A i \in 1..(member[m].next - 1) : Passable(i)'
                      /\ member[m].pc = "commit" => Settled(Record(m))'
    BY DEF WorkSettled
  <2>1. Working(m)
    BY DEF Working
  <2>2. \A i \in 1..(member[m].next - 1) : Passable(i)'
    BY <2>1, PrefixStays, RangeOfMember DEF Progress, WorkSettled
  <2>3. ASSUME member[m].pc = "commit" PROVE Settled(log[member[m].next])'
    BY <2>1, <2>3, PrefixStays, WorkingRecord DEF Progress, WorkSettled
  <2> QED
    BY <2>2, <2>3 DEF Record
<1>2. FetchedSettled(m)'
  <2> SUFFICES ASSUME NEW i \in 1..(member[m].position - 1)
               PROVE  Passable(i)' \/ (Working(m) /\ i \in member[m].next..member[m].last)
    BY DEF FetchedSettled, Working
  <2>1. i \in 1..Len(log)
    BY RangeOfMember
  <2> QED
    BY <2>1, PrefixStays DEF Progress, FetchedSettled
<1> QED
  BY <1>1, <1>2

(* Steps that are not a member's. *)
LEMMA OthersKeepProgress ==
    ASSUME Types, Types', Genuine, Progress, [Next]_vars, UNCHANGED groupVars
    PROVE  Progress'
BY CommittedStays, PlaceStays DEF Progress, groupVars

(* A step of member m keeps Progress when it does so for m. *)
LEMMA MemberKeepsProgress ==
    ASSUME Types, Types', Genuine, Progress, [Next]_vars,
           NEW m \in Members, NEW x, member' = [member EXCEPT ![m] = x],
           UNCHANGED committed \/ CommittedSettled',
           WorkSettled(m)', FetchedSettled(m)'
    PROVE  Progress'
<1>1. \A n \in Members : n # m => UNCHANGED member[n]
  BY DEF Types, GroupTypes
<1> QED
  BY <1>1, CommittedStays, PlaceStays DEF Progress

(* m, which is working, goes to another try or to the dead letter. *)
LEMMA SamePlace ==
    ASSUME Types, Types', Genuine, Progress, [Next]_vars,
           NEW m \in Members, Working(m), UNCHANGED <<committed, log>>,
           NEW x, member' = [member EXCEPT ![m] = x],
           x.position = member[m].position, x.next = member[m].next, x.last = member[m].last,
           x.pc = "commit" => Settled(Record(m))'
    PROVE  Progress'
<1>1. member'[m] = x /\ Working(m)' /\ Record(m)' = log[member[m].next]
  BY DEF Types, GroupTypes, Working, Record
<1>2. \A i \in 1..(member[m].next - 1) : Passable(i)'
  BY PrefixStays, RangeOfMember DEF Progress, WorkSettled
<1>3. WorkSettled(m)'
  BY <1>1, <1>2 DEF WorkSettled
<1>4. FetchedSettled(m)'
  <2> SUFFICES ASSUME NEW i \in 1..(member[m].position - 1)
               PROVE  Passable(i)' \/ i \in member[m].next..member[m].last
    BY <1>1 DEF FetchedSettled
  <2>1. i \in 1..Len(log)
    BY RangeOfMember
  <2> QED
    BY <2>1, PrefixStays DEF Progress, FetchedSettled
<1> QED
  BY <1>3, <1>4, MemberKeepsProgress

LEMMA AssignKeepsProgress ==
    ASSUME Types, Types', Genuine, Progress, [Next]_vars, NEW m \in Members, Assign(m)
    PROVE  Progress'
<1> DEFINE x == [member[m] EXCEPT !.position = committed]
<1>1. member' = [member EXCEPT ![m] = x] /\ UNCHANGED <<committed, log>>
  BY DEF Assign
<1>2. member[m] \in MemberState(Len(log))
  BY DEF Types, GroupTypes
<1>3. x.position = committed /\ x.next = member[m].next /\ x.last = member[m].last
      /\ x.pc = member[m].pc
  BY <1>2 DEF MemberState
<1> HIDE DEF x
<1>4. member'[m] = x
  BY <1>1 DEF Types, GroupTypes
<1>5. WorkSettled(m)'
  <2> SUFFICES ASSUME Working(m)' PROVE WorkSettled(m)'
    BY DEF WorkSettled
  <2>1. Working(m)
    BY <1>3, <1>4 DEF Working
  <2>2. \A i \in 1..(member[m].next - 1) : Passable(i)'
    BY <2>1, PrefixStays, RangeOfMember DEF Progress, WorkSettled
  <2>3. member'[m].next = member[m].next /\ member'[m].pc = member[m].pc
        /\ member[m].next \in 1..Len(log)
    BY <1>3, <1>4, <2>1, WorkingRecord
  <2>4. ASSUME member[m].pc = "commit" PROVE Settled(log[member[m].next])'
    <3>1. Settled(log[member[m].next])
      BY <2>1, <2>4 DEF Progress, WorkSettled, Record
    <3>2. \A i \in 1..Len(log) : Settled(log[i]) => Settled(log[i])'
      BY PrefixStays
    <3> QED
      BY <2>3, <3>1, <3>2
  <2> QED
    BY <2>2, <2>3, <2>4 DEF WorkSettled, Record
<1>6. CommittedSettled'
  BY <1>1, CommittedStays
<1>7. FetchedSettled(m)'
  BY <1>1, <1>3, <1>4, <1>6 DEF FetchedSettled, CommittedSettled
<1> QED
  BY <1>1, <1>5, <1>7, MemberKeepsProgress

LEMMA PollKeepsProgress ==
    ASSUME Types, Types', Genuine, Progress, [Next]_vars, NEW m \in Members, Poll(m)
    PROVE  Progress'
<1> DEFINE x == [position |-> Len(log) + 1, next |-> member[m].position, last |-> Len(log),
                 pc |-> "handle", attempt |-> 1]
<1>1. member' = [member EXCEPT ![m] = x] /\ UNCHANGED <<committed, log>>
      /\ ~Working(m) /\ member[m].position <= Len(log)
  BY DEF Poll
<1>2. x.position = Len(log) + 1 /\ x.next = member[m].position /\ x.last = Len(log)
      /\ x.pc = "handle"
  OBVIOUS
<1> HIDE DEF x
<1>3. member'[m] = x
  BY <1>1 DEF Types, GroupTypes
<1>4. \A i \in 1..(member[m].position - 1) : Passable(i)'
  BY <1>1, PrefixStays, RangeOfMember DEF Progress, FetchedSettled
<1>5. Working(m)'
  BY <1>1, <1>2, <1>3 DEF Working
<1>6. WorkSettled(m)'
  BY <1>2, <1>3, <1>4 DEF WorkSettled
<1>7. FetchedSettled(m)'
  BY <1>2, <1>3, <1>4, <1>5, RangeOfMember DEF FetchedSettled
<1> QED
  BY <1>1, <1>6, <1>7, MemberKeepsProgress

(* What is thrown away is behind the member, and in the history. *)
LEMMA PollFailsKeepsProgress ==
    ASSUME Types, Types', Genuine, Progress, [Next]_vars, NEW m \in Members, PollFails(m)
    PROVE  Progress'
<1> DEFINE x == [member[m] EXCEPT !.position = Len(log) + 1]
<1>1. /\ member' = [member EXCEPT ![m] = x] /\ UNCHANGED <<committed, log>>
      /\ ~Working(m) /\ discarded' = discarded \cup (member[m].position..Len(log))
  BY DEF PollFails
<1>2. x.position = Len(log) + 1 /\ x.next = member[m].next /\ x.last = member[m].last
  BY DEF Types, GroupTypes, MemberState
<1> HIDE DEF x
<1>3. member'[m] = x /\ ~Working(m)'
  BY <1>1, <1>2 DEF Types, GroupTypes, Working
<1>4. \A i \in 1..Len(log) : Passable(i)'
  <2> SUFFICES ASSUME NEW i \in 1..Len(log) PROVE Passable(i)'
    OBVIOUS
  <2>1. CASE i \in 1..(member[m].position - 1)
    BY <1>1, <2>1, PrefixStays DEF Progress, FetchedSettled
  <2>2. CASE i \in member[m].position..Len(log)
    BY <1>1, <2>2 DEF Passable
  <2> QED
    BY <2>1, <2>2, RangeOfMember
<1>5. FetchedSettled(m)'
  BY <1>1, <1>2, <1>3, <1>4, RangeOfMember DEF FetchedSettled
<1> QED
  BY <1>1, <1>3, <1>5, MemberKeepsProgress DEF WorkSettled

LEMMA CommitKeepsProgress ==
    ASSUME Types, Types', Genuine, Progress, [Next]_vars, NEW m \in Members, CommitOffset(m)
    PROVE  Progress'
<1> DEFINE next == member[m].next
<1>1. /\ member' = [member EXCEPT ![m] = NextRecord(m)] /\ UNCHANGED log
      /\ committed' = next + 1 \/ UNCHANGED committed
      /\ Working(m) /\ member[m].pc = "commit"
  BY DEF CommitOffset
<1>2. member'[m] = NextRecord(m)
  BY <1>1 DEF Types, GroupTypes
<1>3. /\ NextRecord(m).position = member[m].position /\ NextRecord(m).next = next + 1
      /\ NextRecord(m).last = member[m].last /\ NextRecord(m).pc = "handle"
  BY DEF NextRecord
<1>4. next \in 1..Len(log) /\ Len(log) \in Nat
  BY <1>1, WorkingRecord
<1>5. \A i \in 1..next : Passable(i)
  <2>1. Passable(next) /\ \A i \in 1..(next - 1) : Passable(i)
    BY <1>1, WorkingRecord DEF Progress, WorkSettled, Passable
  <2> QED
    BY <1>4, <2>1
<1>6. \A i \in 1..next : Passable(i)'
  BY <1>4, <1>5, PrefixStays
<1>7. WorkSettled(m)'
  BY <1>2, <1>3, <1>4, <1>6 DEF WorkSettled
<1>8. UNCHANGED committed \/ CommittedSettled'
  BY <1>1, <1>4, <1>6 DEF CommittedSettled
<1>9. FetchedSettled(m)'
  <2> SUFFICES ASSUME NEW i \in 1..(member[m].position - 1)
               PROVE  Passable(i)' \/ (Working(m)' /\ i \in (next + 1)..member[m].last)
    BY <1>2, <1>3 DEF FetchedSettled
  <2>1. i \in 1..Len(log)
    BY RangeOfMember
  <2>2. CASE Passable(i)
    BY <2>1, <2>2, PrefixStays
  <2>3. CASE i \in next..member[m].last /\ i # next
    <3>1. i \in (next + 1)..member[m].last /\ next + 1 <= member[m].last
      BY <1>4, <2>3, RangeOfMember
    <3>2. Working(m)'
      BY <1>2, <1>3, <3>1 DEF Working
    <3> QED
      BY <3>1, <3>2
  <2>4. CASE i = next
    BY <1>4, <1>6, <2>4
  <2> QED
    BY <2>2, <2>3, <2>4 DEF Progress, FetchedSettled
<1> QED
  BY <1>1, <1>7, <1>8, <1>9, MemberKeepsProgress

LEMMA StopKeepsProgress ==
    ASSUME Types, Types', Genuine, Progress, [Next]_vars, NEW m \in Members, MemberStops(m)
    PROVE  Progress'
<1>1. member' = [member EXCEPT ![m] = Stopped] /\ UNCHANGED committed
  BY DEF MemberStops
<1>2. member'[m] = Stopped
  BY <1>1 DEF Types, GroupTypes
<1>3. WorkSettled(m)' /\ FetchedSettled(m)'
  BY <1>2 DEF WorkSettled, FetchedSettled, Working, Stopped
<1> QED
  BY <1>1, <1>3, MemberKeepsProgress

LEMMA NextKeepsProgress ==
    ASSUME Types, Types', Genuine, Progress, [Next]_vars
    PROVE  Progress'
<1>1. ASSUME NEW m \in Members, HandleSucceeds(m) PROVE Progress'
  <2> DEFINE x == [member[m] EXCEPT !.pc = "commit"]
  <2>1. /\ Working(m) /\ UNCHANGED <<committed, log>> /\ member' = [member EXCEPT ![m] = x]
        /\ TakeEffect(Record(m)) /\ UNCHANGED dlq
    BY <1>1 DEF HandleSucceeds
  <2>2. x.position = member[m].position /\ x.next = member[m].next /\ x.last = member[m].last
    BY <2>1, WorkingRecord DEF MemberState
  <2> HIDE DEF x
  <2>3. Record(m)' = Record(m)
    BY <2>1, <2>2 DEF Record, Types, GroupTypes
  <2>4. Settled(Record(m))'
    BY <2>1, <2>3 DEF TakeEffect, Settled
  <2> QED
    BY <2>1, <2>2, <2>4, SamePlace
<1>2. ASSUME NEW m \in Members, HandleFails(m) PROVE Progress'
  <2> DEFINE x == [member[m] EXCEPT !.attempt = @ + 1]
             y == [member[m] EXCEPT !.pc = "deadletter"]
  <2>1. /\ Working(m) /\ UNCHANGED <<committed, log>> /\ member[m].pc = "handle"
        /\ member' = [member EXCEPT ![m] = x] \/ member' = [member EXCEPT ![m] = y]
    BY <1>2 DEF HandleFails
  <2>2. /\ x.position = member[m].position /\ x.next = member[m].next /\ x.last = member[m].last
        /\ x.pc = "handle"
    BY <2>1, WorkingRecord DEF MemberState
  <2>3. /\ y.position = member[m].position /\ y.next = member[m].next /\ y.last = member[m].last
        /\ y.pc = "deadletter"
    BY <2>1, WorkingRecord DEF MemberState
  <2> HIDE DEF x, y
  <2> QED
    BY <2>1, <2>2, <2>3, SamePlace
<1>3. ASSUME NEW m \in Members, PublishDeadLetter(m) PROVE Progress'
  <2> DEFINE x == [member[m] EXCEPT !.pc = "commit"]
  <2>1. /\ Working(m) /\ UNCHANGED <<committed, log>> /\ member' = [member EXCEPT ![m] = x]
        /\ dlq' = Append(dlq, Record(m))
    BY <1>3 DEF PublishDeadLetter
  <2>2. x.position = member[m].position /\ x.next = member[m].next /\ x.last = member[m].last
    BY <2>1, WorkingRecord DEF MemberState
  <2> HIDE DEF x
  <2>3. Record(m)' = Record(m)
    BY <2>1, <2>2 DEF Record, Types, GroupTypes
  <2>4. Record(m) \in Elements(dlq')
    BY <2>1, WorkingRecord, ElementsOfAppend DEF Types
  <2>5. Settled(Record(m))'
    BY <2>3, <2>4 DEF Settled
  <2> QED
    BY <2>1, <2>2, <2>5, SamePlace
<1>4. ASSUME NEW m \in Members,
             MemberMove(m)
      PROVE  Progress'
  <2>1. CASE DeadLetterTwice(m)
    BY <2>1, OthersKeepProgress DEF DeadLetterTwice
  <2> QED
    BY <1>1, <1>2, <1>3, <1>4, <2>1, AssignKeepsProgress, PollKeepsProgress,
       PollFailsKeepsProgress, CommitKeepsProgress, StopKeepsProgress DEF MemberMove, MemberStep
<1>5. ASSUME NEW r \in Relays, RelayStep(r) \/ ProduceFails(r) \/ RelayRollsBack(r)
      PROVE  UNCHANGED groupVars
  BY <1>5 DEF RelayStep, TakeBatch, Produce, CommitBatch, ProduceFails, RelayRollsBack
<1>6. ASSUME (\E e \in Events : WriteEvent(e)) \/ Repair \/ StartReplay \/ ReplayRecord \/ EndReplay
                \/ UNCHANGED vars
      PROVE  UNCHANGED groupVars
  BY <1>6 DEF WriteEvent, Repair, StartReplay, ReplayRecord, EndReplay, vars, groupVars
<1> QED
  BY <1>4, <1>5, <1>6, OthersKeepProgress DEF Next, MemberMove

(* The inductive invariant. *)
IInv == Types /\ Genuine /\ Progress

LEMMA InitIInv == ASSUME Init PROVE IInv
<1>1. Elements(<< >>) = {}
  BY DEF Elements
<1>2. TopicsGenuine /\ InboxIsEffects
  BY <1>1 DEF Init, TopicsGenuine, InboxIsEffects
<1>3. RelaysGenuine
  BY DEF Init, RelaysGenuine, NoBatch
<1>4. CommittedSettled
  BY DEF Init, CommittedSettled
<1>5. \A m \in Members : WorkSettled(m) /\ FetchedSettled(m)
  BY DEF Init, WorkSettled, FetchedSettled, Working, Stopped
<1> QED
  BY <1>2, <1>3, <1>4, <1>5, InitTypes DEF IInv, Genuine, Progress

LEMMA IInvInductive == ASSUME IInv, [Next]_vars PROVE IInv'
BY NextKeepsTypes, TopicsStayGenuine, RelaysStayGenuine, InboxStaysEffects, NextKeepsProgress
   DEF IInv, Genuine

(* Whatever relays, members and replays do, events come from the outbox and *)
(* offsets only pass what is settled or was thrown away by a poll.         *)
THEOREM InvariantHolds == Spec => []IInv
BY InitIInv, IInvInductive, PTL DEF Spec

-----------------------------------------------------------------------------
(* What follows *)

(* Run: no offset is committed over, and no member goes past, a record that *)
(* was neither handled nor dead-lettered, except one that a poll returned   *)
(* with an error; for any log, any number of members, and any interleaving  *)
(* of their failures and rebalances.                                       *)
THEOREM NothingElseSkipped == Spec => []SkippedOnlyByFailedPoll
<1>1. IInv => SkippedOnlyByFailedPoll
  BY DEF IInv, Progress, CommittedSettled, WorkSettled, SkippedOnlyByFailedPoll
<1> QED
  BY <1>1, InvariantHolds, PTL

(* publishBatch and Run together: a marked event is in the topic, and what  *)
(* the group has passed there is settled or was thrown away by a poll; so   *)
(* an event that no poll threw away is pending, ahead of the group or       *)
(* settled, and never lost.                                                *)
THEOREM NothingElseLost == Spec => []LostOnlyByFailedPoll
<1>1. ASSUME IInv, NEW e \in Elements(outbox), e \in marked,
             ~ \E i \in committed..Len(log) : log[i] = e
      PROVE  Settled(e) \/ Discarded(e)
  <2>1. PICK i \in 1..Len(log) : log[i] = e
    BY <1>1 DEF IInv, Genuine, RelaysGenuine, Elements
  <2>2. committed \in 1..(Len(log) + 1) /\ Len(log) \in Nat
    BY <1>1, ElementsInSet DEF IInv, Types, GroupTypes
  <2>3. i \in 1..(committed - 1)
    BY <1>1, <2>1, <2>2
  <2> QED
    BY <1>1, <2>1, <2>3 DEF IInv, Progress, CommittedSettled, Passable, Discarded
<1>2. IInv => LostOnlyByFailedPoll
  BY <1>1 DEF LostOnlyByFailedPoll
<1> QED
  BY <1>2, InvariantHolds, PTL

(* The inbox makes one effect of any number of records of an event, and     *)
(* only of events that were written: Messaging implements EffectPromise.   *)
THEOREM PromiseKept == Spec => ImplementsPromise
<1>1. Init => Promise!PromiseInit
  BY DEF Init, Promise!PromiseInit
<1>2. ASSUME IInv, [Next]_vars PROVE [Promise!PromiseNext]_(Promise!promiseVars)
  <2>1. CASE UNCHANGED outbox /\ UNCHANGED effects
    BY <2>1 DEF Promise!promiseVars
  <2>2. ASSUME NEW e \in Events, e \notin Elements(outbox), outbox' = Append(outbox, e),
               UNCHANGED effects
        PROVE  Promise!PromiseNext
    BY <2>2 DEF Promise!PromiseNext, Promise!Write, Promise!Elements, Elements
  <2>3. ASSUME NEW e \in Elements(log), e \notin inbox, effects' = Append(effects, e),
               UNCHANGED outbox
        PROVE  Promise!PromiseNext
    <3>1. e \in Elements(outbox) /\ e \notin Elements(effects)
      BY <1>2, <2>3 DEF IInv, Genuine, TopicsGenuine, InboxIsEffects
    <3>2. e \in Events
      BY <1>2, <3>1, ElementsInSet DEF IInv, Types, ProducerTypes
    <3> QED
      BY <2>3, <3>1, <3>2 DEF Promise!PromiseNext, Promise!Act, Promise!Elements, Elements
  <2>4. OutboxGrows /\ EffectsGrow
    BY <1>2, OutboxSteps, EffectsSteps DEF IInv
  <2> QED
    BY <2>1, <2>2, <2>3, <2>4 DEF OutboxGrows, EffectsGrow
<1> QED
  BY <1>1, <1>2, InvariantHolds, PTL DEF Spec, ImplementsPromise, Promise!PromiseSpec

-----------------------------------------------------------------------------
(* Order.  While the relays take turns, a relay holds the oldest events that *)
(* are not yet marked, so the log has an event only after all that occurred  *)
(* before it; and since no member skips a record but with a failed poll, an  *)
(* event takes effect only after all that occurred before it are settled or  *)
(* thrown away.                                                              *)

OutboxDistinct == \A i, j \in 1..Len(outbox) : outbox[i] = outbox[j] => i = j

LogInOrder ==
    \A d, e \in Elements(outbox) : Before(d, e) =>
        \A j \in 1..Len(log) : log[j] = e => \E i \in 1..(j - 1) : log[i] = d

BatchesOldest ==
    \A d, e \in Elements(outbox) : Before(d, e) =>
        \A r \in Relays : e \in relay[r].batch => d \in marked \cup relay[r].batch

OlderAnswered == \A d, e \in Elements(outbox) : Before(d, e) /\ e \in inbox => Answered(d)

InTurn == LogInOrder /\ BatchesOldest /\ OlderAnswered /\ EffectsInOrder

(* Before is a strict total order on the rows of the outbox... *)
LEMMA BeforeOrders ==
    ASSUME Types, OutboxDistinct
    PROVE  /\ \A d, e : Before(d, e) => d \in Elements(outbox) /\ e \in Elements(outbox)
           /\ \A d, e \in Elements(outbox) : d # e => Before(d, e) \/ Before(e, d)
           /\ \A c, d, e : Before(c, d) /\ Before(d, e) => Before(c, e)
<1>0. Len(outbox) \in Nat
  BY ElementsInSet DEF Types, ProducerTypes
<1>1. \A d, e : Before(d, e) => d \in Elements(outbox) /\ e \in Elements(outbox)
  BY DEF Before, Elements
<1>2. \A d, e \in Elements(outbox) : d # e => Before(d, e) \/ Before(e, d)
  BY <1>0 DEF Before, Elements
<1>3. \A c, d, e : Before(c, d) /\ Before(d, e) => Before(c, e)
  <2> SUFFICES ASSUME NEW c, NEW d, NEW e, Before(c, d), Before(d, e) PROVE Before(c, e)
    OBVIOUS
  <2>1. PICK i, j \in 1..Len(outbox) : i < j /\ outbox[i] = c /\ outbox[j] = d
    BY DEF Before
  <2>2. PICK k, l \in 1..Len(outbox) : k < l /\ outbox[k] = d /\ outbox[l] = e
    BY DEF Before
  <2>3. j = k
    BY <2>1, <2>2 DEF OutboxDistinct
  <2>4. i < l
    BY <1>0, <2>1, <2>2, <2>3
  <2> QED
    BY <2>1, <2>2, <2>4 DEF Before
<1> QED
  BY <1>1, <1>2, <1>3

(* ...to which a new event is added at the end. *)
LEMMA BeforeStays ==
    ASSUME Types, [Next]_vars, NEW d, NEW e
    PROVE  /\ Before(d, e) => Before(d, e)'
           /\ Before(d, e)' /\ e \in Elements(outbox) => Before(d, e)
<1>1. CASE UNCHANGED outbox
  BY <1>1 DEF Before
<1>2. ASSUME NEW x \in Events, x \notin Elements(outbox), outbox' = Append(outbox, x)
      PROVE  /\ Before(d, e) => Before(d, e)'
             /\ Before(d, e)' /\ e \in Elements(outbox) => Before(d, e)
  <2>1. /\ Len(outbox') = Len(outbox) + 1 /\ Len(outbox) \in Nat
        /\ \A i \in 1..Len(outbox) : outbox'[i] = outbox[i]
        /\ outbox'[Len(outbox) + 1] = x
    BY <1>2, ElementsOfAppend, ElementsInSet DEF Types, ProducerTypes
  <2>2. Before(d, e) => Before(d, e)'
    BY <2>1 DEF Before
  <2>3. ASSUME Before(d, e)', e \in Elements(outbox) PROVE Before(d, e)
    <3>1. PICK i, j \in 1..Len(outbox') : i < j /\ outbox'[i] = d /\ outbox'[j] = e
      BY <2>3 DEF Before
    <3>2. j \in 1..Len(outbox) /\ i \in 1..Len(outbox)
      BY <1>2, <2>1, <2>3, <3>1
    <3> QED
      BY <2>1, <3>1, <3>2 DEF Before
  <2> QED
    BY <2>2, <2>3
<1> QED
  BY <1>1, <1>2, OutboxSteps DEF OutboxGrows

LEMMA OutboxStaysDistinct ==
    ASSUME Types, OutboxDistinct, [Next]_vars
    PROVE  OutboxDistinct'
<1>1. CASE UNCHANGED outbox
  BY <1>1 DEF OutboxDistinct
<1>2. ASSUME NEW x \in Events, x \notin Elements(outbox), outbox' = Append(outbox, x)
      PROVE  OutboxDistinct'
  <2>1. /\ Len(outbox') = Len(outbox) + 1 /\ Len(outbox) \in Nat
        /\ \A i \in 1..Len(outbox) : outbox'[i] = outbox[i] /\ outbox[i] # x
        /\ outbox'[Len(outbox) + 1] = x
    BY <1>2, ElementsOfAppend, ElementsInSet DEF Types, ProducerTypes
  <2> QED
    BY <2>1 DEF OutboxDistinct
<1> QED
  BY <1>1, <1>2, OutboxSteps DEF OutboxGrows

(* An event older than one in a relay's hands is marked, in its hands too, *)
(* or, if the relay has produced all that it has of the older ones, in the *)
(* log already.                                                           *)
LEMMA ProducedInOrder ==
    ASSUME IInv, OutboxDistinct, BatchesOldest, NEW r \in Relays, NEW e \in ToProduce(r)
    PROVE  /\ e \in Elements(outbox)
           /\ \A d \in Elements(outbox) : Before(d, e) => d \in Elements(log)
<1>1. /\ e \in relay[r].batch /\ e \in Elements(outbox)
      /\ \A d \in relay[r].batch \ relay[r].done : ~Before(d, e)
  BY DEF ToProduce, Oldest, IInv, Genuine, RelaysGenuine
<1>2. ASSUME NEW d \in Elements(outbox), Before(d, e) PROVE d \in Elements(log)
  <2>1. d \in marked \cup relay[r].batch
    BY <1>1, <1>2 DEF BatchesOldest
  <2>2. d \in marked \cup relay[r].done
    BY <1>1, <1>2, <2>1
  <2> QED
    BY <2>2 DEF IInv, Genuine, RelaysGenuine
<1> QED
  BY <1>1, <1>2

(* So whatever is appended to the log finds all that is older there: what a *)
(* relay produces, and what dlq-replay repeats.                             *)
LEMMA AppendedInOrder ==
    ASSUME IInv, OutboxDistinct, LogInOrder, BatchesOldest, [Next]_vars
    PROVE  \/ UNCHANGED log
           \/ \E e \in Elements(outbox) :
                 /\ log' = Append(log, e)
                 /\ \A d \in Elements(outbox) : Before(d, e) => d \in Elements(log)
<1> DEFINE InOrder ==
      \/ UNCHANGED log
      \/ \E e \in Elements(outbox) :
            /\ log' = Append(log, e)
            /\ \A d \in Elements(outbox) : Before(d, e) => d \in Elements(log)
<1>1. ASSUME NEW r \in Relays, RelayStep(r) \/ ProduceFails(r) \/ RelayRollsBack(r)
      PROVE  InOrder
  <2>1. UNCHANGED log \/ \E e \in ToProduce(r) : log' = Append(log, e)
    BY <1>1 DEF RelayStep, TakeBatch, Produce, CommitBatch, ProduceFails, RelayRollsBack
  <2> QED
    BY <2>1, ProducedInOrder
<1>2. CASE ReplayRecord
  <2>1. PICK e \in Elements(log) : log' = Append(log, e)
    BY <1>2 DEF ReplayRecord, Elements, IInv, Genuine, TopicsGenuine
  <2>2. PICK j \in 1..Len(log) : log[j] = e
    BY DEF Elements
  <2>3. ASSUME NEW d \in Elements(outbox), Before(d, e) PROVE d \in Elements(log)
    <3>1. e \in Elements(outbox) /\ Len(log) \in Nat
      BY ElementsInSet DEF IInv, Genuine, TopicsGenuine, Types
    <3>2. PICK i \in 1..(j - 1) : log[i] = d
      BY <2>2, <2>3, <3>1 DEF LogInOrder
    <3>3. i \in 1..Len(log)
      BY <2>2, <3>1, <3>2
    <3> QED
      BY <3>2, <3>3 DEF Elements
  <2> QED
    BY <2>1, <2>3 DEF IInv, Genuine, TopicsGenuine
<1>3. ASSUME NEW m \in Members, MemberMove(m)
      PROVE  UNCHANGED log
  BY <1>3 DEF MemberMove, MemberStep, Assign, Poll, PollFails, HandleSucceeds, HandleFails, PublishDeadLetter,
              CommitOffset, DeadLetterTwice, MemberStops
<1>4. ASSUME (\E e \in Events : WriteEvent(e)) \/ Repair \/ StartReplay \/ EndReplay
                \/ UNCHANGED vars
      PROVE  UNCHANGED log
  BY <1>4 DEF WriteEvent, Repair, StartReplay, EndReplay, vars
<1> QED
  BY <1>1, <1>2, <1>3, <1>4 DEF Next, MemberMove

LEMMA LogStaysInOrder ==
    ASSUME IInv, IInv', OutboxDistinct, LogInOrder, BatchesOldest, [Next]_vars
    PROVE  LogInOrder'
<1> SUFFICES ASSUME NEW d \in Elements(outbox'), NEW e \in Elements(outbox'), Before(d, e)',
                    NEW j \in 1..Len(log'), log'[j] = e
             PROVE  \E i \in 1..(j - 1) : log'[i] = d
  BY DEF LogInOrder
<1>0. /\ Types /\ Types' /\ Genuine /\ log \in Seq(Events) /\ Len(log) \in Nat
      /\ Elements(log) \subseteq Elements(outbox) /\ Elements(outbox) \subseteq Events
  BY ElementsInSet DEF IInv, Types, ProducerTypes, Genuine, TopicsGenuine
<1>1. \A i \in 1..Len(log) : log'[i] = log[i]
  BY <1>0, Monotone
<1>2. ASSUME j \in 1..Len(log) PROVE \E i \in 1..(j - 1) : log'[i] = d
  <2>1. log[j] = e /\ e \in Elements(outbox)
    BY <1>0, <1>1, <1>2, ElementsInSet
  <2>2. Before(d, e) /\ d \in Elements(outbox)
    BY <1>0, <2>1, BeforeStays, BeforeOrders
  <2>3. PICK i \in 1..(j - 1) : log[i] = d
    BY <1>2, <2>1, <2>2 DEF LogInOrder
  <2> QED
    BY <1>0, <1>1, <1>2, <2>3
<1>3. ASSUME NEW x \in Elements(outbox), log' = Append(log, x),
             \A c \in Elements(outbox) : Before(c, x) => c \in Elements(log),
             j \notin 1..Len(log)
      PROVE  \E i \in 1..(j - 1) : log'[i] = d
  <2>1. j = Len(log) + 1 /\ e = x
    BY <1>0, <1>3
  <2>2. Before(d, x) /\ d \in Elements(outbox)
    BY <1>0, <2>1, BeforeStays, BeforeOrders
  <2>3. PICK i \in 1..Len(log) : log[i] = d
    BY <1>3, <2>2 DEF Elements
  <2> QED
    BY <1>0, <1>1, <2>1, <2>3
<1> QED
  BY <1>2, <1>3, AppendedInOrder

(* A relay takes the oldest rows that are pending.  When no other has a *)
(* batch, every row that is older than one it takes is marked or taken.  *)
LEMMA TakenOldest ==
    ASSUME IInv, OutboxDistinct, NEW r \in Relays, TakeBatch(r), ~Overlap',
           NEW d \in Elements(outbox), NEW e \in relay'[r].batch, Before(d, e)
    PROVE  d \in marked \cup relay'[r].batch
<1> DEFINE Older(x) == {c \in Pending : Before(c, x)}
<1>0. Types /\ relay \in [Relays -> [batch : SUBSET Events, done : SUBSET Events]]
  BY DEF IInv, Types, ProducerTypes
<1>1. /\ relay'[r].batch = {x \in Pending : Cardinality(Older(x)) < BatchSize}
      /\ \A s \in Relays : s # r => relay'[s].batch = relay[s].batch
      /\ relay[r].batch = {}
  BY <1>0 DEF TakeBatch
<1>2. \A s \in Relays : relay[s].batch = {}
  BY <1>1 DEF Overlap
<1>3. SUFFICES ASSUME d \notin marked PROVE d \in relay'[r].batch
  OBVIOUS
<1>4. d \in Pending
  BY <1>2, <1>3 DEF Pending
<1>5. IsFiniteSet(Older(e))
  <2>1. IsFiniteSet(Elements(outbox))
    <3>1. IsFiniteSet(1..Len(outbox))
      BY <1>0, ElementsInSet, FS_Interval DEF Types, ProducerTypes
    <3>2. outbox \in Surjection(1..Len(outbox), Elements(outbox))
      BY <1>0 DEF Types, ProducerTypes, Elements, Surjection
    <3> QED
      BY <3>1, <3>2, FS_Surjection
  <2>2. Older(e) \in SUBSET Elements(outbox)
    BY DEF Pending
  <2> QED
    BY <2>1, <2>2, FS_Subset
<1>6. Older(d) \in SUBSET Older(e)
  BY <1>0, BeforeOrders
<1>7. /\ Cardinality(Older(d)) \in Nat /\ Cardinality(Older(e)) \in Nat
      /\ Cardinality(Older(d)) <= Cardinality(Older(e))
  BY <1>5, <1>6, FS_Subset, FS_CardinalityType
<1>8. Cardinality(Older(e)) < BatchSize
  BY <1>1
<1> HIDE DEF Older
<1>9. Cardinality(Older(d)) < BatchSize
  BY <1>7, <1>8
<1> QED
  BY <1>1, <1>4, <1>9

(* Any other step only gives batches up, once their marks are committed or *)
(* for another relay to take.                                             *)
LEMMA BatchesShrink ==
    ASSUME Types, [Next]_vars, NEW r \in Relays, ~TakeBatch(r)
    PROVE  /\ relay'[r].batch \in {relay[r].batch, {}}
           /\ marked \subseteq marked'
<1>0. relay \in [Relays -> [batch : SUBSET Events, done : SUBSET Events]]
  BY DEF Types, ProducerTypes
<1>1. CASE UNCHANGED <<relay, marked>>
  BY <1>0, <1>1
<1>2. ASSUME NEW s \in Relays, RelayStep(s) \/ ProduceFails(s) \/ RelayRollsBack(s)
      PROVE  /\ relay'[r].batch \in {relay[r].batch, {}}
             /\ marked \subseteq marked'
  <2>1. CASE TakeBatch(s)
    <3>1. s # r /\ UNCHANGED marked /\ \A q \in Relays : q # s => relay'[q] = relay[q]
      BY <1>0, <2>1 DEF TakeBatch
    <3> QED
      BY <3>1
  <2>2. CASE Produce(s)
    BY <1>0, <2>2 DEF Produce
  <2>3. CASE CommitBatch(s) \/ ProduceFails(s)
    BY <1>0, <2>3 DEF CommitBatch, ProduceFails, CommitMarks, NoBatch
  <2>4. CASE RelayRollsBack(s)
    BY <1>0, <2>4 DEF RelayRollsBack, NoBatch
  <2> QED
    BY <1>2, <2>1, <2>2, <2>3, <2>4 DEF RelayStep
<1>3. ASSUME NEW m \in Members, MemberMove(m)
      PROVE  UNCHANGED <<marked, relay>>
  BY <1>3 DEF MemberMove, MemberStep, Assign, Poll, PollFails, HandleSucceeds, HandleFails, PublishDeadLetter,
              CommitOffset, DeadLetterTwice, MemberStops, producerVars
<1>4. ASSUME (\E e \in Events : WriteEvent(e)) \/ Repair \/ StartReplay \/ ReplayRecord \/ EndReplay
                \/ UNCHANGED vars
      PROVE  UNCHANGED <<marked, relay>>
  BY <1>4 DEF WriteEvent, Repair, StartReplay, ReplayRecord, EndReplay, vars, producerVars
<1> QED
  BY <1>1, <1>2, <1>3, <1>4 DEF Next, MemberMove

LEMMA BatchesStayOldest ==
    ASSUME IInv, IInv', OutboxDistinct, BatchesOldest, [Next]_vars, ~Overlap'
    PROVE  BatchesOldest'
<1> SUFFICES ASSUME NEW d \in Elements(outbox'), NEW e \in Elements(outbox'), Before(d, e)',
                    NEW r \in Relays, e \in relay'[r].batch
             PROVE  d \in marked' \cup relay'[r].batch
  BY DEF BatchesOldest
<1>0. Types
  BY DEF IInv
<1>1. CASE TakeBatch(r)
  <2>1. UNCHANGED <<outbox, marked>>
    BY <1>1 DEF TakeBatch
  <2>2. Before(d, e)
    BY <1>0, <2>1, BeforeStays
  <2> QED
    BY <1>1, <2>1, <2>2, TakenOldest
<1>2. CASE ~TakeBatch(r)
  <2>1. relay'[r].batch = relay[r].batch /\ marked \subseteq marked'
    BY <1>0, <1>2, BatchesShrink
  <2>2. e \in Elements(outbox)
    BY <2>1 DEF IInv, Genuine, RelaysGenuine
  <2>3. Before(d, e) /\ d \in Elements(outbox)
    BY <1>0, <2>2, BeforeStays, BeforeOrders
  <2> QED
    BY <2>1, <2>2, <2>3 DEF BatchesOldest
<1> QED
  BY <1>1, <1>2

(* What takes effect comes after what is older in the log, and no member *)
(* is past what is neither settled nor thrown away by a poll.           *)
LEMMA EffectAfterOlder ==
    ASSUME IInv, LogInOrder, NEW m \in Members, Working(m),
           NEW d \in Elements(outbox), NEW e \in Elements(outbox), Before(d, e), e = Record(m)
    PROVE  Answered(d)
<1>1. /\ member[m].next \in 1..Len(log) /\ e = log[member[m].next]
  BY WorkingRecord DEF IInv
<1>2. PICK i \in 1..(member[m].next - 1) : log[i] = d
  BY <1>1 DEF LogInOrder
<1> QED
  BY <1>2 DEF IInv, Progress, WorkSettled, Passable, Answered, Discarded

LEMMA OlderStayAnswered ==
    ASSUME IInv, IInv', OutboxDistinct, LogInOrder, OlderAnswered, [Next]_vars
    PROVE  OlderAnswered'
<1> SUFFICES ASSUME NEW d \in Elements(outbox'), NEW e \in Elements(outbox'), Before(d, e)',
                    e \in inbox'
             PROVE  Answered(d)'
  BY DEF OlderAnswered
<1>0. Types /\ Types' /\ Genuine
  BY DEF IInv
<1>1. e \in Elements(outbox) => Before(d, e) /\ d \in Elements(outbox)
  BY <1>0, BeforeStays, BeforeOrders
<1>2. CASE e \in inbox
  <2>1. e \in Elements(outbox)
    BY <1>0, <1>2 DEF Genuine, InboxIsEffects, TopicsGenuine
  <2>2. Answered(d)
    BY <1>1, <1>2, <2>1 DEF OlderAnswered
  <2> QED
    BY <1>0, <2>2, AnsweredStays
<1>3. CASE e \notin inbox
  <2>1. PICK m \in Members : Working(m) /\ e = Record(m) /\ e \in Elements(log)
    BY <1>0, <1>3, EffectsSteps DEF EffectsGrow
  <2>2. e \in Elements(outbox)
    BY <1>0, <2>1 DEF Genuine, TopicsGenuine
  <2>3. Answered(d)
    BY <1>1, <2>1, <2>2, EffectAfterOlder
  <2> QED
    BY <1>0, <2>3, AnsweredStays
<1> QED
  BY <1>2, <1>3

LEMMA EffectsStayInOrder ==
    ASSUME IInv, IInv', OutboxDistinct, OlderAnswered, EffectsInOrder, [Next]_vars
    PROVE  EffectsInOrder'
<1> SUFFICES ASSUME NEW i \in 1..Len(effects'), NEW j \in 1..Len(effects'), i < j
             PROVE  Before(effects[i], effects[j])' \/ Late(effects[j])'
  BY DEF EffectsInOrder
<1>0. Types /\ Types' /\ Genuine /\ effects \in Seq(Supported) /\ Len(effects) \in Nat
  BY ElementsInSet DEF IInv, Types, ConsumerTypes
<1>1. PICK d, e : d = effects'[i] /\ e = effects'[j]
  OBVIOUS
<1>2. \A x : Late(x) => Late(x)'
  BY <1>0, Monotone, DiscardedGrows DEF Late, Discarded, Types, GroupTypes
<1>3. ASSUME i \in 1..Len(effects), j \in 1..Len(effects), effects[i] = d, effects[j] = e
      PROVE  Before(d, e)' \/ Late(e)'
  BY <1>0, <1>2, <1>3, BeforeStays DEF EffectsInOrder
<1>4. CASE UNCHANGED effects
  BY <1>1, <1>3, <1>4 DEF Before
<1>5. ASSUME NEW x \in Elements(log), x \in Supported, x \notin inbox,
             effects' = Append(effects, x)
      PROVE  Before(d, e)' \/ Late(e)'
  <2>1. /\ Len(effects') = Len(effects) + 1 /\ effects'[Len(effects) + 1] = x
        /\ \A k \in 1..Len(effects) : effects'[k] = effects[k]
    BY <1>0, <1>5, ElementsOfAppend
  <2>2. i \in 1..Len(effects) /\ effects[i] = d
    BY <1>0, <1>1, <2>1
  <2>3. CASE j = Len(effects) + 1
    <3>1. d \in inbox /\ e = x /\ d # e
      BY <1>0, <1>1, <1>5, <2>1, <2>2, <2>3 DEF Genuine, InboxIsEffects, Elements
    <3>2. d \in Elements(outbox) /\ e \in Elements(outbox)
      BY <1>0, <1>5, <3>1 DEF Genuine, InboxIsEffects, TopicsGenuine
    <3>3. CASE Before(d, e)
      BY <1>0, <3>3, BeforeStays
    <3>4. CASE Before(e, d)
      <4>1. Answered(e)
        BY <3>1, <3>2, <3>4 DEF OlderAnswered
      <4>2. e \in Elements(dlq) \/ Discarded(e)
        BY <1>5, <3>1, <4>1 DEF Answered, Settled
      <4> QED
        BY <1>2, <4>2 DEF Late
    <3> QED
      BY <1>0, <3>1, <3>2, <3>3, <3>4, BeforeOrders
  <2>4. CASE j \in 1..Len(effects)
    BY <1>1, <1>3, <2>1, <2>2, <2>4
  <2> QED
    BY <1>0, <2>1, <2>3, <2>4
<1>6. Before(d, e)' \/ Late(e)'
  BY <1>0, <1>1, <1>3, <1>4, <1>5, EffectsSteps DEF EffectsGrow
<1> QED
  BY <1>1, <1>6 DEF Before

(* The inductive invariant while no two relays have overlapped. *)
TurnsInv == IInv /\ OutboxDistinct /\ (overlapped \/ InTurn)

(* publishBatch, Run and Process together: as long as the relays of the     *)
(* replicas take turns, effects follow the order in which the events of the *)
(* aggregate occurred, whatever fails, is repeated or replayed; only what   *)
(* was dead-lettered, or thrown away by a poll, is late.                    *)
THEOREM OrderKeptInTurn == TurnsSpec => []InOrderUnlessOverlapped
<1>1. TurnsInit => TurnsInv
  <2> SUFFICES ASSUME TurnsInit PROVE TurnsInv
    OBVIOUS
  <2>1. IInv
    BY InitIInv DEF TurnsInit
  <2>2. Elements(outbox) = {} /\ outbox = << >> /\ effects = << >>
    BY DEF TurnsInit, Init, Elements
  <2>3. OutboxDistinct /\ InTurn
    BY <2>2 DEF OutboxDistinct, InTurn, LogInOrder, BatchesOldest, OlderAnswered, EffectsInOrder
  <2> QED
    BY <2>1, <2>3 DEF TurnsInv
<1>2. ASSUME TurnsInv, [TurnsNext]_turnVars PROVE TurnsInv'
  <2>1. [Next]_vars /\ IInv /\ OutboxDistinct
    BY <1>2 DEF TurnsNext, turnVars, TurnsInv
  <2>2. IInv' /\ OutboxDistinct'
    BY <2>1, IInvInductive, OutboxStaysDistinct DEF IInv
  <2>3. CASE overlapped'
    BY <2>2, <2>3 DEF TurnsInv
  <2>4. CASE ~overlapped'
    <3>1. ~overlapped /\ InTurn
      <4>1. overlapped => overlapped'
        <5>1. CASE TurnsNext
          BY <5>1, Zenon DEF TurnsNext
        <5>2. CASE UNCHANGED turnVars
          BY <5>2 DEF turnVars
        <5> QED
          BY <1>2, <5>1, <5>2
      <4> QED
        BY <1>2, <2>4, <4>1, Zenon DEF TurnsInv
    <3>2. CASE TurnsNext
      <4>1. ~Overlap'
        BY <2>4, <3>2 DEF TurnsNext
      <4>2. InTurn'
        BY <2>1, <2>2, <3>1, <4>1, LogStaysInOrder, BatchesStayOldest, OlderStayAnswered,
           EffectsStayInOrder DEF InTurn
      <4> QED
        BY <2>2, <4>2 DEF TurnsInv
    <3>3. CASE UNCHANGED turnVars
      <4>1. InTurn'
        BY <3>1, <3>3 DEF turnVars, vars, InTurn, LogInOrder, BatchesOldest, OlderAnswered,
                          EffectsInOrder, Before, Answered, Settled, Discarded, Late,
                          Elements
      <4> QED
        BY <2>2, <4>1 DEF TurnsInv
    <3> QED
      BY <1>2, <3>2, <3>3
  <2> QED
    BY <2>3, <2>4
<1>3. TurnsInv => InOrderUnlessOverlapped
  BY DEF TurnsInv, InTurn, InOrderUnlessOverlapped
<1> QED
  BY <1>1, <1>2, <1>3, PTL DEF TurnsSpec
=============================================================================
