----------------------------- MODULE Messaging -----------------------------
(***************************************************************************)
(* The way of an event: outbox row, relay, Kafka, consumer with its three  *)
(* tries, dead letter topic, replay.                                       *)
(*                                                                         *)
(* The events are those of one aggregate in one service's outbox: they     *)
(* share a Kafka key, hence one partition of the source topic and one of   *)
(* its dead letter topic.  The consumer is one group, with                 *)
(* notification-worker's handler: an inbox row and one effect per event.   *)
(* Offsets count from 1; committed is the offset a new owner starts from.  *)
(***************************************************************************)
EXTENDS Naturals, Sequences, FiniteSets

CONSTANTS
    Events,       \* event ids
    Supported,    \* the events whose type the consumer acts on
    Poison,       \* the events its handler refuses until it is repaired
    Relays,       \* replicas of the producing service, each with its relay
    Members,      \* replicas of the consumer
    NoMember,
    BatchSize,    \* rows a relay takes at a time (50)
    MaxAttempts,  \* tries of the handler (3)
    ReplayLimit,  \* --limit of dlq-replay (10)
    MaxReplays,   \* bound on the runs of dlq-replay
    MaxFaults     \* bound on failures of any kind

ASSUME MessagingAssumption ==
    /\ Supported \subseteq Events
    /\ Poison \subseteq Events
    /\ NoMember \notin Members
    /\ BatchSize \in Nat
    /\ MaxAttempts \in Nat \ {0}
    /\ ReplayLimit \in Nat
    /\ MaxReplays \in Nat
    /\ MaxFaults \in Nat

VARIABLES
    outbox,      \* the outbox table in the order of occurred_at
    marked,      \* the rows with published_at
    relay,       \* per relay, its open transaction: rows locked, rows marked in it
    log,         \* the partition of the source topic
    dlq,         \* the partition of the dead letter topic
    committed,   \* the group's offset
    owner,       \* the member the partition is assigned to
    member,      \* per member, its fetch position and the records it is working through
    discarded,   \* history: offsets of the records that polls with an error threw away
    inbox,       \* processed_events
    effects,     \* notification_log
    repaired,    \* the cause of the poison has been fixed
    replayer,    \* dlq-replay: the next dead letter to republish, 0 when not running
    replays,     \* runs of dlq-replay so far
    faults       \* failures so far

producerVars == <<outbox, marked, relay>>
groupVars == <<committed, owner, member, discarded>>
consumerVars == <<inbox, effects, repaired>>
replayVars == <<replayer, replays>>
vars == <<outbox, marked, relay, log, dlq, committed, owner, member, discarded, inbox, effects,
          repaired, replayer, replays, faults>>

Elements(s) == {s[i] : i \in 1..Len(s)}

NoBatch == [batch |-> {}, done |-> {}]
Stopped == [position |-> 1, next |-> 1, last |-> 0, pc |-> "handle", attempt |-> 1]

Init ==
    /\ outbox = << >> /\ marked = {}
    /\ relay = [r \in Relays |-> NoBatch]
    /\ log = << >> /\ dlq = << >>
    /\ committed = 1 /\ owner = NoMember
    /\ member = [m \in Members |-> Stopped]
    /\ discarded = {}
    /\ inbox = {} /\ effects = << >>
    /\ repaired = FALSE
    /\ replayer = 0 /\ replays = 0
    /\ faults = 0

(* A failure of the environment; their number is bounded. *)
Fault ==
    /\ faults < MaxFaults
    /\ faults' = faults + 1

(***************************************************************************)
(* Producer and relay                                                      *)
(***************************************************************************)

(* outbox.Insert in a transaction that commits. *)
WriteEvent(e) ==
    /\ e \notin Elements(outbox)
    /\ outbox' = Append(outbox, e)
    /\ UNCHANGED <<marked, relay, log, dlq, groupVars, consumerVars, replayVars, faults>>

Before(d, e) == \E i, j \in 1..Len(outbox) : i < j /\ outbox[i] = d /\ outbox[j] = e

(* Rows that are not published and that no other relay has locked. *)
Pending == {e \in Elements(outbox) : e \notin marked /\ \A r \in Relays : e \notin relay[r].batch}

(* Mutation: the rows are taken in no particular order. *)
OldestAny(S) == S

Oldest(S) == {e \in S : \A d \in S : ~Before(d, e)}

(* SELECT ... ORDER BY occurred_at FOR UPDATE SKIP LOCKED LIMIT. *)
TakeBatch(r) ==
    /\ relay[r].batch = {}
    /\ Pending # {}
    /\ relay' = [relay EXCEPT ![r] =
           [batch |-> {e \in Pending : Cardinality({d \in Pending : Before(d, e)}) < BatchSize},
            done |-> {}]]
    /\ UNCHANGED <<outbox, marked, log, dlq, groupVars, consumerVars, replayVars, faults>>

ToProduce(r) == Oldest(relay[r].batch \ relay[r].done)

(* ProduceSync is acknowledged and the row marked, in the open transaction. *)
Produce(r) ==
    \E e \in ToProduce(r) :
        /\ log' = Append(log, e)
        /\ relay' = [relay EXCEPT ![r].done = @ \cup {e}]
        /\ UNCHANGED <<outbox, marked, dlq, groupVars, consumerVars, replayVars, faults>>

(* Mutation: the whole batch is marked. *)
CommitMarksOfBatch(r) ==
    /\ marked' = marked \cup relay[r].batch
    /\ relay' = [relay EXCEPT ![r] = NoBatch]

CommitMarks(r) ==
    /\ marked' = marked \cup relay[r].done
    /\ relay' = [relay EXCEPT ![r] = NoBatch]

(* ProduceSync fails: what was marked before is committed, the rest is left *)
(* for the next batch.  The broker may have the record all the same.       *)
ProduceFails(r) ==
    /\ Fault
    /\ \E e \in ToProduce(r) : log' \in {log, Append(log, e)}
    /\ CommitMarks(r)
    /\ UNCHANGED <<outbox, dlq, groupVars, consumerVars, replayVars>>

CommitBatch(r) ==
    /\ relay[r].batch # {}
    /\ relay[r].done = relay[r].batch
    /\ CommitMarks(r)
    /\ UNCHANGED <<outbox, log, dlq, groupVars, consumerVars, replayVars, faults>>

(* The relay dies, or PostgreSQL fails an UPDATE or the COMMIT: the marks   *)
(* are rolled back, the records stay published.                            *)
RelayRollsBack(r) ==
    /\ Fault
    /\ relay[r].batch # {}
    /\ relay' = [relay EXCEPT ![r] = NoBatch]
    /\ UNCHANGED <<outbox, marked, log, dlq, groupVars, consumerVars, replayVars>>

(***************************************************************************)
(* Consumer                                                                *)
(***************************************************************************)

(* The group assigns the partition: to anyone when it has no owner, else in *)
(* a rebalance.  The former owner is not stopped in what it has fetched.    *)
Assign(m) ==
    /\ owner # m
    /\ IF owner = NoMember THEN UNCHANGED faults ELSE Fault
    /\ owner' = m
    /\ member' = [member EXCEPT ![m].position = committed]
    /\ UNCHANGED <<producerVars, log, dlq, committed, discarded, consumerVars, replayVars>>

Working(m) == member[m].next <= member[m].last

(* PollRecords returns what the partition has from the fetch position on.   *)
Poll(m) ==
    /\ owner = m
    /\ ~Working(m)
    /\ member[m].position <= Len(log)
    /\ member' = [member EXCEPT ![m] = [position |-> Len(log) + 1, next |-> @.position,
                                        last |-> Len(log), pc |-> "handle", attempt |-> 1]]
    /\ UNCHANGED <<producerVars, log, dlq, committed, owner, discarded, consumerVars, replayVars,
                   faults>>

(* The poll also reports an error, of another partition or of the session.  *)
(* What it returned of this one is not looked at, and the next poll goes on *)
(* behind it: only a new owner, or a restart, fetches it again, unless an   *)
(* offset behind it has been committed by then.                            *)
PollFails(m) ==
    /\ Fault
    /\ owner = m
    /\ ~Working(m)
    /\ member[m].position <= Len(log)
    /\ member' = [member EXCEPT ![m].position = Len(log) + 1]
    /\ discarded' = discarded \cup (member[m].position..Len(log))
    /\ UNCHANGED <<producerVars, log, dlq, committed, owner, consumerVars, replayVars>>

Record(m) == log[member[m].next]

Refused(e) == e \in Poison /\ ~repaired

(* Mutation: the inbox row is written but its conflict is not looked at. *)
TakeEffectAgain(e) ==
    IF e \in Supported
    THEN inbox' = inbox \cup {e} /\ effects' = Append(effects, e)
    ELSE UNCHANGED <<inbox, effects>>

(* The transaction of the handler: a new event id is recorded together with *)
(* its effect; a known one, or a type the consumer does not know, is not an *)
(* error.                                                                   *)
TakeEffect(e) ==
    IF e \in Supported /\ e \notin inbox
    THEN inbox' = inbox \cup {e} /\ effects' = Append(effects, e)
    ELSE UNCHANGED <<inbox, effects>>

(* kafkax.Process: the handler succeeds. *)
HandleSucceeds(m) ==
    /\ Working(m) /\ member[m].pc = "handle"
    /\ ~Refused(Record(m))
    /\ TakeEffect(Record(m))
    /\ member' = [member EXCEPT ![m].pc = "commit"]
    /\ UNCHANGED <<producerVars, log, dlq, committed, owner, discarded, repaired, replayVars, faults>>

(* The handler fails: after the last try the record is dead-lettered.  A    *)
(* handler may fail after its transaction has in fact committed.           *)
HandleFails(m) ==
    /\ Working(m) /\ member[m].pc = "handle"
    /\ IF Refused(Record(m)) THEN UNCHANGED <<inbox, effects, faults>>
       ELSE Fault /\ (TakeEffect(Record(m)) \/ UNCHANGED <<inbox, effects>>)
    /\ member' = IF member[m].attempt < MaxAttempts
                 THEN [member EXCEPT ![m].attempt = @ + 1]
                 ELSE [member EXCEPT ![m].pc = "deadletter"]
    /\ UNCHANGED <<producerVars, log, dlq, committed, owner, discarded, repaired, replayVars>>

(* Mutation: a dead letter that cannot be published is dropped. *)
PublishDeadLetterOnce(m) ==
    /\ Working(m) /\ member[m].pc = "deadletter"
    /\ \/ dlq' = Append(dlq, Record(m)) /\ UNCHANGED faults
       \/ UNCHANGED dlq /\ Fault
    /\ member' = [member EXCEPT ![m].pc = "commit"]
    /\ UNCHANGED <<producerVars, log, committed, owner, discarded, consumerVars, replayVars>>

(* The dead letter is published; until it is, the partition waits. *)
PublishDeadLetter(m) ==
    /\ Working(m) /\ member[m].pc = "deadletter"
    /\ dlq' = Append(dlq, Record(m))
    /\ member' = [member EXCEPT ![m].pc = "commit"]
    /\ UNCHANGED <<producerVars, log, committed, owner, discarded, consumerVars, replayVars, faults>>

(* The publication times out but the broker has it; it will be repeated. *)
DeadLetterTwice(m) ==
    /\ Fault
    /\ Working(m) /\ member[m].pc = "deadletter"
    /\ dlq' = Append(dlq, Record(m))
    /\ UNCHANGED <<producerVars, log, groupVars, consumerVars, replayVars>>

NextRecord(m) ==
    [position |-> member[m].position, next |-> member[m].next + 1, last |-> member[m].last,
     pc |-> "handle", attempt |-> 1]

(* Mutation: the offset of the whole fetch is committed. *)
CommitOffsetOfFetch(m) ==
    /\ Working(m) /\ member[m].pc = "commit"
    /\ committed' = member[m].last + 1 /\ UNCHANGED faults
    /\ member' = [member EXCEPT ![m] = NextRecord(m)]
    /\ UNCHANGED <<producerVars, log, dlq, owner, discarded, consumerVars, replayVars>>

(* Mutation: the one that CommitRecords adds to the offset is added again. *)
CommitOffsetPlusOne(m) ==
    /\ Working(m) /\ member[m].pc = "commit"
    /\ committed' = member[m].next + 2 /\ UNCHANGED faults
    /\ member' = [member EXCEPT ![m] = NextRecord(m)]
    /\ UNCHANGED <<producerVars, log, dlq, owner, discarded, consumerVars, replayVars>>

(* CommitRecords: the group's offset becomes that of the next record, which *)
(* may be behind what another member committed since.  An error is only     *)
(* logged.                                                                  *)
CommitOffset(m) ==
    /\ Working(m) /\ member[m].pc = "commit"
    /\ \/ committed' = member[m].next + 1 /\ UNCHANGED faults
       \/ UNCHANGED committed /\ Fault
    /\ member' = [member EXCEPT ![m] = NextRecord(m)]
    /\ UNCHANGED <<producerVars, log, dlq, owner, discarded, consumerVars, replayVars>>

(* The process ends, also in the middle of a record. *)
MemberStops(m) ==
    /\ Fault
    /\ owner = m \/ Working(m)
    /\ owner' = IF owner = m THEN NoMember ELSE owner
    /\ member' = [member EXCEPT ![m] = Stopped]
    /\ UNCHANGED <<producerVars, log, dlq, committed, discarded, consumerVars, replayVars>>

(* A release of the consumer that accepts what it refused. *)
Repair ==
    /\ ~repaired
    /\ repaired' = TRUE
    /\ UNCHANGED <<producerVars, log, dlq, groupVars, inbox, effects, replayVars, faults>>

(***************************************************************************)
(* dlq-replay --execute                                                    *)
(***************************************************************************)

(* Every run has a group of its own, so it starts at the first dead letter. *)
StartReplay ==
    /\ replayer = 0
    /\ replays < MaxReplays
    /\ replays' = replays + 1
    /\ replayer' = 1
    /\ UNCHANGED <<producerVars, log, dlq, groupVars, consumerVars, faults>>

ReplayRecord ==
    /\ replayer \in 1..Len(dlq)
    /\ replayer <= ReplayLimit
    /\ log' = Append(log, dlq[replayer])
    /\ replayer' = replayer + 1
    /\ UNCHANGED <<producerVars, dlq, groupVars, consumerVars, replays, faults>>

(* The limit, the timeout, an error or the operator ends the run. *)
EndReplay ==
    /\ replayer # 0
    /\ replayer' = 0
    /\ UNCHANGED <<producerVars, log, dlq, groupVars, consumerVars, replays, faults>>

(***************************************************************************)
(* The system                                                              *)
(***************************************************************************)
RelayStep(r) == TakeBatch(r) \/ Produce(r) \/ CommitBatch(r)

MemberStep(m) ==
    \/ Poll(m)
    \/ HandleSucceeds(m) \/ HandleFails(m)
    \/ PublishDeadLetter(m)
    \/ CommitOffset(m)

Next ==
    \/ \E e \in Events : WriteEvent(e)
    \/ \E r \in Relays : RelayStep(r) \/ ProduceFails(r) \/ RelayRollsBack(r)
    \/ \E m \in Members :
          Assign(m) \/ MemberStep(m) \/ PollFails(m) \/ DeadLetterTwice(m) \/ MemberStops(m)
    \/ Repair
    \/ StartReplay \/ ReplayRecord \/ EndReplay

Spec == Init /\ [][Next]_vars

(* Relays poll for ever, Kafka and PostgreSQL answer in the end (failures   *)
(* are finitely many), and a partition without an owner is assigned.        *)
Fairness ==
    /\ \A r \in Relays : WF_vars(RelayStep(r))
    /\ \A m \in Members : WF_vars(MemberStep(m))
    /\ WF_vars(owner = NoMember /\ \E m \in Members : Assign(m))

FairSpec == Spec /\ Fairness

(***************************************************************************)
(* Properties                                                              *)
(***************************************************************************)

(* Types of the tables, of the topics and of the local states: offsets never *)
(* point beyond the end of the log.                                         *)
TypeOK ==
    /\ outbox \in Seq(Events) /\ marked \subseteq Events
    /\ relay \in [Relays -> [batch : SUBSET Events, done : SUBSET Events]]
    /\ log \in Seq(Events) /\ dlq \in Seq(Events)
    /\ committed \in 1..(Len(log) + 1)
    /\ owner \in Members \cup {NoMember}
    /\ member \in [Members -> [position : 1..(Len(log) + 1), next : 1..(Len(log) + 1),
                               last : 0..Len(log), pc : {"handle", "deadletter", "commit"},
                               attempt : 1..MaxAttempts]]
    /\ discarded \subseteq 1..Len(log)
    /\ inbox \subseteq Supported /\ effects \in Seq(Supported)
    /\ repaired \in BOOLEAN
    /\ replayer \in Nat /\ replays \in Nat /\ faults \in Nat

Settled(e) == e \notin Supported \/ e \in inbox \/ e \in Elements(dlq)

(* A record of e was thrown away by a poll. *)
Discarded(e) == \E i \in discarded : log[i] = e

(* README.md:217 and docs/events.md:104: an offset is committed only after  *)
(* the effect or the dead letter.  The error branch of Run breaks that (the *)
(* next commit is behind what it threw away), and is the only way.  Records *)
(* are worked through in order, and a fetch starts where the last one ended *)
(* or at a committed offset; so no offset and no member, however late, goes *)
(* past a record that was neither handled nor dead-lettered, unless a poll  *)
(* threw it away.                                                          *)
Passable(i) == i \in discarded \/ Settled(log[i])

SkippedOnlyByFailedPoll ==
    /\ \A i \in 1..(committed - 1) : Passable(i)
    /\ \A m \in Members : Working(m) => \A i \in 1..(member[m].next - 1) : Passable(i)

(* README.md:160, at least once.  Relays that die or fail between Kafka and *)
(* PostgreSQL, members that stop or overlap and offsets that go back lose   *)
(* no event: until it is settled it is still pending or at or after the     *)
(* committed offset.  Only a poll with an error may lose one.              *)
LostOnlyByFailedPoll ==
    \A e \in Elements(outbox) :
        \/ e \notin marked
        \/ \E i \in committed..Len(log) : log[i] = e
        \/ Settled(e)
        \/ Discarded(e)

(* docs/architecture.md:142: the order is kept within an aggregate.  Effects *)
(* follow the order in which the events occurred; late is only one that was  *)
(* dead-lettered, or thrown away by a poll and fetched again.               *)
Late(e) == e \in Elements(dlq) \/ Discarded(e)

EffectsInOrder ==
    \A i, j \in 1..Len(effects) : i < j => Before(effects[i], effects[j]) \/ Late(effects[j])

Promise == INSTANCE EffectPromise

(* README.md: exactly-once effects by outbox and inbox.  Re-published,      *)
(* redelivered, concurrently handled and replayed records act at most once. *)
ImplementsPromise == Promise!PromiseSpec

(* README.md:160, at least once, in the end.  When failures stop, every     *)
(* event written takes effect or reaches the dead letter topic, unless a    *)
(* poll threw it away: that one waits for a restart, or for ever.           *)
EventsSettle ==
    \A e \in Supported : e \in Elements(outbox) ~> (Settled(e) \/ Discarded(e))
=============================================================================
