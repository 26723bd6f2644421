----------------------------- MODULE FillIngestion -----------------------------
(***************************************************************************)
(* The fill stream of one account: trading publishes one entry per filled   *)
(* order on the account's partition of ledger:fills, a member of the        *)
(* portfolio-ledger group books each entry in the ledger, and entries that  *)
(* cannot be booked are parked on the dead-letter topic, which an operator  *)
(* replays (services/portfolio/src/tasks/fill_ingestion.py, dlq_replay.py,  *)
(* ledger/ingestion.py, libs/events consumer.py under RetryForever).        *)
(*                                                                         *)
(* Orders are for one share of one symbol in one sleeve, so a lot is the    *)
(* buy that opened it, and the i-th booked sell closes the i-th booked buy. *)
(***************************************************************************)
EXTENDS Naturals, Sequences, FiniteSets

CONSTANTS
    Buys,           \* orders that buy a share
    Sells,          \* orders that sell a share, without a published cost basis
    Garbage,        \* entries that do not decode or translate
    Pods,           \* members of the consumer group
    Nobody,         \* the partition is not assigned
    MaxEntries,     \* bound: entries published on the partition
    MaxFaults       \* bound: crashes, rebalances, database and publish errors

Entries == Buys \cup Sells \cup Garbage

ASSUME FillConstants ==
    /\ Buys \cap Sells = {} /\ Garbage \cap (Buys \cup Sells) = {}
    /\ Nobody \notin Pods
    /\ MaxEntries \in Nat /\ MaxFaults \in Nat

VARIABLES
    topic,      \* the partition's log of entries
    committed,  \* the group's committed offset: entries 1..committed are done
    owner,      \* the member the partition is assigned to
    worker,     \* what each pod's consumer is doing
    ledger,     \* the account's committed fills, in ledger order
    frozen,     \* the sleeve's status is FROZEN
    dlq,        \* the dead-letter topic
    purged,     \* entries 1..purged of the dead-letter topic are deleted
    replay,     \* the operator's replay tool
    faults,     \* crashes, rebalances, database and publish errors so far
    late,       \* history: a fill was booked that the group had committed past
    dropped     \* history: the entries whose parking failed

vars == <<topic, committed, owner, worker, ledger, frozen, dlq, purged, replay, faults,
          late, dropped>>

history == <<late, dropped>>

\* pos is the offset of the entry a consumer handles or has just handled.
Idle(pos) == [at |-> "idle", pos |-> pos, lot |-> Nobody, new |-> FALSE,
              freeze |-> FALSE]

NoReplay == [at |-> "off", next |-> 0, target |-> 0]

Init ==
    /\ topic = <<>>
    /\ committed = 0
    /\ owner = Nobody
    /\ worker = [p \in Pods |-> Idle(0)]
    /\ ledger = <<>>
    /\ frozen = FALSE
    /\ dlq = <<>>
    /\ purged = 0
    /\ replay = NoReplay
    /\ faults = 0
    /\ late = FALSE
    /\ dropped = {}

-----------------------------------------------------------------------------

\* Plausible bug: the event id is derived from the delivery as well.
DeliveryEventId(e, pos) == <<e, pos>>

\* _event_id_from_client_order_id: from the order, so that every delivery of a fill has the same.
EventId(e, pos) == <<e, 0>>

Booked(e) == \E i \in 1..Len(ledger) : ledger[i].order = e

IsBuy(fill) == fill.order \in Buys

IsSell(fill) == fill.order \in Sells

\* open_lots: the booked buys that no booked sell has closed, oldest first.
OpenLots ==
    LET bought == SelectSeq(ledger, IsBuy)
        sold == Len(SelectSeq(ledger, IsSell))
    IN  SubSeq(bought, sold + 1, Len(bought))

Entry(p) == topic[worker[p].pos]

Become(p, state) == worker' = [worker EXCEPT ![p].at = state]

Fault ==
    /\ faults < MaxFaults
    /\ faults' = faults + 1

-----------------------------------------------------------------------------
(* The publisher (trading) and the group coordinator.                      *)

\* One entry per filled order, in the order trading gets to publish them; an
\* entry is published again when trading republishes terminal orders.
Publish(e) ==
    /\ Len(topic) < MaxEntries
    /\ topic' = Append(topic, e)
    /\ UNCHANGED <<committed, owner, worker, ledger, frozen, dlq, purged, replay, faults, history>>

\* The coordinator assigns the partition: p resumes at the committed offset.
\* A former owner keeps handling the entry it has, but can no longer commit.
Assign(p) ==
    /\ owner = Nobody
    /\ worker[p].at = "idle"
    /\ owner' = p
    /\ worker' = [worker EXCEPT ![p] = Idle(committed)]
    /\ UNCHANGED <<topic, committed, ledger, frozen, dlq, purged, replay, faults, history>>

Rebalance ==
    /\ owner # Nobody
    /\ Fault
    /\ owner' = Nobody
    /\ UNCHANGED <<topic, committed, worker, ledger, frozen, dlq, purged, replay, history>>

Crash(p) ==
    /\ Fault
    /\ worker' = [worker EXCEPT ![p] = Idle(0)]
    /\ owner' = IF owner = p THEN Nobody ELSE owner
    /\ UNCHANGED <<topic, committed, ledger, frozen, dlq, purged, replay, history>>

-----------------------------------------------------------------------------
(* One entry, under StreamConsumer._handle_one_retry_forever.              *)

Fetch(p) ==
    /\ owner = p
    /\ worker[p].at = "idle"
    /\ worker[p].pos < Len(topic)
    /\ worker' = [worker EXCEPT ![p] = [Idle(@.pos + 1) EXCEPT !.at = "handle"]]
    /\ UNCHANGED <<topic, committed, owner, ledger, frozen, dlq, purged, replay, faults, history>>

\* Plausible bug: an entry that does not translate counts as transient.
TranslateRetries(p) ==
    /\ worker[p].at = "handle"
    /\ Become(p, IF Entry(p) \in Garbage THEN "handle" ELSE "enrich")
    /\ UNCHANGED <<topic, committed, owner, ledger, frozen, dlq, purged, replay, faults, history>>

\* An entry that does not decode or translate is poison.
Translate(p) ==
    /\ worker[p].at = "handle"
    /\ Become(p, IF Entry(p) \in Garbage THEN "poison" ELSE "enrich")
    /\ UNCHANGED <<topic, committed, owner, ledger, frozen, dlq, purged, replay, faults, history>>

\* Plausible bug: a sell takes its basis from the newest lot.
EnrichNewest(p) ==
    /\ worker[p].at = "enrich"
    /\ IF Entry(p) \in Sells /\ OpenLots = <<>>
       THEN Become(p, "poison")
       ELSE worker' = [worker EXCEPT ![p].at = "append",
                                     ![p].lot = IF Entry(p) \in Sells
                                                THEN OpenLots[Len(OpenLots)].order ELSE Nobody]
    /\ UNCHANGED <<topic, committed, owner, ledger, frozen, dlq, purged, replay, faults, history>>

\* persist_append up to its INSERT (the sleeve being open): a sell takes its
\* basis from the oldest open lot; enrich_sell_fill quarantines it when the lots
\* are insufficient.
Enrich(p) ==
    /\ worker[p].at = "enrich"
    /\ IF Entry(p) \in Sells /\ OpenLots = <<>>
       THEN Become(p, "poison")
       ELSE worker' = [worker EXCEPT ![p].at = "append",
                                     ![p].lot = IF Entry(p) \in Sells
                                                THEN Head(OpenLots).order ELSE Nobody]
    /\ UNCHANGED <<topic, committed, owner, ledger, frozen, dlq, purged, replay, faults, history>>

\* The row p writes.
Fill(p) ==
    [id |-> EventId(Entry(p), worker[p].pos), order |-> Entry(p), lot |-> worker[p].lot]

Oversold(fills) == Len(SelectSeq(fills, IsSell)) > Len(SelectSeq(fills, IsBuy))

\* LedgerWriter.append: the INSERT waits for a transaction that has written the same
\* event id, and does nothing if a row has it.  Then _freeze_if_invariant_violated
\* projects the rows committed by now and the transaction's own.
Write(p) ==
    /\ worker[p].at = "append"
    /\ \A q \in Pods \ {p} : worker[q].at = "commit" /\ worker[q].new => Fill(q).id # Fill(p).id
    /\ LET new == \A i \in 1..Len(ledger) : ledger[i].id # Fill(p).id
       IN  worker' = [worker EXCEPT ![p].at = "commit", ![p].new = new,
                          ![p].freeze = Oversold(IF new THEN Append(ledger, Fill(p)) ELSE ledger)]
    /\ UNCHANGED <<topic, committed, owner, ledger, frozen, dlq, purged, replay, faults, history>>

Commit(p) ==
    /\ ledger' = IF worker[p].new THEN Append(ledger, Fill(p)) ELSE ledger
    /\ frozen' = (frozen \/ worker[p].freeze)
    /\ late' = (late \/ (worker[p].new /\ worker[p].pos <= committed))

Persist(p) ==
    /\ worker[p].at = "commit"
    /\ Commit(p)
    /\ Become(p, "ack")
    /\ UNCHANGED <<topic, committed, owner, dlq, purged, replay, faults, dropped>>

\* A database error, with the transaction rolled back, or with the commit done
\* and its answer lost: the handler is run again in place.
PersistFails(p) ==
    /\ worker[p].at \in {"enrich", "append", "commit"}
    /\ Fault
    /\ \/ UNCHANGED <<ledger, frozen, late>>
       \/ worker[p].at = "commit" /\ Commit(p)
    /\ Become(p, "handle")
    /\ UNCHANGED <<topic, committed, owner, dlq, purged, replay, dropped>>

\* _quarantine parks the raw entry and acks; _dead_letter swallows a failed
\* publish, so the entry is acked either way.
Park(p) ==
    /\ worker[p].at = "poison"
    /\ dlq' = Append(dlq, Entry(p))
    /\ Become(p, "ack")
    /\ UNCHANGED <<topic, committed, owner, ledger, frozen, purged, replay, faults, history>>

ParkFails(p) ==
    /\ worker[p].at = "poison"
    /\ Fault
    /\ dropped' = dropped \cup {Entry(p)}
    /\ Become(p, "ack")
    /\ UNCHANGED <<topic, committed, owner, ledger, frozen, dlq, purged, replay, late>>

\* Plausible bug: the offset committed is one entry further.
AckNext(p) ==
    /\ worker[p].at = "ack"
    /\ committed' = IF owner = p THEN worker[p].pos + 1 ELSE committed
    /\ worker' = [worker EXCEPT ![p] = Idle(IF owner = p THEN @.pos ELSE 0)]
    /\ UNCHANGED <<topic, owner, ledger, frozen, dlq, purged, replay, faults, history>>

\* Commits the offset after the entry; a member that lost the partition fails
\* to, and its consumer starts over.
Ack(p) ==
    /\ worker[p].at = "ack"
    /\ committed' = IF owner = p THEN worker[p].pos ELSE committed
    /\ worker' = [worker EXCEPT ![p] = Idle(IF owner = p THEN @.pos ELSE 0)]
    /\ UNCHANGED <<topic, owner, ledger, frozen, dlq, purged, replay, faults, history>>

-----------------------------------------------------------------------------
(* replay_dlq: a target of at most the depth (--max), one republish per     *)
(* entry, one purge.                                                       *)

ReplayStart ==
    /\ replay.at = "off"
    /\ Len(dlq) > purged
    /\ \E target \in purged+1..Len(dlq) :
          replay' = [at |-> "on", next |-> purged + 1, target |-> target]
    /\ UNCHANGED <<topic, committed, owner, worker, ledger, frozen, dlq, purged, faults, history>>

ReplayOne ==
    /\ replay.at = "on"
    /\ replay.next <= replay.target
    /\ Len(topic) < MaxEntries
    /\ topic' = Append(topic, dlq[replay.next])
    /\ replay' = [replay EXCEPT !.next = @ + 1]
    /\ UNCHANGED <<committed, owner, worker, ledger, frozen, dlq, purged, faults, history>>

\* Plausible bug: a purge of all the topic holds, re-parked entries included.
PurgeAll ==
    /\ replay.at = "on"
    /\ replay.next > replay.target
    /\ purged' = Len(dlq)
    /\ replay' = NoReplay
    /\ UNCHANGED <<topic, committed, owner, worker, ledger, frozen, dlq, faults, history>>

\* Purges up to the highest entry drained: what is re-parked meanwhile stays.
ReplayPurge ==
    /\ replay.at = "on"
    /\ replay.next > replay.target
    /\ purged' = replay.target
    /\ replay' = NoReplay
    /\ UNCHANGED <<topic, committed, owner, worker, ledger, frozen, dlq, faults, history>>

\* The tool dies before its purge; the operator may run it again.
ReplayCrash ==
    /\ replay.at = "on"
    /\ Fault
    /\ replay' = NoReplay
    /\ UNCHANGED <<topic, committed, owner, worker, ledger, frozen, dlq, purged, history>>

-----------------------------------------------------------------------------

Consume(p) ==
    \/ Fetch(p) \/ Translate(p) \/ Enrich(p) \/ Write(p) \/ Persist(p)
    \/ Park(p) \/ ParkFails(p) \/ Ack(p)

Next ==
    \/ \E e \in Entries : Publish(e)
    \/ \E p \in Pods : Assign(p) \/ Crash(p) \/ Consume(p) \/ PersistFails(p)
    \/ Rebalance
    \/ ReplayStart \/ ReplayOne \/ ReplayPurge \/ ReplayCrash

\* The consumers keep running (their tasks are supervised), and the group
\* coordinator assigns a free partition to some member.
Fairness ==
    /\ \A p \in Pods : WF_vars(Consume(p))
    /\ WF_vars(\E p \in Pods : Assign(p))

Spec == Init /\ [][Next]_vars /\ Fairness

-----------------------------------------------------------------------------

\* The variables have their types; a booked sell carries the lot it closes.
TypeOK ==
    /\ topic \in Seq(Entries) /\ dlq \in Seq(Entries)
    /\ committed \in 0..Len(topic)
    /\ owner \in Pods \cup {Nobody}
    /\ worker \in [Pods -> [at : {"idle", "handle", "enrich", "append", "commit", "poison", "ack"},
                            pos : 0..Len(topic), lot : Buys \cup {Nobody}, new : BOOLEAN,
                            freeze : BOOLEAN]]
    /\ \A i \in 1..Len(ledger) : \/ ledger[i].order \in Buys /\ ledger[i].lot = Nobody
                                 \/ ledger[i].order \in Sells /\ ledger[i].lot \in Buys
    /\ frozen \in BOOLEAN
    /\ purged \in 0..Len(dlq)
    /\ replay \in [at : {"off", "on"}, next : Nat, target : 0..Len(dlq)]
    /\ faults \in 0..MaxFaults
    /\ late \in BOOLEAN /\ dropped \subseteq Entries

\* At-least-once delivery and event ids derived from the order make booking
\* exactly-once: a fill that is redelivered after its commit or its commit's lost
\* answer, republished, replayed, or handled by the old and the new owner of the
\* partition at a time, has one row (_event_id_from_client_order_id, LedgerWriter.append).
BookedOnce ==
    \A i, j \in 1..Len(ledger) : ledger[i].order = ledger[j].order => i = j

\* The basis that a sell was enriched with, some time before its INSERT, is the
\* lot that the fold closes at its place in the ledger, also when an evicted member
\* and the new owner handle the entry at a time.  Exempt are ledgers where an evicted
\* member booked a fill after the new owner had parked the entry and gone on
\* (persist_append, enrich_sell_fill).
BasisIsFifo ==
    LET bought == SelectSeq(ledger, IsBuy)
        sold == SelectSeq(ledger, IsSell)
    IN  ~late => \A i \in 1..Len(sold) : i <= Len(bought) /\ sold[i].lot = bought[i].order

\* Booked, parked, or waiting on the partition.
Accounted(e) ==
    \/ Booked(e)
    \/ \E i \in purged+1..Len(dlq) : dlq[i] = e
    \/ \E i \in committed+1..Len(topic) : topic[i] = e

\* No fill is lost: an entry the group has committed past is booked, parked, or
\* waiting on the partition again.  Exempt is an entry whose dead-letter publish
\* failed, which the code loses (_quarantine, _dead_letter, replay_dlq).
NoFillLost == \A i \in 1..committed : Accounted(topic[i]) \/ topic[i] \in dropped

\* The group keeps up: every published entry is committed past in the end, so
\* neither poison nor a stuck member wedges the partition.
EntriesAreHandled ==
    \A i \in 1..MaxEntries : (Len(topic) >= i) ~> (committed >= i)

\* A re-delivered fill is a no-op at the writer (ingestion.py): an entry whose
\* fill is already booked is never quarantined.
RedeliveryIsNoOp ==
    [][\A p \in Pods : worker[p].at = "enrich" /\ worker'[p].at = "poison"
                          => ~Booked(Entry(p))]_vars
=============================================================================
