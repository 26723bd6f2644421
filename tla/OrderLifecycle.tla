---------------------------- MODULE OrderLifecycle ----------------------------
(***************************************************************************)
(* The orders of one sleeve-attributed live session (services/trading/src): *)
(* the runner submits one order per signal under a deterministic client     *)
(* order id, the broker works it and reports on the trade stream, and the   *)
(* session publishes the order's ledger messages.  Requests can time out    *)
(* and land late, the stream can drop, publishing can fail and the runner   *)
(* can crash at every await (executor/order_executor.py, ledger_events.py,  *)
(* runner/runner.py).                                                       *)
(*                                                                         *)
(* An order buys Qty shares, one at a time.  _sync_positions is no action:   *)
(* in a session that has a sleeve it only alerts.                            *)
(***************************************************************************)
EXTENDS Naturals, Sequences, FiniteSetsExt

CONSTANTS
    Orders,         \* the signals, and with them the client order ids
    Nobody,         \* the runner is not submitting
    Qty,            \* the shares of an order
    Remembered,     \* how many ended orders a runner remembers (512)
    MaxSignals,     \* bound: how often a signal is emitted
    MaxOthers,      \* bound: other orders of the session that end
    MaxFaults       \* bound: crashes, timeouts, failed calls, dropped streams

ASSUME OrderConstants ==
    /\ Nobody \notin Orders
    /\ Qty \in Nat \ {0} /\ Remembered \in Nat
    /\ MaxSignals \in Nat /\ MaxOthers \in Nat /\ MaxFaults \in Nat

VARIABLES
    row,        \* the order's row: status, broker id known, filled quantity
    wire,       \* submissions on their way: "live" has a caller, "stale" has none
    broker,     \* the order at the broker
    feed,       \* the trade events of the account, in order
    runner,     \* the runner: its stage, the order it submits, the answer it got
    signals,    \* how often each signal was emitted
    seen,       \* trade events 1..seen went by on the runner's stream
    local,      \* the runner's memory: position, applied quantities, ended orders
    cancel,     \* the cancel call for each order
    published,  \* the ledger messages published
    others,     \* how many other orders of the session have ended
    faults,
    sent,       \* history: how often an order was submitted
    stranded,   \* history: how often the runner crashed on an order it had not settled
    missed,     \* history: orders with an end the runner did not get to publish
    raced,      \* history: orders marked cancelled with a quantity that is not the final one
    handled,    \* history: the trade events handled since the runner started
    since,      \* history: ends of other orders handled since that of an order
    blind       \* history: the runner was told again what it had no means to recognise

history == <<sent, stranded, missed, raced, handled, since, blind>>

vars == <<row, wire, broker, feed, runner, signals, seen, local, cancel, published, others,
          faults, history>>

Fresh == [pos |-> 0, applied |-> [o \in Orders |-> 0], ended |-> <<>>]

Idle(stage) == [at |-> stage, order |-> Nobody, got |-> "none"]

Init ==
    /\ row = [o \in Orders |-> [st |-> "none", id |-> FALSE, qty |-> 0]]
    /\ wire = [o \in Orders |-> {}]
    /\ broker = [o \in Orders |-> [st |-> "none", qty |-> 0]]
    /\ feed = <<>>
    /\ runner = Idle("down")
    /\ signals = [o \in Orders |-> 0]
    /\ seen = 0
    /\ local = Fresh
    /\ cancel = [o \in Orders |-> "idle"]
    /\ published = {}
    /\ others = 0
    /\ faults = 0
    /\ sent = [o \in Orders |-> 0]
    /\ stranded = [o \in Orders |-> 0]
    /\ missed = {} /\ raced = {} /\ handled = {}
    /\ since = [o \in Orders |-> 0]
    /\ blind = FALSE

Fault ==
    /\ faults < MaxFaults
    /\ faults' = faults + 1

\* A step of the runner's submission.
At(o, step) == runner.at = step /\ runner.order = o

Step(o, step) == runner' = [at |-> step, order |-> o, got |-> "none"]

Up == runner.at \notin {"down", "subscribe"}

\* Plausible bug: the order stays the current one.
DoneKeepsOrder == runner' = [runner EXCEPT !.at = "run"]

Done == runner' = Idle("run")

EndStates == {"filled", "cancelled", "rejected"}

\* The order has ended at the broker with qty shares filled.
IsFinal(o, qty) == broker[o].st \in EndStates /\ broker[o].qty = qty

-----------------------------------------------------------------------------
(* Ledger messages.                                                        *)

\* Plausible bug: a partial fill publishes as well.
MessagesPerPartial(o, st, qty) ==
    (IF qty > 0 THEN {<<"fill", o, qty>>} ELSE {})
      \cup (IF st \in {"cancelled", "rejected"} THEN {<<st, o>>} ELSE {})

\* Plausible bug: the filled portion of a cancelled order is not published.
MessagesFilledOnly(o, st, qty) ==
    (IF st = "filled" /\ qty > 0 THEN {<<"fill", o, qty>>} ELSE {})
      \cup (IF st \in {"cancelled", "rejected"} THEN {<<st, o>>} ELSE {})

\* The messages of an order that reached st with qty shares filled: the fill, or
\* the filled portion, at terminal state only, and the release of the
\* reservation.
Messages(o, st, qty) ==
    (IF st \in {"filled", "cancelled"} /\ qty > 0 THEN {<<"fill", o, qty>>} ELSE {})
      \cup (IF st \in {"cancelled", "rejected"} THEN {<<st, o>>} ELSE {})

\* The ledger keeps the first message under an event id, which a fill derives
\* from its client order id alone.
Publish(messages) ==
    published' = published \cup
        {m \in messages : m[1] = "fill" => ~\E n \in published : n[1] = "fill" /\ n[2] = m[2]}

\* Publishing may fail; the failure is logged and the caller goes on.
TryPublish(messages) ==
    \/ Publish(messages) /\ UNCHANGED faults
    \/ Fault /\ UNCHANGED published

\* What the broker answers about an order, as the row records it.
Adopted(o) ==
    [st |-> IF broker[o].st = "open" /\ broker[o].qty > 0 THEN "partial" ELSE broker[o].st,
     id |-> TRUE, qty |-> broker[o].qty]

-----------------------------------------------------------------------------
(* submit_order, one step per await.                                       *)

Signal(o) ==
    /\ runner.at = "run"
    /\ signals[o] < MaxSignals
    /\ signals' = [signals EXCEPT ![o] = @ + 1]
    /\ Step(o, "look")
    /\ UNCHANGED <<row, wire, broker, feed, seen, local, cancel, published, others,
                   faults, history>>


\* _find_order_by_client_id and _idempotent_replay: an order that was dispatched
\* is returned, a stranded one is adopted from the broker or else resumed.
Look(o) ==
    /\ At(o, "look")
    /\ LET open == row[o].st = "pending" /\ ~row[o].id
       IN  /\ IF row[o].st = "none" THEN Step(o, "record")
              ELSE IF open /\ broker[o].st = "none" THEN Step(o, "send")
              ELSE Done
           /\ row' = IF open /\ broker[o].st # "none" THEN [row EXCEPT ![o] = Adopted(o)]
                     ELSE row
    /\ UNCHANGED <<wire, broker, feed, signals, seen, local, cancel, published, others,
                   faults, history>>

\* The lookup raises: the runner logs it and goes on.
LookFails(o) ==
    /\ At(o, "look")
    /\ row[o].st = "pending" /\ ~row[o].id
    /\ Fault
    /\ Done
    /\ UNCHANGED <<row, wire, broker, feed, signals, seen, local, cancel, published,
                   others, history>>

Record(o) ==
    /\ At(o, "record")
    /\ row' = [row EXCEPT ![o].st = "pending"]
    /\ Step(o, "send")
    /\ UNCHANGED <<wire, broker, feed, signals, seen, local, cancel, published, others,
                   faults, history>>

Send(o) ==
    /\ At(o, "send")
    /\ wire' = [wire EXCEPT ![o] = @ \cup {"live"}]
    /\ sent' = [sent EXCEPT ![o] = @ + 1]
    /\ Step(o, "answer")
    /\ UNCHANGED <<row, broker, feed, signals, seen, local, cancel, published, others,
                   faults, stranded, missed, raced, handled, since, blind>>

\* A trade event: cumulative quantity, whether it is reported, and the event's own.
Report(o, kind, qty, known, inc) ==
    feed' = Append(feed, [order |-> o, kind |-> kind, qty |-> qty, known |-> known, inc |-> inc])

\* A submission lands, and the broker accepts it with the status it answers, or
\* refuses: always when it has an order under this client order id.  The runner
\* hears the answer to the submission it waits for.
Land(o, req, answer) ==
    /\ req \in wire[o]
    /\ answer # "refused" => broker[o].st = "none"
    /\ wire' = [wire EXCEPT ![o] = @ \ {req}]
    /\ LET qty == IF answer = "filled" THEN Qty ELSE 0
       IN  /\ broker' = IF answer = "refused" THEN broker
                        ELSE [broker EXCEPT ![o] = [st |-> answer, qty |-> qty]]
           /\ IF answer \in EndStates THEN Report(o, answer, qty, TRUE, qty) ELSE UNCHANGED feed
    /\ runner' = IF req = "stale" THEN runner
                 ELSE [at |-> IF answer = "refused" THEN "fail" ELSE "save", order |-> o,
                       got |-> IF answer = "refused" THEN "none" ELSE answer]
    /\ UNCHANGED <<row, signals, seen, local, cancel, published, others, faults, history>>

\* No answer in time; the submission may land all the same.
TimeOut(o) ==
    /\ At(o, "answer")
    /\ Fault
    /\ wire' = [wire EXCEPT ![o] = {"stale"}]
    /\ Step(o, "fail")
    /\ UNCHANGED <<row, broker, feed, signals, seen, local, cancel, published, others,
                   history>>

\* The answer is recorded: broker id and status, but no quantity.
Save(o) ==
    /\ At(o, "save")
    /\ row' = [row EXCEPT ![o].st = runner.got, ![o].id = TRUE]
    /\ Step(o, "announce")
    /\ UNCHANGED <<wire, broker, feed, signals, seen, local, cancel, published, others,
                   faults, history>>

\* The reservation.
Announce(o) ==
    /\ At(o, "announce")
    /\ TryPublish({<<"submitted", o>>})
    /\ Done
    /\ UNCHANGED <<row, wire, broker, feed, signals, seen, local, cancel, others,
                   history>>

\* publish_order_submitted raises after the broker accepted and the row says so.
AnnounceFails(o) ==
    /\ At(o, "announce")
    /\ Fault
    /\ Step(o, "fail")
    /\ UNCHANGED <<row, wire, broker, feed, signals, seen, local, cancel, published,
                   others, history>>

\* The except clause: whatever failed, the rejection is published and then the row
\* marked.
Fail(o) ==
    /\ At(o, "fail")
    /\ TryPublish({<<"rejected", o>>})
    /\ Step(o, "mark")
    /\ UNCHANGED <<row, wire, broker, feed, signals, seen, local, cancel, others, history>>

Mark(o) ==
    /\ At(o, "mark")
    /\ row' = [row EXCEPT ![o].st = "rejected"]
    /\ Done
    /\ UNCHANGED <<wire, broker, feed, signals, seen, local, cancel, published, others,
                   faults, history>>

Submit(o) ==
    \/ Look(o) \/ LookFails(o) \/ Record(o) \/ Send(o) \/ TimeOut(o)
    \/ Save(o) \/ Announce(o) \/ AnnounceFails(o) \/ Fail(o) \/ Mark(o)

-----------------------------------------------------------------------------
(* cancel_order, in a request of its own.                                  *)

\* The row is read, and the broker asked if its id is known.  A broker that
\* refuses ends the call; one that accepts, or does not find the order, does not.
CancelBegin(o) ==
    /\ cancel[o] = "idle"
    /\ row[o].st \in {"pending", "open", "partial"}
    /\ cancel' = [cancel EXCEPT ![o] = "asked"]
    /\ UNCHANGED <<row, wire, broker, feed, runner, signals, seen, local, published,
                   others, faults, history>>

CancelEnd(o) ==
    /\ cancel[o] = "asked"
    /\ cancel' = [cancel EXCEPT ![o] = "done"]
    /\ row' = [row EXCEPT ![o].st = "cancelled"]
    /\ TryPublish({<<"cancelled", o>>})
    /\ raced' = IF row[o].qty = 0 \/ IsFinal(o, row[o].qty) THEN raced ELSE raced \cup {o}
    /\ UNCHANGED <<wire, broker, feed, runner, signals, seen, local, others, sent,
                   stranded, missed, handled, since, blind>>

-----------------------------------------------------------------------------
(* The broker.                                                             *)

\* A report may lack the cumulative quantity.
Reported(known) == IF known THEN UNCHANGED faults ELSE Fault

BrokerFills(o, known) ==
    /\ broker[o].st = "open"
    /\ LET qty == broker[o].qty + 1
           st == IF qty = Qty THEN "filled" ELSE "open"
       IN  /\ broker' = [broker EXCEPT ![o] = [st |-> st, qty |-> qty]]
           /\ Report(o, IF qty = Qty THEN "filled" ELSE "partial", qty, known, 1)
    /\ Reported(known)
    /\ UNCHANGED <<row, wire, runner, signals, seen, local, cancel, published, others, history>>

\* A cancel takes effect or the order expires; one that has no fill may still be
\* rejected.
BrokerEnds(o, st, known) ==
    /\ broker[o].st = "open"
    /\ st = "rejected" => broker[o].qty = 0
    /\ broker[o].qty = 0 => known
    /\ broker' = [broker EXCEPT ![o].st = st]
    /\ Report(o, st, broker[o].qty, known, 0)
    /\ Reported(known)
    /\ UNCHANGED <<row, wire, runner, signals, seen, local, cancel, published, others, history>>

-----------------------------------------------------------------------------
(* The trade stream.                                                       *)

Fills(e) == e.kind \in {"partial", "filled"}

\* _terminal_order_ids: the oldest id makes room for a new one.
Remember(o) ==
    LET ids == Append(local.ended, o)
    IN  IF Len(ids) > Remembered THEN Tail(ids) ELSE ids

IsRemembered(o) == \E i \in 1..Len(local.ended) : local.ended[i] = o

\* Without a cumulative quantity the event's own is added up.
Cumulative(e) == IF e.known THEN e.qty ELSE local.applied[e.order] + e.inc

\* Plausible bug: an order whose end was handled is not remembered.
UnappliedForgetting(e) ==
    IF Fills(e) THEN Max({0, Cumulative(e) - local.applied[e.order]}) ELSE 0

\* _unapplied_fill_delta
Unapplied(e) ==
    IF Fills(e) /\ ~IsRemembered(e.order)
    THEN Max({0, Cumulative(e) - local.applied[e.order]})
    ELSE 0

\* _handle_fill_event, _handle_order_canceled, _handle_order_rejected: a repeated
\* fill is skipped while its order is remembered, a repeated cancel is remembered
\* once more.
Apply(e) ==
    LET skipped == Fills(e) /\ IsRemembered(e.order)
    IN  local' = [pos     |-> local.pos + Unapplied(e),
                  applied |-> [local.applied EXCEPT ![e.order] =
                                  IF skipped THEN @
                                  ELSE IF e.kind = "partial" THEN Max({@, Cumulative(e)})
                                  ELSE 0],
                  ended   |-> IF skipped \/ e.kind = "partial" THEN local.ended
                              ELSE Remember(e.order)]

EndHandled(o) == \E i \in handled : feed[i].order = o /\ feed[i].kind \in EndStates

\* One more end was handled after that of each order in ended.
Ages(ended) ==
    [o \in Orders |-> IF o \in ended THEN Min({since[o] + 1, Remembered}) ELSE since[o]]

\* _handle_trade_event: the position first, then the ledger messages, whose
\* publishing may fail.
Handle(e) ==
    /\ Apply(e)
    /\ \/ /\ Publish(Messages(e.order, e.kind, IF e.known THEN e.qty ELSE 0))
          /\ missed' = IF e.kind \in EndStates /\ ~e.known THEN missed \cup {e.order}
                       ELSE missed
          /\ UNCHANGED faults
       \/ /\ e.kind \in EndStates
          /\ Fault
          /\ missed' = missed \cup {e.order}
          /\ UNCHANGED published
    /\ since' = IF e.kind = "partial" THEN since
                ELSE [Ages({o \in Orders \ {e.order} : EndHandled(o)}) EXCEPT ![e.order] =
                         IF e.kind = "filled" /\ EndHandled(e.order) THEN @ ELSE 0]
    /\ UNCHANGED <<row, wire, broker, feed, runner, signals, cancel, others, sent,
                   stranded, raced>>

Deliver ==
    /\ Up
    /\ seen < Len(feed)
    /\ seen' = seen + 1
    /\ handled' = handled \cup {seen + 1}
    /\ Handle(feed[seen + 1])
    /\ UNCHANGED blind

\* The runner cannot tell that this fill is a repetition.
Unrecognised(e) == Fills(e) /\ (~e.known \/ since[e.order] >= Remembered)

\* The stream repeats an event; one the runner cannot recognise, once.
Redeliver(i) ==
    /\ Up
    /\ i \in handled
    /\ Handle(feed[i])
    /\ ~(blind /\ Unrecognised(feed[i]))
    /\ blind' = (blind \/ Unrecognised(feed[i]))
    /\ UNCHANGED <<seen, handled>>

\* Another order of the session ends; of it only the end matters here.
OtherEnds ==
    /\ Up
    /\ others < MaxOthers
    /\ others' = others + 1
    /\ local' = [local EXCEPT !.ended = Remember(Nobody)]
    /\ since' = Ages({o \in Orders : EndHandled(o)})
    /\ UNCHANGED <<row, wire, broker, feed, runner, signals, seen, cancel, published,
                   faults, sent, stranded, missed, raced, handled, blind>>

\* The orders whose end goes by while nobody listens.
Passing == {feed[i].order : i \in {j \in seen+1..Len(feed) : feed[j].kind \in EndStates}}

\* The stream drops and is rebuilt; what went by meanwhile is not repeated.
Drop ==
    /\ Up
    /\ Fault
    /\ seen' = Len(feed)
    /\ missed' = missed \cup Passing
    /\ UNCHANGED <<row, wire, broker, feed, runner, signals, local, cancel, published,
                   others, sent, stranded, raced, handled, since, blind>>

-----------------------------------------------------------------------------
(* The runner's life.                                                      *)

\* The orders recorded and neither settled with the broker nor given up.
Stranded == {o \in Orders : row[o].st = "pending" /\ ~row[o].id}

Crash ==
    /\ runner.at # "down"
    /\ Fault
    /\ runner' = Idle("down")
    /\ wire' = [o \in Orders |-> IF wire[o] = {} THEN {} ELSE {"stale"}]
    /\ local' = Fresh
    /\ stranded' = [o \in Orders |-> stranded[o] + IF o \in Stranded THEN 1 ELSE 0]
    /\ handled' = {}
    /\ since' = [o \in Orders |-> 0]
    /\ blind' = FALSE
    /\ UNCHANGED <<row, broker, feed, signals, seen, cancel, published, others, sent,
                   missed, raced>>

\* start: recover_stranded_orders adopts what the broker has, except where the
\* lookup fails, and rejects the rest; then the terminal orders are published
\* again, if the bus is reached.
Recover ==
    /\ runner.at = "down"
    /\ \E unanswered \in SUBSET Stranded, reached \in BOOLEAN :
          /\ IF unanswered = {} /\ reached THEN UNCHANGED faults ELSE Fault
          /\ row' = [o \in Orders |->
                        IF o \notin Stranded \ unanswered THEN row[o]
                        ELSE IF broker[o].st # "none" THEN Adopted(o)
                        ELSE [row[o] EXCEPT !.st = "rejected"]]
          /\ IF reached THEN Publish(UNION {Messages(o, row'[o].st, row'[o].qty) : o \in Orders})
             ELSE UNCHANGED published
    /\ runner' = Idle("subscribe")
    /\ UNCHANGED <<wire, broker, feed, signals, seen, local, cancel, others, history>>

Subscribe ==
    /\ runner.at = "subscribe"
    /\ Done
    /\ seen' = Len(feed)
    /\ missed' = missed \cup Passing
    /\ UNCHANGED <<row, wire, broker, feed, signals, local, cancel, published, others,
                   faults, sent, stranded, raced, handled, since, blind>>

Terminal(o) == Messages(o, row[o].st, row[o].qty)


\* _ledger_republish_loop; a pass that fails is made up for by a later one.
Republish ==
    /\ Up
    /\ Publish(UNION {Terminal(o) : o \in Orders})
    /\ UNCHANGED <<row, wire, broker, feed, runner, signals, seen, local, cancel, others,
                   faults, history>>

Next ==
    \/ \E o \in Orders : Signal(o) \/ Submit(o)
    \/ \E o \in Orders, req \in {"live", "stale"},
          answer \in {"refused", "open", "filled", "rejected"} : Land(o, req, answer)
    \/ \E o \in Orders : CancelBegin(o) \/ CancelEnd(o)
    \/ \E o \in Orders, known \in BOOLEAN :
          \/ BrokerFills(o, known)
          \/ \E st \in {"cancelled", "rejected"} : BrokerEnds(o, st, known)
    \/ \E i \in 1..Len(feed) : Redeliver(i)
    \/ Deliver \/ OtherEnds \/ Drop
    \/ Crash \/ Recover \/ Subscribe \/ Republish

\* A session is restarted when it is down, its submission goes on while it is
\* up, its stream delivers and its republish loop runs.  The broker may leave an
\* order open for ever.
Fairness ==
    /\ WF_vars(Recover) /\ WF_vars(Subscribe)
    /\ WF_vars(Deliver) /\ WF_vars(Republish)
    /\ \A o \in Orders : WF_vars(Submit(o))

Spec == Init /\ [][Next]_vars /\ Fairness

-----------------------------------------------------------------------------
(* Properties.                                                             *)

Statuses == {"none", "pending", "open", "partial"} \cup EndStates

\* The variables have their types; the runner has an order exactly while it submits
\* one, and remembers only events that its stream delivered.
TypeOK ==
    /\ row \in [Orders -> [st : Statuses, id : BOOLEAN, qty : 0..Qty]]
    /\ wire \in [Orders -> SUBSET {"live", "stale"}]
    /\ broker \in [Orders -> [st : {"none", "open"} \cup EndStates, qty : 0..Qty]]
    /\ feed \in Seq([order : Orders, kind : {"partial"} \cup EndStates, qty : 0..Qty,
                     known : BOOLEAN, inc : 0..Qty])
    /\ runner.order \in Orders \cup {Nobody}
    /\ runner.at \in {"down", "subscribe", "run", "look", "record", "send", "answer", "save",
                      "announce", "fail", "mark"}
    /\ (runner.got = "none") <=> (runner.at # "save")
    /\ (runner.order = Nobody) <=> (runner.at \in {"down", "subscribe", "run"})
    /\ signals \in [Orders -> 0..MaxSignals]
    /\ seen \in 0..Len(feed)
    /\ local \in [pos : Nat, applied : [Orders -> 0..Qty], ended : Seq(Orders \cup {Nobody})]
    /\ Len(local.ended) <= Remembered
    /\ cancel \in [Orders -> {"idle", "asked", "done"}]
    /\ published \subseteq ({"submitted", "cancelled", "rejected"} \X Orders)
                             \cup ({"fill"} \X Orders \X (1..Qty))
    /\ missed \subseteq Orders /\ raced \subseteq Orders
    /\ handled \subseteq 1..seen
    /\ others \in 0..MaxOthers /\ faults \in 0..MaxFaults
    /\ sent \in [Orders -> 0..MaxSignals] /\ stranded \in [Orders -> 0..MaxFaults]
    /\ since \in [Orders -> 0..Remembered] /\ blind \in BOOLEAN


\* The fill the ledger keeps for an order is its final quantity at the broker,
\* which matters because later messages are dropped as duplicates.  The exception
\* is an order that cancel_order marked cancelled while its row carried an earlier
\* partial quantity (ledger_events.py, one message per order).
FillIsFinal ==
    \A m \in published :
        m[1] = "fill" /\ m[2] \notin raced => IsFinal(m[2], m[3])

\* What the runner was told of an order since it started: the last cumulative
\* quantity, and what later events without one add to it.
Told(o) ==
    LET fills == {i \in handled : feed[i].order = o /\ Fills(feed[i])}
        last == Max({0} \cup {i \in fills : feed[i].known})
    IN  (IF last = 0 THEN 0 ELSE feed[last].qty)
          + MapThenSumSet(LAMBDA i : feed[i].inc, {i \in fills : i > last})

\* The position the runner trades on is what it was told, although partial and
\* final events repeat and repeat late.  Exempt is a runner that was told again of
\* an order after Remembered later ends, or told again without a cumulative
\* quantity: it has no means to recognise that (_unapplied_fill_delta,
\* _clear_fill_tracking).
PositionIsTold ==
    blind \/ local.pos = MapThenSumSet(Told, Orders)

Ended(o) == broker[o].st \in EndStates

\* The ledger has an ended order's fill and the release of its reservation.
Settled(o) ==
    /\ broker[o].qty > 0 => \E m \in published : m[1] = "fill" /\ m[2] = o
    /\ broker[o].st # "filled" => {<<"cancelled", o>>, <<"rejected", o>>} \cap published # {}

\* Unless its end went by while the stream or the runner was down, or publishing
\* it failed, an ended order gets its fill and its release to the ledger, across
\* crashes, late submissions and cancels (_publish_ledger_fill,
\* _ledger_republish_loop).
SeenEndsSettle ==
    \A o \in Orders : Ended(o) ~> Settled(o) \/ o \in missed

\* The row shows how the order ended.
Recorded(o) == Ended(o) /\ row[o].st = broker[o].st /\ row[o].qty = broker[o].qty


\* Every ended order does: "a missed stream event is not a permanent ledger gap"
\* (build_ledger_fill_payload_from_order).
EndedOrdersSettle ==
    \A o \in Orders : Ended(o) ~> Settled(o)

\* A running session comes to know what it holds: "positions are recovered from
\* the broker (source of truth) via the periodic reconciliation loop" (start).
PositionsAreRecovered ==
    []<>(local.pos = MapThenSumSet(LAMBDA o : broker[o].qty, Orders))
=============================================================================
