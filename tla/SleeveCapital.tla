----------------------------- MODULE SleeveCapital -----------------------------
(***************************************************************************)
(* The capital of one account: fund operations, sleeve closes and the fill  *)
(* consumer, each a READ COMMITTED transaction of several statements        *)
(* (services/portfolio/src: grpc/ledger_servicer.py, services/              *)
(* fund_service.py, services/sleeve_lifecycle_service.py,                   *)
(* tasks/fill_ingestion.py persist_append, ledger/funds.py, lifecycle.py,   *)
(* invariants.py).  Fund operations take the account's advisory lock;       *)
(* closes and fills do not.                                                *)
(*                                                                         *)
(* The ledger is abstracted to the balances its events add up to and the    *)
(* set of event ids it holds.  Every amount is one unit, every order buys   *)
(* one share for one unit, and Outside is the EXTERNAL bucket.              *)
(***************************************************************************)
EXTENDS Integers, Sequences, FiniteSetsExt

CONSTANTS
    Unallocated, Unmanaged,     \* the base sleeves
    Strategies,                 \* strategy sleeves
    Outside,                    \* the world outside the book
    Handlers,                   \* concurrent RPC handlers
    Consumer,                   \* the fill consumer of the account
    NoOne,                      \* the account lock is free
    Requests,                   \* client request ids of fund operations
    Orders,                     \* buy orders of the strategies
    Moves,                      \* bound: the fund operations in play
    Ops                         \* bound: what else is in play

Sleeves == {Unallocated, Unmanaged} \cup Strategies

Places == Sleeves \cup {Outside}

Procs == Handlers \cup {Consumer}

\* deposit and withdraw; transfer, from any sleeve to any sleeve; allocate is the same
\* from Unallocated.
Transfers ==
    [from : {Outside}, to : {Unallocated}]
      \cup [from : {Unallocated}, to : {Outside}]
      \cup [from : Sleeves, to : Sleeves]

ASSUME CapitalConstants ==
    /\ Unallocated # Unmanaged
    /\ {Unallocated, Unmanaged} \cap Strategies = {}
    /\ Outside \notin Sleeves
    /\ Consumer \notin Handlers /\ NoOne \notin Procs
    /\ Moves \subseteq Transfers /\ Ops \subseteq {"close", "order"}

VARIABLES
    book,       \* the committed balances: cash, shares and reserved per place
    status,     \* the committed status of each sleeve
    events,     \* the ids of the committed ledger events
    lock,       \* the holder of the account's advisory lock
    asked,      \* what each fund request asks for, once it has been sent
    order,      \* the sleeve and the stage of each order
    stream,     \* the order events the consumer has yet to ingest
    tx,         \* the open transaction of each process
    overlap,    \* history: a transaction committed while another was open, and
                \* they were not both fund operations
    torn        \* history: the sleeves where a close and an order event overlapped

history == <<overlap, torn>>

vars == <<book, status, events, lock, asked, order, stream, tx, history>>

Zero == [p \in Places |-> 0]

Nothing == [cash |-> Zero, shares |-> Zero, reserved |-> Zero]

\* posted: what the transaction's own rows add; ids: the ids of its rows;
\* sets: the sleeve status it wrote; seen: the status it read.
NoTx == [at |-> "idle", job |-> NoOne, sleeve |-> Outside, seen |-> "active",
         posted |-> Nothing, ids |-> {}, sets |-> "none"]

\* One unit deposited and left unallocated, and one allocated to each strategy.
Endowed ==
    [p \in Places |-> CASE p = Unmanaged -> 0
                        [] p = Outside -> -(1 + Cardinality(Strategies))
                        [] OTHER -> 1]

Init ==
    /\ book = [Nothing EXCEPT !.cash = Endowed]
    /\ status = [s \in Sleeves |-> "active"]
    /\ events = {}
    /\ lock = NoOne
    /\ asked = [r \in Requests |-> <<>>]
    /\ order = [o \in Orders |-> [sleeve |-> Outside, stage |-> "new"]]
    /\ stream = <<>>
    /\ tx = [p \in Procs |-> NoTx]
    /\ overlap = FALSE /\ torn = {}

-----------------------------------------------------------------------------
(* Balances.                                                               *)

Plus(f, g) == [p \in Places |-> f[p] + g[p]]

Add(a, b) == [cash |-> Plus(a.cash, b.cash), shares |-> Plus(a.shares, b.shares),
              reserved |-> Plus(a.reserved, b.reserved)]

Only(s, n) == [p \in Places |-> IF p = s THEN n ELSE 0]

\* A balanced pair of legs that moves n from one place to another.
Move(from, to, n) == Plus(Only(from, -n), Only(to, n))

\* What a transaction's projection folds: the rows committed by now, and its own.
View(p) == Add(book, tx[p].posted)

Free(b, s) == b.cash[s] - b.reserved[s]

\* check_sleeve_invariants
Healthy(b, s) ==
    /\ b.cash[s] >= 0
    /\ b.reserved[s] > 0 => b.reserved[s] <= b.cash[s]
    /\ b.shares[s] >= 0

\* assert_write_invariants: the sleeves and the account as a whole.
WriteOK(b, touched) ==
    /\ \A s \in touched : Healthy(b, s)
    /\ b.cash[Outside] <= 0

\* A sleeve row is locked from the UPDATE of its status to the end of the
\* transaction.
RowLocked(p, s) == \E q \in Procs \ {p} : tx[q].sets # "none" /\ tx[q].sleeve = s

End(p) ==
    /\ tx' = [tx EXCEPT ![p] = NoTx]
    /\ lock' = IF lock = p THEN NoOne ELSE lock

\* p commits on s while q is open on what it has read of s before: one is a close,
\* the other books an order event.
Tears(p, q, s) ==
    /\ tx[p].sleeve = s /\ tx[q].sleeve = s
    /\ Consumer \in {p, q}
    /\ tx[q].at # "close"

\* The commit of p's transaction.
Commit(p) ==
    /\ tx[p].at = "commit"
    /\ book' = View(p)
    /\ events' = events \cup tx[p].ids
    /\ status' = IF tx[p].sets = "none" THEN status
                 ELSE [status EXCEPT ![tx[p].sleeve] = tx[p].sets]
    /\ overlap' = (overlap \/ \E q \in Procs \ {p} :
                                /\ tx[q].at # "idle"
                                /\ ~ {tx[p].job, tx[q].job} \subseteq Requests)
    /\ torn' = torn \cup {s \in Strategies : \E q \in Procs \ {p} : Tears(p, q, s)}
    /\ End(p)

-----------------------------------------------------------------------------
(* Fund operations: deposit, withdraw, allocate, transfer.                 *)

\* Plausible bug: the account lock is not taken.
LockNothing(p) == UNCHANGED lock

LockAccount(p) ==
    /\ lock = NoOne
    /\ lock' = p

\* A client sends request r, or sends it again.
FundBegin(p, r, move) ==
    /\ tx[p].at = "idle"
    /\ asked[r] \in {<<>>, <<move>>}
    /\ LockAccount(p)
    /\ asked' = [asked EXCEPT ![r] = <<move>>]
    /\ tx' = [tx EXCEPT ![p] = [NoTx EXCEPT !.at = "plan", !.job = r]]
    /\ UNCHANGED <<book, status, events, order, stream, history>>

\* Plausible bug: an operation without an event id is appended every time.
AlwaysNew(r) == TRUE

\* The writer's dedupe on the event id derived from the request.
IsNew(r) == r \notin events

\* The free-cash check of the planner, then the append, which the request id
\* makes a no-op when it is applied already.
FundPlan(p) ==
    /\ tx[p].at = "plan"
    /\ LET r == tx[p].job
           move == asked[r][1]
           new == IsNew(r)
       IN  IF move.from # Outside /\ Free(book, move.from) < 1
           THEN End(p)
           ELSE /\ tx' = [tx EXCEPT ![p] =
                            [@ EXCEPT !.at = "assert",
                                      !.posted = IF new THEN [Nothing EXCEPT
                                          !.cash = Move(move.from, move.to, 1)] ELSE @,
                                      !.ids = IF new THEN {r} ELSE {}]]
                /\ UNCHANGED lock
    /\ UNCHANGED <<book, status, events, asked, order, stream, history>>

\* assert_write_invariants on a new projection: a failure rolls back.
FundAssert(p) ==
    /\ tx[p].at = "assert"
    /\ LET r == tx[p].job
       IN  IF WriteOK(View(p), {asked[r][1].from, asked[r][1].to} \ {Outside})
           THEN /\ tx' = [tx EXCEPT ![p] = [@ EXCEPT !.at = "commit"]]
                /\ UNCHANGED lock
           ELSE End(p)
    /\ UNCHANGED <<book, status, events, asked, order, stream, history>>

FundCommit(p) ==
    /\ tx[p].job \in Requests
    /\ Commit(p)
    /\ UNCHANGED <<asked, order, stream>>

-----------------------------------------------------------------------------
(* Closing a sleeve.                                                       *)

\* An idempotent call reads the status first.
CloseBegin(p, s) ==
    /\ "close" \in Ops
    /\ tx[p].at = "idle"
    /\ status[s] # "closed"
    /\ tx' = [tx EXCEPT ![p] = [NoTx EXCEPT !.at = "close", !.sleeve = s, !.seen = status[s]]]
    /\ UNCHANGED <<book, status, events, lock, asked, order, stream, history>>

\* Plausible bug: a sleeve with reserved cash is closed all the same.
ClosePlanAnyway(p) ==
    /\ tx[p].at = "close"
    /\ LET s == tx[p].sleeve
       IN  tx' = [tx EXCEPT ![p] = [@ EXCEPT !.at = "retire",
                                             !.posted = [Nothing EXCEPT
                                                 !.cash = Move(s, Unallocated, book.cash[s]),
                                                 !.shares = Move(s, Unmanaged, book.shares[s])]]]
    /\ UNCHANGED <<book, status, events, lock, asked, order, stream, history>>

\* The projection: a sleeve with reserved cash is refused, and what it holds is
\* what the close will re-home.
ClosePlan(p) ==
    /\ tx[p].at = "close"
    /\ LET s == tx[p].sleeve
       IN  tx' = [tx EXCEPT ![p] =
                    IF book.reserved[s] # 0 THEN NoTx
                    ELSE [@ EXCEPT !.at = "retire",
                                   !.posted = [Nothing EXCEPT
                                       !.cash = Move(s, Unallocated, book.cash[s]),
                                       !.shares = Move(s, Unmanaged, book.shares[s])]]]
    /\ UNCHANGED <<book, status, events, lock, asked, order, stream, history>>

\* Plausible bug: the id of the event is the id of the sleeve.
SleeveId(s) == s

CloseId(s) == <<"close", s>>

\* The event id of a close is derived from the sleeve, so a second close adds
\* nothing.
ClosesFirst(p) == CloseId(tx[p].sleeve) \notin events

\* The append waits for a concurrent close of the sleeve to end, and the status
\* update for whoever has the row.
CloseRetire(p) ==
    /\ tx[p].at = "retire"
    /\ ~RowLocked(p, tx[p].sleeve)
    /\ tx' = [tx EXCEPT ![p] = [@ EXCEPT !.at = "check", !.sets = "closed",
                                         !.posted = IF ClosesFirst(p) THEN @ ELSE Nothing,
                                         !.ids = {CloseId(tx[p].sleeve)}]]
    /\ UNCHANGED <<book, status, events, lock, asked, order, stream, history>>

CloseAssert(p) ==
    /\ tx[p].at = "check"
    /\ tx' = [tx EXCEPT ![p] =
                IF WriteOK(View(p), {tx[p].sleeve, Unmanaged, Unallocated})
                THEN [@ EXCEPT !.at = "commit"] ELSE NoTx]
    /\ UNCHANGED <<book, status, events, lock, asked, order, stream, history>>

CloseCommit(p) ==
    /\ p \in Handlers /\ tx[p].job = NoOne
    /\ Commit(p)
    /\ UNCHANGED <<asked, order, stream>>

-----------------------------------------------------------------------------
(* Orders and the fill consumer.                                           *)

\* Trading admits an order of a sleeve that is active and has the cash, as it
\* sees them now, and publishes its reservation.
OrderSubmit(o, s) ==
    /\ "order" \in Ops
    /\ order[o].stage = "new"
    /\ status[s] = "active"
    /\ Free(book, s) >= 1
    /\ order' = [order EXCEPT ![o] = [sleeve |-> s, stage |-> "open"]]
    /\ stream' = Append(stream, <<"submitted", o>>)
    /\ UNCHANGED <<book, status, events, lock, asked, tx, history>>

\* The order reaches its terminal state at the broker.
OrderEnd(o, stage) ==
    /\ order[o].stage = "open"
    /\ order' = [order EXCEPT ![o].stage = "ended"]
    /\ stream' = Append(stream, <<stage, o>>)
    /\ UNCHANGED <<book, status, events, lock, asked, tx, history>>

\* _reroute_if_sleeve_closed
Home(s) == IF status[s] = "closed" THEN Unmanaged ELSE s

IngestBegin ==
    /\ tx[Consumer].at = "idle"
    /\ stream # <<>>
    /\ LET s == Home(order[Head(stream)[2]].sleeve)
       IN  tx' = [tx EXCEPT ![Consumer] = [NoTx EXCEPT !.at = "append", !.job = Head(stream),
                                                       !.sleeve = s, !.seen = status[s]]]
    /\ UNCHANGED <<book, status, events, lock, asked, order, stream, history>>

\* The reservation fold keys on the order: a terminal event gives back what its
\* submission put in, on the sleeve that the submission was booked on.
ReservedOn(o) == {s \in Sleeves : <<"submitted", o, s>> \in events}

Postings(job, s) ==
    LET release == [p \in Places |-> IF p \in ReservedOn(job[2]) THEN -1 ELSE 0]
    IN  CASE job[1] = "submitted" -> [Nothing EXCEPT !.reserved = Only(s, 1)]
          [] job[1] = "cancelled" -> [Nothing EXCEPT !.reserved = release]
          [] job[1] = "filled"    -> [cash |-> Move(s, Outside, 1), shares |-> Only(s, 1),
                                      reserved |-> release]

Unhealthy(b, s) == ~Healthy(b, s)

\* The append and, for a fill, _freeze_if_invariant_violated: the projection is
\* new, but the status is the one the session loaded with its first read.
IngestAppend ==
    /\ tx[Consumer].at = "append"
    /\ LET t == tx[Consumer]
           posted == Postings(t.job, t.sleeve)
           freeze == /\ t.job[1] = "filled"
                     /\ Unhealthy(Add(book, posted), t.sleeve)
                     /\ t.seen # "frozen"
       IN  /\ freeze => ~RowLocked(Consumer, t.sleeve)
           /\ tx' = [tx EXCEPT ![Consumer] =
                       [@ EXCEPT !.at = "commit", !.posted = posted,
                                 !.ids = {<<t.job[1], t.job[2], t.sleeve>>},
                                 !.sets = IF freeze THEN "frozen" ELSE "none"]]
    /\ UNCHANGED <<book, status, events, lock, asked, order, stream, history>>

IngestCommit ==
    /\ Commit(Consumer)
    /\ stream' = Tail(stream)
    /\ UNCHANGED <<asked, order>>

-----------------------------------------------------------------------------

\* A handler or its connection dies: the transaction rolls back.
Abort(p) ==
    /\ tx[p].at # "idle"
    /\ End(p)
    /\ UNCHANGED <<book, status, events, asked, order, stream, history>>

Next ==
    \/ \E p \in Handlers :
          \/ \E r \in Requests, move \in Moves : FundBegin(p, r, move)
          \/ FundPlan(p) \/ FundAssert(p) \/ FundCommit(p)
          \/ \E s \in Strategies : CloseBegin(p, s)
          \/ ClosePlan(p) \/ CloseRetire(p) \/ CloseAssert(p) \/ CloseCommit(p)
    \/ \E o \in Orders : \E s \in Strategies : OrderSubmit(o, s)
    \/ \E o \in Orders : \E stage \in {"filled", "cancelled"} : OrderEnd(o, stage)
    \/ IngestBegin \/ IngestAppend \/ IngestCommit
    \/ \E p \in Procs : Abort(p)

Spec == Init /\ [][Next]_vars

-----------------------------------------------------------------------------

Balances == [cash : [Places -> Int], shares : [Places -> Int], reserved : [Places -> Int]]

\* The variables have their types.
TypeOK ==
    /\ book \in Balances
    /\ status \in [Sleeves -> {"active", "frozen", "closed"}]
    /\ events \subseteq Requests \cup ({"close"} \X Strategies)
                   \cup ({"submitted", "cancelled", "filled"} \X Orders \X Sleeves)
    /\ lock \in Handlers \cup {NoOne}
    /\ \A r \in Requests : Len(asked[r]) <= 1
    /\ \A p \in Procs : tx[p].posted \in Balances
    /\ torn \subseteq Strategies

\* What Init, the requests, fills and nothing else make of a set of places.
Accounted(places) ==
    LET Into(p) == Cardinality({r \in Requests \cap events : asked[r][1].to = p})
        OutOf(p) == Cardinality({r \in Requests \cap events : asked[r][1].from = p})
        Filled(p) == Cardinality({e \in events \ Requests : e[1] = "filled" /\ e[3] = p})
        Fills == Cardinality({e \in events \ Requests : e[1] = "filled"})
    IN  MapThenSumSet(LAMBDA p : Endowed[p] + Into(p) - OutOf(p)
                                   + (IF p = Outside THEN Fills ELSE -Filled(p)), places)

\* A request is applied once if at all, however often and on whichever handler it is
\* sent: the cash of every place is what its deposits, withdrawals, allocations,
\* transfers and fills add up to.  A close moves a sleeve's cash to Unallocated,
\* which makes one place of the two (_fund_event_id, LedgerWriter.append).
RequestsApplyOnce ==
    LET closed == {s \in Strategies : CloseId(s) \in events}
        merged == {Unallocated} \cup closed
        Cash(places) == MapThenSumSet(LAMBDA p : book.cash[p], places)
    IN  \A group \in {merged} \cup {{p} : p \in Places \ merged} : Cash(group) = Accounted(group)

\* No corrupt balance lands: an operation that would overdraw a sleeve is
\* refused, and a fill that does freezes it.
CorruptBalanceNeverLands ==
    \A s \in Sleeves : book.cash[s] < 0 => status[s] = "frozen"

\* The account lock serialises fund operations, so that much holds as long as
\* no other transaction commits while one that takes no lock (a close, a fill)
\* is open.
SerialBalancesAreSound == overlap \/ CorruptBalanceNeverLands

\* A late order event does not resurrect a retired sleeve: it is closed for good,
\* without shares (they were re-homed) and without a reservation (the close would
\* have been refused, and later events go to Unmanaged).  Exempt are the sleeves
\* where a close and the booking of an order event overlap, each on what it read
\* before the other's commit: there the code may leave a share or a reservation on
\* the closed sleeve, or freeze it, which opens it again (close_sleeve,
\* _reroute_if_sleeve_closed, _freeze_if_invariant_violated).
RetiredStaysRetired ==
    [][\A s \in Sleeves \ torn' :
          "closed" \in {status[s], status'[s]} =>
              status'[s] = "closed" /\ book'.shares[s] = 0 /\ book'.reserved[s] = 0]_vars
=============================================================================
