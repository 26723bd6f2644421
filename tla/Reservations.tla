------------------------------ MODULE Reservations ------------------------------
(***************************************************************************)
(* The cash reservations of one sleeve as the ledger fold derives them      *)
(* (services/portfolio/src/ledger/projection.py, _apply_reservation):       *)
(* ORDER_SUBMITTED earmarks an order's cash and its terminal event releases *)
(* it.  The two travel separately, so a submission can arrive after the     *)
(* terminal event of its own order; the fold remembers the most recent      *)
(* terminal orders to ignore it.  A fold that is resumed from a stored      *)
(* checkpoint went through encode_state and decode_state.                   *)
(***************************************************************************)
EXTENDS Integers, SequencesExt

CONSTANTS
    MaxOrder,   \* orders are 1..MaxOrder, numbered as their client ids sort
    Tracked,    \* _TERMINAL_TRACKED: the terminal orders the fold remembers
    MaxLate     \* a submission is at most this many terminal events late

ASSUME ReservationConstants ==
    MaxOrder \in Nat /\ MaxLate \in Nat /\ Tracked \in Nat \ {0}

Orders == 1..MaxOrder

\* The terminal order events, _RESERVATION_RELEASES; a rejection is folded like a
\* cancellation.  An order that is cancelled after a partial fill has both.
Releases == {"filled", "cancelled"}

VARIABLES
    events,     \* the account's lifecycle events: a set of <<stage, order>>
    ended,      \* the orders of the terminal events, in ledger order
    live,       \* the fold state of a fold from zero
    resumed,    \* the fold state of a fold resumed from checkpoints
    overtaken   \* history: orders submitted after a later end, the memory being full

vars == <<events, ended, live, resumed, overtaken>>

Init ==
    /\ events = {}
    /\ ended = <<>>
    /\ live = [reserved |-> 0, pending |-> {}, terminal |-> <<>>]
    /\ resumed = live
    /\ overtaken = {}

-----------------------------------------------------------------------------

\* The cash an order reserves; different orders reserve different amounts.
Amount(o) == 2^o

\* Plausible bug: the submission is honoured whatever happened before.
ReserveAlways(s, o) ==
    [s EXCEPT !.reserved = @ + Amount(o), !.pending = @ \cup {o}]

Reserve(s, o) ==
    IF o \in ToSet(s.terminal) THEN s
    ELSE [s EXCEPT !.reserved = @ + Amount(o), !.pending = @ \cup {o}]

\* Plausible bug: the set holds one order more than its bound.
RememberOneMore(terminal, o) ==
    LET all == IF o \in ToSet(terminal) THEN terminal ELSE Append(terminal, o)
    IN  IF Len(all) > Tracked + 1 THEN Tail(all) ELSE all

\* terminal is a dict: a second terminal event leaves an order where it is.
Remember(terminal, o) ==
    LET all == IF o \in ToSet(terminal) THEN terminal ELSE Append(terminal, o)
    IN  IF Len(all) > Tracked THEN Tail(all) ELSE all

\* Plausible bug: every terminal event of an order releases its cash.
ReleaseEach(s, o) ==
    [reserved |-> s.reserved - Amount(o),
     pending  |-> s.pending \ {o},
     terminal |-> Remember(s.terminal, o)]

Release(s, o) ==
    [reserved |-> IF o \in s.pending THEN s.reserved - Amount(o) ELSE s.reserved,
     pending  |-> s.pending \ {o},
     terminal |-> Remember(s.terminal, o)]

\* Plausible bug: the checkpoint does not carry the terminal orders.
StoreAndLoadPending(s) == [s EXCEPT !.terminal = <<>>]

\* encode_state lists the terminal orders sorted by id, and decode_state makes
\* that the order of the dict.
StoreAndLoad(s) == [s EXCEPT !.terminal = SetToSortSeq(ToSet(@), <)]

-----------------------------------------------------------------------------

\* The terminal events after o's own, once o itself is terminal.
Behind(o) == Len(ended) - IndexFirstSubSeq(<<o>>, ended)

\* More orders have ended than a fold remembers, and another one after o.
Overtaken(o) ==
    /\ Cardinality(ToSet(ended)) > Tracked
    /\ \E i \in 1..Behind(o) : ended[Len(ended) + 1 - i] # o

\* ORDER_SUBMITTED with a reservation; the event id makes each stage of an
\* order one event.
Submit(o) ==
    /\ <<"submitted", o>> \notin events
    /\ o \in ToSet(ended) => Behind(o) <= MaxLate
    /\ events' = events \cup {<<"submitted", o>>}
    /\ live' = Reserve(live, o)
    /\ resumed' = Reserve(resumed, o)
    /\ overtaken' = IF o \in ToSet(ended) /\ Overtaken(o) THEN overtaken \cup {o} ELSE overtaken
    /\ UNCHANGED ended

Terminate(o, stage) ==
    /\ <<stage, o>> \notin events
    /\ events' = events \cup {<<stage, o>>}
    /\ ended' = Append(ended, o)
    /\ live' = Release(live, o)
    /\ resumed' = Release(resumed, o)
    /\ UNCHANGED overtaken

\* A checkpoint is stored, and a pod without a cached one resumes from it.
Resume ==
    /\ resumed' = StoreAndLoad(resumed)
    /\ UNCHANGED <<events, ended, live, overtaken>>

Next ==
    \/ \E o \in Orders : Submit(o)
    \/ \E o \in Orders, stage \in Releases : Terminate(o, stage)
    \/ Resume

Spec == Init /\ [][Next]_vars

-----------------------------------------------------------------------------

States == [reserved : Nat, pending : SUBSET Orders, terminal : Seq(Orders)]

\* Types; in particular reserved cash is never negative, whatever number of
\* terminal events an order has.
TypeOK ==
    /\ events \subseteq ({"submitted"} \cup Releases) \X Orders
    /\ ended \in Seq(Orders)
    /\ \A s \in {live, resumed} : s \in States /\ Len(s.terminal) <= Tracked
    /\ overtaken \subseteq Orders

\* The earmarked total is what the open reservations add up to: a release takes
\* back exactly what its submission put in, once.
ReservedIsPending ==
    \A s \in {live, resumed} : s.reserved = SumSet({Amount(o) : o \in s.pending})

\* A late submission earmarks no cash that has no future release.  A fold from zero
\* ignores one that is less late than the number of terminal orders it remembers;
\* a resumed fold, whose memory encode_state has sorted by id, may by then have
\* evicted the order, and is only sure to ignore one that no other order's end has
\* overtaken, or that comes before anything was evicted (_apply_reservation).
NoOrphanReservation ==
    \A o \in ToSet(ended) : o \notin live.pending /\ (o \in resumed.pending => o \in overtaken)

\* A resumed fold equals a fold from zero: storing and loading the checkpoint
\* is an exact round-trip as far as cash is concerned.
ResumedIsReplay ==
    resumed.reserved = live.reserved /\ resumed.pending = live.pending

\* It does until the fold has had to forget a terminal order.
ResumedUntilEviction == Cardinality(ToSet(ended)) <= Tracked => ResumedIsReplay
=============================================================================
