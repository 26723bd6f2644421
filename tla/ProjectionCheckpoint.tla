------------------------- MODULE ProjectionCheckpoint -------------------------
(***************************************************************************)
(* The incremental projection of one ledger account                        *)
(* (services/portfolio/src/ledger/projector.py, checkpoint_store.py).      *)
(*                                                                         *)
(* Writers insert rows into ledger_events inside database transactions: a  *)
(* row takes its sequence at INSERT and its created_at from the START of   *)
(* its transaction, and becomes visible at COMMIT, so rows become visible  *)
(* out of sequence order.  A reconciliation pass folds the rows after a    *)
(* checkpoint, and advances the checkpoint over the rows that are older    *)
(* than a safety window.  The fold itself is abstracted: a checkpoint      *)
(* records the SET of rows folded into it, since the rows are always       *)
(* folded in sequence order by one function, fold_into.                    *)
(***************************************************************************)
EXTENDS Integers

CONSTANTS
    Conns,      \* database connections of the ledger writers
    Pods,       \* portfolio processes that run reconciliation passes
    Window,     \* _CHECKPOINT_SAFETY_WINDOW
    MaxTxn,     \* longest life of a write transaction
    MaxRead,    \* longest time from a delta's snapshot to the pass's cutoff
    MaxSkew,    \* how far a pod's clock may be from the database's clock
    MaxSeq,     \* bound: sequences handed out
    MaxTime     \* bound: time

ASSUME ParametersAreNaturals ==
    /\ Window \in Nat /\ MaxTxn \in Nat /\ MaxRead \in Nat /\ MaxSkew \in Nat
    /\ MaxSeq \in Nat /\ MaxTime \in Nat

VARIABLES
    now,        \* the database's clock
    nextSeq,    \* the next value of the sequence identity
    conn,       \* what each connection's transaction has done
    log,        \* the committed rows of ledger_events for the account
    knows,      \* pods whose release can apply the newest event type
    cached,     \* pods with an entry for the account in _INCREMENTAL_CACHE
    cache,      \* that entry
    stored,     \* the account's row of ledger_projection_checkpoints
    readable,   \* whether that row's state decodes
    pass        \* the reconciliation pass of each pod

vars == <<now, nextSeq, conn, log, knows, cached, cache, stored, readable, pass>>

-----------------------------------------------------------------------------

\* A row of ledger_events.  A row is "new" when a pod of an older release
\* cannot apply it (fold_into counts it as poison and skips it).
Row == [seq : Nat, created : Nat, new : BOOLEAN]

\* A checkpoint: the fold of `folded`, complete when no row was skipped.
Checkpoint == [seq : Nat, folded : SUBSET Row, complete : BOOLEAN]

\* The state a fold starts from without a checkpoint; also an absent stored row.
ZeroCheckpoint == [seq |-> 0, folded |-> {}, complete |-> TRUE]

IdleConn == [open |-> FALSE, start |-> 0, rows |-> {}]

IdlePass == [at |-> "idle", seed |-> ZeroCheckpoint, hit |-> FALSE,
             delta |-> {}, readAt |-> 0]

\* A pass that has `cp` to persist.
SavingPass(cp) == [at |-> "saving", seed |-> cp, hit |-> FALSE,
                   delta |-> {}, readAt |-> 0]

InFlight == UNION {conn[c].rows : c \in Conns}

LogUpTo(n) == {r \in log : r.seq <= n}

Init ==
    /\ now = 0
    /\ nextSeq = 1
    /\ conn = [c \in Conns |-> IdleConn]
    /\ log = {}
    /\ knows \in SUBSET Pods
    /\ cached = {}
    /\ cache = [p \in Pods |-> ZeroCheckpoint]
    /\ stored = ZeroCheckpoint
    /\ readable = TRUE
    /\ pass = [p \in Pods |-> IdlePass]

-----------------------------------------------------------------------------
(* The writers: fund operations, fills, closes, corporate actions, drifts. *)

\* A transaction that will write: MaxSeq bounds the rows.
Begin(c) ==
    /\ ~conn[c].open
    /\ nextSeq <= MaxSeq
    /\ conn' = [conn EXCEPT ![c] = [open |-> TRUE, start |-> now, rows |-> {}]]
    /\ UNCHANGED <<now, nextSeq, log, knows, cached, cache, stored, readable, pass>>

NewRow(c, new) == [seq |-> nextSeq, created |-> conn[c].start, new |-> new]

\* LedgerWriter.append: the INSERT takes the next sequence, and func.now() is
\* the start of the transaction.  A transaction may append several rows.
Append(c) ==
    /\ conn[c].open
    /\ nextSeq <= MaxSeq
    /\ \E new \in BOOLEAN :
           conn' = [conn EXCEPT ![c] =
                       [open |-> TRUE, start |-> conn[c].start,
                        rows |-> conn[c].rows \cup {NewRow(c, new)}]]
    /\ nextSeq' = nextSeq + 1
    /\ UNCHANGED <<now, log, knows, cached, cache, stored, readable, pass>>

Commit(c) ==
    /\ conn[c].open
    /\ log' = log \cup conn[c].rows
    /\ conn' = [conn EXCEPT ![c] = IdleConn]
    /\ UNCHANGED <<now, nextSeq, knows, cached, cache, stored, readable, pass>>

\* A rollback, or a connection closed by the server: its sequences are gaps.
Rollback(c) ==
    /\ conn[c].open
    /\ conn' = [conn EXCEPT ![c] = IdleConn]
    /\ UNCHANGED <<now, nextSeq, log, knows, cached, cache, stored, readable, pass>>

\* Time passes, but no transaction outlives MaxTxn and no pass takes longer
\* than MaxRead from the snapshot of its delta to its cutoff.
Tick ==
    /\ now < MaxTime
    /\ \A c \in Conns : conn[c].open => now < conn[c].start + MaxTxn
    /\ \A p \in Pods : pass[p].at = "read" => now < pass[p].readAt + MaxRead
    /\ now' = now + 1
    /\ UNCHANGED <<nextSeq, conn, log, knows, cached, cache, stored, readable, pass>>

-----------------------------------------------------------------------------
(* project_account_incremental(persist=True), between its awaits.          *)

\* _seed: the process's cache entry, or the stored row, or (load: the row is
\* absent or does not decode) a fold from zero.
Seed(p) ==
    IF p \in cached THEN cache[p]
    ELSE IF readable THEN stored
    ELSE ZeroCheckpoint

PassSeed(p) ==
    /\ pass[p].at = "idle"
    /\ pass' = [pass EXCEPT ![p] = [at |-> "seeded", seed |-> Seed(p),
                                     hit |-> p \in cached,
                                     delta |-> {}, readAt |-> 0]]
    /\ UNCHANGED <<now, nextSeq, conn, log, knows, cached, cache, stored, readable>>

\* Plausible bug: a resume that skips the row after the checkpoint.
ReadSinceOneLater(rows, n) == {r \in rows : r.seq > n + 1}

\* read_account_events_since, on the rows a session sees.
ReadSince(rows, n) == {r \in rows : r.seq > n}

PassRead(p) ==
    /\ pass[p].at = "seeded"
    /\ pass' = [pass EXCEPT ![p] = [at |-> "read", seed |-> pass[p].seed,
                                     hit |-> pass[p].hit,
                                     delta |-> ReadSince(log, pass[p].seed.seq),
                                     readAt |-> now]]
    /\ UNCHANGED <<now, nextSeq, conn, log, knows, cached, cache, stored, readable>>

\* Nothing new since the process's entry: the pass returns it.
PassNothingNew(p) ==
    /\ pass[p].at = "read"
    /\ pass[p].hit
    /\ pass[p].delta = {}
    /\ pass' = [pass EXCEPT ![p] = IdlePass]
    /\ UNCHANGED <<now, nextSeq, conn, log, knows, cached, cache, stored, readable>>

\* Plausible bugs of _partition_at_window: taking every old row rather than
\* the rows before the first recent one, and a cutoff without the window.
FilterAtWindow(delta, cutoff) == {r \in delta : r.created < cutoff}

PartitionWithoutWindow(delta, cutoff) ==
    {r \in delta : \A q \in delta : q.seq <= r.seq => q.created < cutoff + Window}

\* _partition_at_window: the safe prefix ends before the first row, in
\* sequence order, that was created at or after the cutoff.
PartitionAtWindow(delta, cutoff) ==
    {r \in delta : \A q \in delta : q.seq <= r.seq => q.created < cutoff}

\* The rows fold_into applies; the others raise, and are counted and skipped.
CanApply(p, r) == p \in knows \/ ~r.new

\* Plausible bug: a checkpoint labelled with the sequence before its last row.
FoldIntoOneBefore(p, cp, rows, last) ==
    [seq |-> last - 1,
     folded |-> cp.folded \cup {r \in rows : CanApply(p, r)},
     complete |-> cp.complete /\ \A r \in rows : CanApply(p, r)]

FoldInto(p, cp, rows, last) ==
    [seq |-> last,
     folded |-> cp.folded \cup {r \in rows : CanApply(p, r)},
     complete |-> cp.complete /\ \A r \in rows : CanApply(p, r)]

\* Plausible bug: persisting a projection that skipped rows.
PersistsAnyAdvance(p, cp) == cp.seq > pass[p].seed.seq

\* Persist only a checkpoint that advanced, and never an incomplete one.
Persists(p, cp) == cp.seq > pass[p].seed.seq /\ cp.complete

\* The rows the pass may checkpoint: its cutoff is the pod's clock, which may
\* be off by `skew`, less the window.
SafeRows(p, skew) == PartitionAtWindow(pass[p].delta, now + skew - Window)

\* The sequence of the last row folded, or of the seed when there is none.
LastOf(cp, rows) == {n \in {cp.seq} \cup {r.seq : r \in rows} : \A r \in rows : r.seq <= n}

\* Replaces the process's entry unless that is further on, and persists.
AdvanceTo(p, cp) ==
    /\ cache' = IF p \in cached /\ cache[p].seq > cp.seq
                THEN cache ELSE [cache EXCEPT ![p] = cp]
    /\ cached' = cached \cup {p}
    /\ pass' = [pass EXCEPT ![p] =
                   IF Persists(p, cp)
                   THEN SavingPass(cp)
                   ELSE IdlePass]

\* The pass takes its cutoff, folds the safe prefix onto the seed and advances
\* the checkpoint: no await in between.
PassFold(p) ==
    /\ pass[p].at = "read"
    /\ ~(pass[p].hit /\ pass[p].delta = {})
    /\ \E skew \in (-MaxSkew)..MaxSkew :
         \E last \in LastOf(pass[p].seed, SafeRows(p, skew)) :
             AdvanceTo(p, FoldInto(p, pass[p].seed, SafeRows(p, skew), last))
    /\ UNCHANGED <<now, nextSeq, conn, log, knows, stored, readable>>

\* Plausible bug: an upsert without its WHERE clause.
UpsertAlways(cp) ==
    /\ stored' = cp
    /\ readable' = TRUE

\* checkpoint_store.save: forward-only; an equal sequence repairs the row.
Upsert(cp) ==
    IF stored.seq <= cp.seq
    THEN stored' = cp /\ readable' = TRUE
    ELSE UNCHANGED <<stored, readable>>

\* _persist_checkpoint: the save and its commit, or a database error, which is
\* logged and rolled back.
PassSave(p) ==
    /\ pass[p].at = "saving"
    /\ Upsert(pass[p].seed)
    /\ pass' = [pass EXCEPT ![p] = IdlePass]
    /\ UNCHANGED <<now, nextSeq, conn, log, knows, cached, cache>>

PassSaveFails(p) ==
    /\ pass[p].at = "saving"
    /\ pass' = [pass EXCEPT ![p] = IdlePass]
    /\ UNCHANGED <<now, nextSeq, conn, log, knows, cached, cache, stored, readable>>

-----------------------------------------------------------------------------

\* The bounded LRU drops the account's entry.
Evict(p) ==
    /\ p \in cached
    /\ cached' = cached \ {p}
    /\ cache' = [cache EXCEPT ![p] = ZeroCheckpoint]
    /\ UNCHANGED <<now, nextSeq, conn, log, knows, stored, readable, pass>>

\* A pod crashes or is deployed again, with a release that may apply more or
\* fewer event types; its cache and its pass are gone.
Restart(p) ==
    /\ cached' = cached \ {p}
    /\ cache' = [cache EXCEPT ![p] = ZeroCheckpoint]
    /\ pass' = [pass EXCEPT ![p] = IdlePass]
    /\ knows' \in {knows \cup {p}, knows \ {p}}
    /\ UNCHANGED <<now, nextSeq, conn, log, stored, readable>>

\* The stored state stops decoding (another state version, a damaged row).
RowUnreadable ==
    /\ stored.seq > 0
    /\ readable
    /\ readable' = FALSE
    /\ UNCHANGED <<now, nextSeq, conn, log, knows, cached, cache, stored, pass>>

Next ==
    \/ Tick
    \/ RowUnreadable
    \/ \E c \in Conns : Begin(c) \/ Append(c) \/ Commit(c) \/ Rollback(c)
    \/ \E p \in Pods :
          \/ PassSeed(p) \/ PassRead(p) \/ PassNothingNew(p) \/ PassFold(p)
          \/ PassSave(p) \/ PassSaveFails(p)
          \/ Evict(p) \/ Restart(p)

Spec == Init /\ [][Next]_vars

-----------------------------------------------------------------------------

\* The variables have their types: at most one transaction per connection and
\* one pass per pod, as the connection pool and the sequential loop have it.
TypeOK ==
    /\ now \in Nat
    /\ nextSeq \in Nat
    /\ conn \in [Conns -> [open : BOOLEAN, start : Nat, rows : SUBSET Row]]
    /\ log \subseteq Row
    /\ knows \subseteq Pods
    /\ cached \subseteq Pods
    /\ cache \in [Pods -> Checkpoint]
    /\ stored \in Checkpoint
    /\ readable \in BOOLEAN
    /\ pass \in [Pods -> [at : {"idle", "seeded", "read", "saving"}, seed : Checkpoint,
                          hit : BOOLEAN, delta : SUBSET Row, readAt : Nat]]

\* Every checkpoint the system holds: entries, the stored row, and the seeds
\* and unsaved checkpoints of the passes under way.
Checkpoints == {cache[p] : p \in Pods} \cup {stored} \cup {pass[p].seed : p \in Pods}

\* No row that has its sequence but is not committed yet lies at or below a
\* checkpoint (_partition_at_window: "never later into an in-flight row").
NeverPastInFlight ==
    \A cp \in Checkpoints : \A r \in InFlight : cp.seq < r.seq

\* A resumed fold equals a fold from zero (_Checkpoint): a checkpoint holds
\* every committed row up to its sequence, or counts itself incomplete when its
\* pod's release skipped rows it could not apply, and then holds all the others.
CheckpointIsReplay ==
    \A cp \in Checkpoints :
        /\ cp.folded \subseteq LogUpTo(cp.seq)
        /\ \A r \in LogUpTo(cp.seq) : r \in cp.folded \/ (r.new /\ ~cp.complete)

\* The projection or the lot book that project_account_incremental(persist =
\* False) and open_lots_incremental give a transaction c of pod p: the seed and
\* everything after it that the session sees, its own rows included.
InTransaction(p, c) ==
    Seed(p).folded \cup {r \in ReadSince(log \cup conn[c].rows, Seed(p).seq) : CanApply(p, r)}

\* What a transaction projects is what a fold from zero would give it: every
\* committed row and its own, up to rows this release cannot apply.
InTransactionIsReplay ==
    \A p \in Pods, c \in Conns :
        /\ InTransaction(p, c) \subseteq log \cup conn[c].rows
        /\ \A r \in log \cup conn[c].rows : r \in InTransaction(p, c) \/ ~CanApply(p, r)

\* The stored row is a complete fold: a restart never resumes from a state with
\* rows missing, so a release that can apply them picks them up.
StoredIsComplete == stored.folded = LogUpTo(stored.seq)

\* A stale pass (a deposed leader's) never moves the stored row back.
StoredOnlyAdvances == [][stored.seq <= stored'.seq]_vars
=============================================================================
