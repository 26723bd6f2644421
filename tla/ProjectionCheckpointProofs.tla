---------------------- MODULE ProjectionCheckpointProofs ----------------------
(***************************************************************************)
(* Checkpoints are replays, for every number of connections and pods and   *)
(* for all time bounds, as long as the safety window covers two            *)
(* transaction lifetimes, the delay of a pass, and the clock skew.         *)
(***************************************************************************)
EXTENDS ProjectionCheckpoint, TLAPS

\* What the safety window has to cover.  Two lifetimes: a row below the one
\* the checkpoint advances to was inserted while that one's transaction was
\* open (one lifetime), by a transaction that may still be open (another).
WindowIsWideEnough == Window >= 2 * MaxTxn + MaxRead + MaxSkew

Rows == log \cup InFlight

\* An open transaction has lived at most MaxTxn, its rows carry its start, and
\* a connection without a transaction has no rows.  A row that is in flight is
\* in one transaction, and not in the log.
Transactions ==
    \A c \in Conns :
        /\ conn[c].open => conn[c].start <= now /\ now <= conn[c].start + MaxTxn
        /\ \A r \in conn[c].rows :
              /\ conn[c].open /\ r.created = conn[c].start
              /\ r \notin log
              /\ \A d \in Conns : r \in conn[d].rows => c = d

\* Sequences are positive and below the next one, and the rows with lower sequences were
\* created at most one lifetime after a row.
Sequences ==
    /\ 0 < nextSeq
    /\ \A r \in Rows : 0 < r.seq /\ r.seq < nextSeq /\ r.created <= now
    /\ \A a, b \in Rows : b.seq <= a.seq => b.created <= a.created + MaxTxn

\* A checkpoint is a replay, and no row can appear at or below it.
Sound(cp) ==
    /\ cp.seq < nextSeq
    /\ \A r \in InFlight : cp.seq < r.seq
    /\ \A r \in cp.folded : r \in log /\ r.seq <= cp.seq
    /\ \A r \in log : r.seq <= cp.seq => r \in cp.folded \/ (r.new /\ ~cp.complete)

\* What a pass remembers: its delta was committed, and a row that is missing
\* from it was created at most a lifetime before the delta was read.
Passes ==
    \A p \in Pods :
        /\ pass[p].at = "saving" => pass[p].seed.complete
        /\ pass[p].at = "read" =>
              /\ pass[p].readAt <= now /\ now <= pass[p].readAt + MaxRead
              /\ \A r \in pass[p].delta : r \in log /\ r.seq > pass[p].seed.seq
              /\ \A r \in Rows : r.seq > pass[p].seed.seq =>
                    r \in pass[p].delta \/ pass[p].readAt <= r.created + MaxTxn

IndInv ==
    /\ TypeOK
    /\ Transactions
    /\ Sequences
    /\ \A p \in Pods : Sound(cache[p]) /\ Sound(pass[p].seed)
    /\ Sound(stored)
    /\ stored.complete
    /\ Passes

-----------------------------------------------------------------------------

\* Initially every checkpoint is the empty fold of the empty log.
LEMMA InitInv == Init => IndInv
<1> SUFFICES ASSUME Init PROVE IndInv
    OBVIOUS
<1> USE ParametersAreNaturals DEF Init, IdleConn, IdlePass, ZeroCheckpoint
<1>1. TypeOK
    BY DEF TypeOK, Checkpoint
<1>2. InFlight = {} /\ Rows = {}
    BY DEF InFlight, Rows
<1>3. Transactions /\ Sequences /\ Passes
    BY <1>2 DEF Transactions, Sequences, Passes
<1>4. Sound(ZeroCheckpoint)
    BY <1>2 DEF Sound
<1>5. QED
    BY <1>1, <1>3, <1>4, Zenon DEF IndInv

\* What a fold gives has the type of a checkpoint.
LEMMA FoldType ==
    ASSUME NEW p, NEW cp \in Checkpoint, NEW rows \in SUBSET Row, NEW last \in Nat
    PROVE  FoldInto(p, cp, rows, last) \in Checkpoint
BY DEF FoldInto, Checkpoint

\* The type invariant is preserved by every step.
LEMMA TypeStep == TypeOK /\ [Next]_vars => TypeOK'
<1> SUFFICES ASSUME TypeOK, [Next]_vars PROVE TypeOK'
    OBVIOUS
<1> USE ParametersAreNaturals DEF TypeOK
<1>1. ZeroCheckpoint \in Checkpoint
    BY DEF ZeroCheckpoint, Checkpoint
<1>2. \A p \in Pods : Seed(p) \in Checkpoint
    BY <1>1 DEF Seed
<1>3. IdlePass \in [at : {"idle", "seeded", "read", "saving"}, seed : Checkpoint,
                    hit : BOOLEAN, delta : SUBSET Row, readAt : Nat]
    BY <1>1 DEF IdlePass
<1>4. IdleConn \in [open : BOOLEAN, start : Nat, rows : SUBSET Row]
    BY DEF IdleConn
<1>5. CASE Tick
    BY <1>5 DEF Tick
<1>6. CASE RowUnreadable
    BY <1>6, Zenon DEF RowUnreadable
<1>7. ASSUME NEW c \in Conns, Begin(c) PROVE TypeOK'
    BY <1>7 DEF Begin
<1>8. ASSUME NEW c \in Conns, Append(c) PROVE TypeOK'
    <2>1. PICK new \in BOOLEAN :
              conn' = [conn EXCEPT ![c] =
                          [open |-> TRUE, start |-> conn[c].start,
                           rows |-> conn[c].rows \cup {NewRow(c, new)}]]
        BY <1>8, Zenon DEF Append
    <2>2. NewRow(c, new) \in Row
        BY DEF NewRow, Row
    <2>3. QED
        BY <1>8, <2>1, <2>2 DEF Append
<1>9. ASSUME NEW c \in Conns, Commit(c) PROVE TypeOK'
    BY <1>4, <1>9 DEF Commit
<1>10. ASSUME NEW c \in Conns, Rollback(c) PROVE TypeOK'
    BY <1>4, <1>10 DEF Rollback
<1>11. ASSUME NEW p \in Pods, PassSeed(p) PROVE TypeOK'
    BY <1>2, <1>11 DEF PassSeed
<1>12. ASSUME NEW p \in Pods, PassRead(p) PROVE TypeOK'
    BY <1>12 DEF PassRead, ReadSince
<1>13. ASSUME NEW p \in Pods, PassNothingNew(p) PROVE TypeOK'
    BY <1>3, <1>13 DEF PassNothingNew
<1>14. ASSUME NEW p \in Pods, PassFold(p) PROVE TypeOK'
    <2>1. PICK skew \in (-MaxSkew)..MaxSkew :
              \E last \in LastOf(pass[p].seed, SafeRows(p, skew)) :
                  AdvanceTo(p, FoldInto(p, pass[p].seed, SafeRows(p, skew), last))
        BY <1>14 DEF PassFold
    <2>2. PICK last \in LastOf(pass[p].seed, SafeRows(p, skew)) :
              AdvanceTo(p, FoldInto(p, pass[p].seed, SafeRows(p, skew), last))
        BY <2>1
    <2> DEFINE cp == FoldInto(p, pass[p].seed, SafeRows(p, skew), last)
    <2>3. SafeRows(p, skew) \in SUBSET Row
        BY DEF SafeRows, PartitionAtWindow
    <2>4. last \in Nat
        BY <2>3 DEF LastOf, Row, Checkpoint
    <2>5. cp \in Checkpoint
        BY <2>3, <2>4, FoldType
    <2>6. AdvanceTo(p, cp)
        BY <2>2
    <2> HIDE DEF cp
    <2>7. SavingPass(cp) \in
              [at : {"idle", "seeded", "read", "saving"}, seed : Checkpoint,
               hit : BOOLEAN, delta : SUBSET Row, readAt : Nat]
        BY <2>5 DEF SavingPass
    <2>8. cache' \in [Pods -> Checkpoint]
        BY <2>5, <2>6 DEF AdvanceTo
    <2>9. pass' \in [Pods -> [at : {"idle", "seeded", "read", "saving"}, seed : Checkpoint,
                              hit : BOOLEAN, delta : SUBSET Row, readAt : Nat]]
        <3>1. CASE Persists(p, cp)
            BY <2>6, <2>7, <3>1 DEF AdvanceTo
        <3>2. CASE ~Persists(p, cp)
            BY <1>3, <2>6, <3>2 DEF AdvanceTo
        <3>3. QED
            BY <3>1, <3>2
    <2>10. /\ cached' \subseteq Pods
           /\ UNCHANGED <<now, nextSeq, conn, log, knows, stored, readable>>
        BY <1>14, <2>6 DEF PassFold, AdvanceTo
    <2>11. QED
        BY <2>8, <2>9, <2>10
<1>15. ASSUME NEW p \in Pods, PassSave(p) PROVE TypeOK'
    <2>1. stored' \in Checkpoint /\ readable' \in BOOLEAN
        <3>1. CASE stored.seq <= pass[p].seed.seq
            BY <1>15, <3>1 DEF PassSave, Upsert
        <3>2. CASE ~(stored.seq <= pass[p].seed.seq)
            BY <1>15, <3>2 DEF PassSave, Upsert
        <3>3. QED
            BY <3>1, <3>2
    <2>2. QED
        BY <1>3, <1>15, <2>1 DEF PassSave
<1>16. ASSUME NEW p \in Pods, PassSaveFails(p) PROVE TypeOK'
    BY <1>3, <1>16 DEF PassSaveFails
<1>17. ASSUME NEW p \in Pods, Evict(p) PROVE TypeOK'
    BY <1>1, <1>17 DEF Evict
<1>18. ASSUME NEW p \in Pods, Restart(p) PROVE TypeOK'
    BY <1>1, <1>3, <1>18 DEF Restart
<1>19. CASE UNCHANGED vars
    BY <1>19 DEF vars
<1>20. QED
    BY <1>5, <1>6, <1>7, <1>8, <1>9, <1>10, <1>11, <1>12, <1>13, <1>14,
       <1>15, <1>16, <1>17, <1>18, <1>19 DEF Next

-----------------------------------------------------------------------------

\* The heart of the argument: with a wide enough window, the checkpoint a pass
\* advances to is sound.  A row that the pass did not read, at or below the
\* last row it folds, would have been created both after (read time - MaxTxn)
\* and at most MaxTxn after a row older than the window.
LEMMA FoldSound ==
    ASSUME WindowIsWideEnough, IndInv,
           NEW p \in Pods, pass[p].at = "read",
           NEW skew \in (-MaxSkew)..MaxSkew,
           NEW last \in LastOf(pass[p].seed, SafeRows(p, skew))
    PROVE  Sound(FoldInto(p, pass[p].seed, SafeRows(p, skew), last))
<1> DEFINE seed == pass[p].seed
           safe == SafeRows(p, skew)
           cp == FoldInto(p, seed, safe, last)
<1> USE ParametersAreNaturals DEF IndInv
<1>1. seed \in Checkpoint /\ seed.seq \in Nat /\ Sound(seed)
    BY DEF TypeOK, Checkpoint
<1>2. safe \subseteq pass[p].delta
    BY DEF SafeRows, PartitionAtWindow
<1>3. \A r \in Rows : r \in Row /\ r.seq \in Nat /\ r.created \in Nat
    BY DEF TypeOK, Rows, InFlight, Row
<1>4. \A r \in pass[p].delta : r \in log /\ r \in Rows /\ r.seq > seed.seq
    BY DEF Passes, Rows
<1>5. last \in Nat /\ seed.seq <= last /\ \A r \in safe : r.seq <= last
    BY <1>1, <1>2, <1>3, <1>4 DEF LastOf
<1>6. last < nextSeq
    BY <1>1, <1>2, <1>4 DEF LastOf, Sound, Sequences
<1>7. \A r \in Rows : r.seq > seed.seq /\ r.seq <= last => r \in safe
    <2> SUFFICES ASSUME NEW r \in Rows, r.seq > seed.seq, r.seq <= last
                 PROVE  r \in safe
        OBVIOUS
    <2>1. PICK a \in safe : a.seq = last
        BY <1>1, <1>3, <1>5 DEF LastOf
    <2>2. a \in pass[p].delta /\ a \in Rows
        BY <1>2, <1>4, <2>1
    <2>3. \A q \in pass[p].delta : q.seq <= last => q.created < now + skew - Window
        BY <2>1 DEF SafeRows, PartitionAtWindow
    <2>4. r \in pass[p].delta
        <3> SUFFICES ASSUME r \notin pass[p].delta PROVE FALSE
            OBVIOUS
        <3>1. pass[p].readAt <= r.created + MaxTxn
            BY DEF Passes
        <3>2. r.created <= a.created + MaxTxn
            BY <2>1, <2>2 DEF Sequences
        <3>3. a.created < now + skew - Window
            BY <1>3, <2>1, <2>2, <2>3
        <3>4. now <= pass[p].readAt + MaxRead
            BY DEF Passes
        <3>5. now \in Nat /\ pass[p].readAt \in Nat
            BY DEF TypeOK
        <3>6. QED
            BY <1>3, <2>2, <3>1, <3>2, <3>3, <3>4, <3>5 DEF WindowIsWideEnough
    <2>5. \A q \in pass[p].delta : q.seq <= r.seq => q.created < now + skew - Window
        BY <1>3, <1>4, <1>5, <2>3
    <2>6. QED
        BY <2>4, <2>5 DEF SafeRows, PartitionAtWindow
<1>8. cp.seq = last
      /\ cp.folded = seed.folded \cup {r \in safe : CanApply(p, r)}
      /\ cp.complete = (seed.complete /\ \A r \in safe : CanApply(p, r))
    BY DEF FoldInto
<1>9. \A r \in InFlight : last < r.seq
    <2> SUFFICES ASSUME NEW r \in InFlight, r.seq <= last PROVE FALSE
        BY <1>3, <1>5 DEF Rows
    <2>1. r \in Rows /\ r \notin log /\ seed.seq < r.seq
        BY <1>1 DEF Rows, InFlight, Transactions, Sound
    <2>2. QED
        BY <1>2, <1>4, <1>7, <2>1
<1>10. \A r \in cp.folded : r \in log /\ r.seq <= last
    BY <1>1, <1>2, <1>3, <1>4, <1>5, <1>8, SMTT(30) DEF Sound, Rows
<1>11. ASSUME NEW r \in log, r.seq <= last
       PROVE  r \in cp.folded \/ (r.new /\ ~cp.complete)
    <2>1. CASE r.seq <= seed.seq
        BY <1>1, <1>8, <2>1, Zenon DEF Sound
    <2>2. CASE r.seq > seed.seq
        <3>1. r \in safe
            BY <1>7, <1>11, <2>2 DEF Rows
        <3>2. CASE CanApply(p, r)
            BY <1>8, <3>1, <3>2
        <3>3. CASE ~CanApply(p, r)
            BY <1>8, <3>1, <3>3, Zenon DEF CanApply
        <3>4. QED
            BY <3>2, <3>3
    <2>3. QED
        BY <1>1, <1>3, <2>1, <2>2 DEF Rows
<1> HIDE DEF cp
<1>12. Sound(cp)
    BY <1>6, <1>8, <1>9, <1>10, <1>11 DEF Sound
<1>13. QED
    BY <1>12 DEF cp

\* A step that leaves the writers and the clock alone keeps what is said of
\* them, and keeps sound checkpoints sound.
LEMMA QuietStep ==
    ASSUME IndInv, UNCHANGED <<now, nextSeq, conn, log>>
    PROVE  /\ Rows' = Rows
           /\ Transactions'
           /\ Sequences'
           /\ \A cp \in Checkpoint : Sound(cp) => Sound(cp)'
BY SMTT(30) DEF IndInv, Rows, InFlight, Transactions, Sequences, Sound

\* A step of a pass: it is enough to look at the checkpoints and the passes.
LEMMA PassStep ==
    ASSUME IndInv, TypeOK', UNCHANGED <<now, nextSeq, conn, log>>, NEW p \in Pods,
           NEW q \in [at : {"idle", "seeded", "read", "saving"}, seed : Checkpoint,
                      hit : BOOLEAN, delta : SUBSET Row, readAt : Nat],
           pass' = [pass EXCEPT ![p] = q],
           \A x \in Pods : cache'[x] = cache[x] \/ Sound(cache'[x]),
           stored' = stored \/ (Sound(stored') /\ stored'.complete),
           Sound(q.seed),
           q.at = "saving" => q.seed.complete,
           q.at = "read" => /\ q.readAt = now
                            /\ q.delta = {r \in log : r.seq > q.seed.seq}
    PROVE  IndInv'
<1> USE ParametersAreNaturals
<1>1. Transactions' /\ Sequences'
    BY QuietStep
<1>2. \A x \in Pods : cache'[x] \in Checkpoint /\ Sound(cache'[x])
    BY DEF IndInv, TypeOK
<1>3. \A x \in Pods : Sound(cache[x])'
    BY <1>2 DEF Sound, InFlight
<1>4. Sound(stored)' /\ stored'.complete
    BY SMTT(30) DEF IndInv, Sound, InFlight
<1>5. \A x \in Pods : Sound(pass'[x].seed)
    BY DEF IndInv, TypeOK
<1>6. \A x \in Pods : Sound(pass[x].seed)'
    BY <1>5, SMTT(30) DEF Sound, InFlight
<1>7. Passes'
    <2> SUFFICES ASSUME NEW x \in Pods
                 PROVE  /\ pass'[x].at = "saving" => pass'[x].seed.complete
                        /\ pass'[x].at = "read" =>
                             /\ pass'[x].readAt <= now /\ now <= pass'[x].readAt + MaxRead
                             /\ \A r \in pass'[x].delta : r \in log /\ r.seq > pass'[x].seed.seq
                             /\ \A r \in Rows : r.seq > pass'[x].seed.seq =>
                                  r \in pass'[x].delta \/ pass'[x].readAt <= r.created + MaxTxn
        BY QuietStep DEF Passes
    <2>1. CASE x # p
        <3>1. pass'[x] = pass[x]
            BY <2>1 DEF IndInv, TypeOK
        <3>2. QED
            BY <3>1 DEF IndInv, Passes
    <2>2. CASE x = p
        <3>1. pass'[x] = q
            BY <2>2 DEF IndInv, TypeOK
        <3>2. ASSUME q.at = "read", NEW r \in Rows, r.seq > q.seed.seq, r \notin q.delta
              PROVE  q.readAt <= r.created + MaxTxn
            <4>1. PICK c \in Conns : r \in conn[c].rows
                BY <3>2 DEF Rows, InFlight
            <4>2. r.created = conn[c].start /\ now <= conn[c].start + MaxTxn
                BY <4>1 DEF IndInv, Transactions
            <4>3. QED
                BY <3>2, <4>2
        <3>3. now \in Nat
            BY DEF IndInv, TypeOK
        <3>4. q.at = "read" => q.readAt <= now /\ now <= q.readAt + MaxRead
            BY <3>3
        <3>5. QED
            BY <3>1, <3>2, <3>4
    <2>3. QED
        BY <2>1, <2>2, SMTT(30)
<1>8. QED
    BY <1>1, <1>3, <1>4, <1>6, <1>7, SMTT(30) DEF IndInv

\* A step of the writers or the clock: the checkpoints and passes stay, so it
\* is enough to look at the rows.  No row appears at or below a checkpoint, and
\* a row that appears after a pass has read is recent.
LEMMA WriterStep ==
    ASSUME IndInv, TypeOK', UNCHANGED <<cache, stored, pass>>,
           Transactions', Sequences',
           nextSeq <= nextSeq',
           log \subseteq log',
           \A r \in log' : r \in Rows,
           \A r \in InFlight' : r \in InFlight \/ (r.seq = nextSeq /\ now <= r.created + MaxTxn),
           now <= now',
           \A p \in Pods : pass[p].at = "read" => now' <= pass[p].readAt + MaxRead
    PROVE  IndInv'
<1>1. ASSUME NEW cp \in Checkpoint, Sound(cp)
      PROVE  /\ cp.seq < nextSeq'
             /\ \A r \in InFlight' : cp.seq < r.seq
             /\ \A r \in cp.folded : r \in log' /\ r.seq <= cp.seq
             /\ \A r \in log' : r.seq <= cp.seq => r \in cp.folded \/ (r.new /\ ~cp.complete)
    <2>1. cp.seq \in Nat /\ nextSeq \in Nat /\ nextSeq' \in Nat
        BY DEF Checkpoint, IndInv, TypeOK
    <2>2. \A r \in Rows : r.seq \in Nat
        BY DEF IndInv, TypeOK, Rows, InFlight, Row
    <2>3. \A r \in InFlight' : cp.seq < r.seq
        BY <1>1, <2>1 DEF Sound
    <2>4. \A r \in log' : r.seq <= cp.seq => r \in log
        BY <1>1, <2>1, <2>2 DEF Sound, Rows
    <2>5. QED
        BY <1>1, <2>1, <2>3, <2>4 DEF Sound
<1>2. \A p \in Pods : Sound(cache[p])' /\ Sound(pass[p].seed)'
    BY <1>1, SMTT(30) DEF IndInv, TypeOK, Sound
<1>3. Sound(stored)' /\ stored'.complete
    BY <1>1, SMTT(30) DEF IndInv, TypeOK, Sound
<1>4. Passes'
    <2> SUFFICES ASSUME NEW p \in Pods, pass[p].at = "read"
                 PROVE  /\ pass[p].readAt <= now' /\ now' <= pass[p].readAt + MaxRead
                        /\ \A r \in pass[p].delta : r \in log' /\ r.seq > pass[p].seed.seq
                        /\ \A r \in Rows' : r.seq > pass[p].seed.seq =>
                             r \in pass[p].delta \/ pass[p].readAt <= r.created + MaxTxn
        BY SMTT(30) DEF IndInv, Passes
    <2>1. now \in Nat /\ now' \in Nat /\ pass[p].readAt \in Nat /\ pass[p].readAt <= now
        BY DEF IndInv, TypeOK, Passes
    <2>2. \A r \in Rows' : r.created \in Nat
        BY DEF TypeOK, Rows, InFlight, Row
    <2>3. \A r \in Rows' : r \in Rows \/ now <= r.created + MaxTxn
        BY DEF Rows
    <2>4. \A r \in Rows : r.seq > pass[p].seed.seq =>
              r \in pass[p].delta \/ pass[p].readAt <= r.created + MaxTxn
        BY DEF IndInv, Passes
    <2>5. \A r \in pass[p].delta : r \in log' /\ r.seq > pass[p].seed.seq
        BY DEF IndInv, Passes
    <2>6. QED
        BY <2>1, <2>2, <2>3, <2>4, <2>5, ParametersAreNaturals
<1>5. QED
    BY <1>2, <1>3, <1>4 DEF IndInv

\* Begin, Append, Commit, Rollback and Tick keep the invariant.
LEMMA WritersKeepInv ==
    ASSUME IndInv, TypeOK',
           Tick \/ \E c \in Conns : Begin(c) \/ Append(c) \/ Commit(c) \/ Rollback(c)
    PROVE  IndInv'
<1> USE ParametersAreNaturals
<1>1. \A r : r \in InFlight <=> \E c \in Conns : r \in conn[c].rows
    BY DEF InFlight
<1>2. \A r : r \in InFlight' <=> \E c \in Conns : r \in conn'[c].rows
    BY DEF InFlight
<1>3. now \in Nat /\ nextSeq \in Nat
      /\ \A r \in Rows : r \in Row /\ r.seq \in Nat /\ r.created \in Nat
    BY <1>1 DEF IndInv, TypeOK, Rows, Row
<1>4. \A c \in Conns : conn[c].start \in Nat
    BY DEF IndInv, TypeOK
<1>5. \A p \in Pods : pass[p].at = "read" => now <= pass[p].readAt + MaxRead
    BY SMTT(30) DEF IndInv, Passes
<1>6. CASE Tick
    <2>1. InFlight' = InFlight /\ Rows' = Rows
        BY <1>6 DEF Tick, InFlight, Rows
    <2>2. Transactions'
        BY <1>3, <1>4, <1>6, SMTT(30) DEF Tick, IndInv, Transactions
    <2>3. Sequences'
        BY <1>3, <1>6, <2>1, SMTT(30) DEF Tick, IndInv, Sequences
    <2>4. \A p \in Pods : pass[p].at = "read" => now' <= pass[p].readAt + MaxRead
        BY <1>3, <1>6 DEF Tick, IndInv, TypeOK
    <2>5. now <= now' /\ UNCHANGED <<nextSeq, log, cache, stored, pass>>
        BY <1>3, <1>6 DEF Tick
    <2>6. nextSeq <= nextSeq'
        BY <1>3, <2>5
    <2>7. \A r \in log' : r \in Rows
        BY <2>5 DEF Rows
    <2>8. QED
        BY <2>1, <2>2, <2>3, <2>4, <2>5, <2>6, <2>7, WriterStep, Zenon
<1>7. ASSUME NEW c \in Conns, Begin(c) PROVE IndInv'
    <2>1. conn[c].rows = {} /\ conn'[c].rows = {}
          /\ \A d \in Conns : d # c => conn'[d] = conn[d]
        BY <1>7, Zenon DEF Begin, IndInv, TypeOK, Transactions
    <2>2. InFlight' = InFlight /\ Rows' = Rows
        BY <1>1, <1>2, <1>7, <2>1, Zenon DEF Begin, Rows
    <2>3. Transactions'
        <3>1. conn'[c].start = now
            BY <1>7, SMTT(30) DEF Begin, IndInv, TypeOK
        <3>2. now <= conn'[c].start + MaxTxn /\ conn'[c].start <= now
            BY <1>3, <3>1
        <3>3. UNCHANGED <<now, log>>
            BY <1>7, SMTT(30) DEF Begin
        <3>4. Transactions
            BY DEF IndInv
        <3> DEFINE Ok(d) == /\ conn'[d].open => conn'[d].start <= now /\ now <= conn'[d].start + MaxTxn
                            /\ \A r \in conn'[d].rows :
                                  /\ conn'[d].open /\ r.created = conn'[d].start
                                  /\ r \notin log
                                  /\ \A e \in Conns : r \in conn'[e].rows => d = e
        <3>5. Ok(c)
            BY <2>1, <3>2, Zenon
        <3>6. ASSUME NEW d \in Conns, d # c PROVE Ok(d)
            <4>1. conn'[d] = conn[d]
                BY <2>1, <3>6, Zenon
            <4>2. \A e \in Conns : \A r : r \in conn'[e].rows => r \in conn[e].rows
                BY <2>1, Zenon
            <4>3. QED
                BY <3>4, <4>1, <4>2, Zenon DEF Transactions
        <3>7. \A d \in Conns : Ok(d)
            BY <3>5, <3>6, Zenon
        <3>8. QED
            BY <3>3, <3>7, Zenon DEF Transactions
    <2>4. Sequences'
        <3>1. now' = now /\ nextSeq' = nextSeq
            BY <1>7, Zenon DEF Begin
        <3>2. QED
            BY <2>2, <3>1, Zenon DEF IndInv, Sequences
    <2>5. UNCHANGED <<now, nextSeq, log, cache, stored, pass>>
        BY <1>7, Zenon DEF Begin
    <2>6. nextSeq <= nextSeq' /\ now <= now'
        BY <1>3, <2>5
    <2>7. \A r \in log' : r \in Rows
        BY <2>5 DEF Rows
    <2>8. \A p \in Pods : pass[p].at = "read" => now' <= pass[p].readAt + MaxRead
        BY <1>5, <2>5, Zenon
    <2>9. QED
        BY <2>2, <2>3, <2>4, <2>5, <2>6, <2>7, <2>8, WriterStep, Zenon
<1>8. ASSUME NEW c \in Conns, Append(c) PROVE IndInv'
    <2>1. PICK new \in BOOLEAN :
              conn' = [conn EXCEPT ![c] =
                          [open |-> TRUE, start |-> conn[c].start,
                           rows |-> conn[c].rows \cup {NewRow(c, new)}]]
        BY <1>8, Zenon DEF Append
    <2> DEFINE row == NewRow(c, new)
    <2>2. row.seq = nextSeq /\ row.created = conn[c].start
        BY DEF NewRow
    <2>3. conn'[c].open /\ conn'[c].start = conn[c].start
          /\ conn'[c].rows = conn[c].rows \cup {row}
          /\ \A d \in Conns : d # c => conn'[d] = conn[d]
        BY <2>1 DEF IndInv, TypeOK
    <2> HIDE DEF row
    <2>4. conn[c].open /\ conn[c].start <= now /\ now <= conn[c].start + MaxTxn
        BY <1>8 DEF Append, IndInv, Transactions
    <2>5. \A r : r \in InFlight' <=> r \in InFlight \/ r = row
        BY <1>1, <1>2, <2>3
    <2>6. \A r : r \in Rows' <=> r \in Rows \/ r = row
        BY <1>8, <2>5 DEF Append, Rows
    <2>7. 0 < nextSeq /\ \A r \in Rows : 0 < r.seq /\ r.seq < nextSeq /\ r.created <= now
        BY DEF IndInv, Sequences
    <2>8. row \notin Rows
        BY <1>3, <2>2, <2>7
    <2>9. Transactions'
        <3> SUFFICES ASSUME NEW d \in Conns
                     PROVE  /\ conn'[d].open => conn'[d].start <= now /\ now <= conn'[d].start + MaxTxn
                            /\ \A r \in conn'[d].rows :
                                  /\ conn'[d].open /\ r.created = conn'[d].start
                                  /\ r \notin log
                                  /\ \A e \in Conns : r \in conn'[e].rows => d = e
            BY <1>8 DEF Append, Transactions
        <3>1. row \notin log /\ \A e \in Conns : row \notin conn[e].rows
            BY <1>1, <2>8, SMTT(30) DEF Rows
        <3>2. QED
            BY <2>2, <2>3, <2>4, <3>1, SMTT(30) DEF IndInv, Transactions
    <2>10. Sequences'
        <3> SUFFICES /\ 0 < nextSeq + 1
                     /\ \A r \in Rows' : 0 < r.seq /\ r.seq < nextSeq + 1 /\ r.created <= now
                     /\ \A a, b \in Rows' : b.seq <= a.seq => b.created <= a.created + MaxTxn
            BY <1>8 DEF Append, Sequences
        <3>1. 0 < nextSeq + 1
              /\ \A r \in Rows' : 0 < r.seq /\ r.seq < nextSeq + 1 /\ r.created <= now
            BY <1>3, <2>2, <2>4, <2>6, <2>7
        <3>2. ASSUME NEW a \in Rows', NEW b \in Rows', b.seq <= a.seq
              PROVE  b.created <= a.created + MaxTxn
            <4>1. CASE a = row
                BY <1>3, <1>4, <2>2, <2>4, <2>6, <2>7, <4>1
            <4>2. CASE a # row
                <5>1. a \in Rows /\ b \in Rows
                    BY <1>3, <2>2, <2>6, <2>7, <3>2, <4>2
                <5>2. QED
                    BY <3>2, <5>1 DEF IndInv, Sequences
            <4>3. QED
                BY <4>1, <4>2
        <3>3. QED
            BY <3>1, <3>2
    <2>11. QED
        BY <1>3, <1>5, <1>8, <2>2, <2>4, <2>5, <2>9, <2>10, WriterStep DEF Append, Rows
<1>9. ASSUME NEW c \in Conns, Commit(c) PROVE IndInv'
    <2>1. conn'[c].rows = {} /\ ~conn'[c].open
          /\ \A d \in Conns : d # c => conn'[d] = conn[d]
        BY <1>9, SMTT(30) DEF Commit, IdleConn, IndInv, TypeOK
    <2>2. \A r : r \in Rows' <=> r \in Rows
        BY <1>1, <1>2, <1>9, <2>1, SMTT(30) DEF Commit, Rows
    <2>3. Transactions'
        BY <1>9, <2>1, SMTT(30) DEF Commit, IndInv, Transactions
    <2>4. Sequences'
        BY <1>9, <2>2, Zenon DEF Commit, IndInv, Sequences
    <2>5. \A r \in InFlight' : r \in InFlight
        BY <1>1, <1>2, <2>1, SMTT(30)
    <2>6. QED
        BY <1>3, <1>5, <1>9, <2>2, <2>3, <2>4, <2>5, WriterStep, SMTT(30) DEF Commit, Rows
<1>10. ASSUME NEW c \in Conns, Rollback(c) PROVE IndInv'
    <2>1. conn'[c].rows = {} /\ ~conn'[c].open
          /\ \A d \in Conns : d # c => conn'[d] = conn[d]
        BY <1>10, SMTT(30) DEF Rollback, IdleConn, IndInv, TypeOK
    <2>2. (\A r \in InFlight' : r \in InFlight) /\ \A r \in Rows' : r \in Rows
        BY <1>1, <1>2, <1>10, <2>1, SMTT(30) DEF Rollback, Rows
    <2>3. Transactions'
        BY <1>10, <2>1, SMTT(30) DEF Rollback, IndInv, Transactions
    <2>4. Sequences'
        BY <1>10, <2>2, SMTT(30) DEF Rollback, IndInv, Sequences
    <2>5. QED
        BY <1>3, <1>5, <1>10, <2>2, <2>3, <2>4, WriterStep, SMTT(30) DEF Rollback, Rows
<1>11. QED
    BY <1>6, <1>7, <1>8, <1>9, <1>10

\* The sequence a fold ends at, its last row's or its seed's, is a number.
LEMMA LastType ==
    ASSUME NEW cp \in Checkpoint, NEW rows \in SUBSET Row, NEW last \in LastOf(cp, rows)
    PROVE  last \in Nat
<1>1. cp.seq \in Nat /\ \A r \in rows : r.seq \in Nat
    BY DEF Checkpoint, Row
<1>2. last = cp.seq \/ \E r \in rows : last = r.seq
    BY Zenon DEF LastOf
<1>3. QED
    BY <1>1, <1>2, Zenon

\* The passes, evictions, restarts and damaged rows keep the invariant.
LEMMA PassesKeepInv ==
    ASSUME WindowIsWideEnough, IndInv, TypeOK', NEW p \in Pods,
           \/ PassSeed(p) \/ PassRead(p) \/ PassNothingNew(p) \/ PassFold(p)
           \/ PassSave(p) \/ PassSaveFails(p) \/ Evict(p) \/ Restart(p)
    PROVE  IndInv'
<1> DEFINE PassType == [at : {"idle", "seeded", "read", "saving"}, seed : Checkpoint,
                        hit : BOOLEAN, delta : SUBSET Row, readAt : Nat]
<1>1. ZeroCheckpoint \in Checkpoint /\ Sound(ZeroCheckpoint)
    <2>1. \A r \in Rows : r.seq \in Nat
        BY SMTT(30) DEF IndInv, TypeOK, Rows, InFlight, Row
    <2>2. 0 < nextSeq /\ \A r \in Rows : 0 < r.seq
        BY SMTT(30) DEF IndInv, Sequences
    <2>3. QED
        BY <2>1, <2>2, SMTT(30) DEF ZeroCheckpoint, Checkpoint, Sound, Rows
<1>2. pass[p] \in PassType /\ pass[p].seed \in Checkpoint /\ Sound(pass[p].seed)
    BY DEF IndInv, TypeOK
<1>3. IdlePass \in PassType /\ IdlePass.at = "idle" /\ IdlePass.seed = ZeroCheckpoint
    BY <1>1 DEF IdlePass
<1>4. Seed(p) \in Checkpoint /\ Sound(Seed(p))
    BY <1>1 DEF Seed, IndInv, TypeOK
<1>5. CASE PassSeed(p)
    <2> DEFINE q == [at |-> "seeded", seed |-> Seed(p), hit |-> p \in cached,
                     delta |-> {}, readAt |-> 0]
    <2>1. (p \in cached) \in BOOLEAN
        OBVIOUS
    <2>2. q.at = "seeded" /\ q.seed = Seed(p)
        OBVIOUS
    <2>3. q \in PassType
        BY <1>4, <2>1, SMTT(30)
    <2>4. pass' = [pass EXCEPT ![p] = q] /\ UNCHANGED <<now, nextSeq, conn, log, cache, stored>>
        BY <1>5, Zenon DEF PassSeed
    <2> HIDE DEF q
    <2>5. QED
        BY <1>4, <2>2, <2>3, <2>4, PassStep, Zenon
<1>6. CASE PassRead(p)
    <2> DEFINE q == [at |-> "read", seed |-> pass[p].seed, hit |-> pass[p].hit,
                     delta |-> ReadSince(log, pass[p].seed.seq), readAt |-> now]
    <2>1. q \in PassType /\ q.at = "read" /\ q.seed = pass[p].seed /\ q.readAt = now
          /\ q.delta = {r \in log : r.seq > pass[p].seed.seq}
        BY <1>2, SMTT(30) DEF ReadSince, IndInv, TypeOK
    <2>2. pass' = [pass EXCEPT ![p] = q] /\ UNCHANGED <<now, nextSeq, conn, log, cache, stored>>
        BY <1>6 DEF PassRead
    <2> HIDE DEF q
    <2>3. QED
        BY <1>2, <2>1, <2>2, PassStep, Zenon
<1>7. CASE PassNothingNew(p)
    BY <1>1, <1>3, <1>7, PassStep, Zenon DEF PassNothingNew
<1>8. CASE PassFold(p)
    <2>1. PICK skew \in (-MaxSkew)..MaxSkew :
              \E last \in LastOf(pass[p].seed, SafeRows(p, skew)) :
                  AdvanceTo(p, FoldInto(p, pass[p].seed, SafeRows(p, skew), last))
        BY <1>8, Zenon DEF PassFold
    <2>2. PICK last \in LastOf(pass[p].seed, SafeRows(p, skew)) :
              AdvanceTo(p, FoldInto(p, pass[p].seed, SafeRows(p, skew), last))
        BY <2>1
    <2> DEFINE cp == FoldInto(p, pass[p].seed, SafeRows(p, skew), last)
               q == IF Persists(p, cp) THEN SavingPass(cp) ELSE IdlePass
    <2>3. SafeRows(p, skew) \in SUBSET Row
        BY DEF SafeRows, PartitionAtWindow, IndInv, TypeOK
    <2>4. last \in Nat
        BY <1>2, <2>3, LastType, Zenon
    <2>5. cp \in Checkpoint
        BY <1>2, <2>3, <2>4, FoldType
    <2>6. Sound(cp)
        BY <1>8, FoldSound, Zenon DEF PassFold
    <2>7. AdvanceTo(p, cp)
        BY <2>2
    <2> HIDE DEF cp
    <2>8. SavingPass(cp) \in PassType /\ SavingPass(cp).at = "saving" /\ SavingPass(cp).seed = cp
        BY <2>5, SMTT(30) DEF SavingPass
    <2>9. q \in PassType /\ Sound(q.seed) /\ q.at # "read"
          /\ (q.at = "saving" => q.seed.complete)
        BY <1>1, <1>3, <2>6, <2>8, SMTT(30) DEF Persists
    <2>10. pass' = [pass EXCEPT ![p] = q]
        BY <2>7 DEF AdvanceTo
    <2>11. \A x \in Pods : cache'[x] = cache[x] \/ Sound(cache'[x])
        BY <2>6, <2>7 DEF AdvanceTo, IndInv, TypeOK
    <2>12. UNCHANGED <<now, nextSeq, conn, log, stored>>
        BY <1>8, Zenon DEF PassFold
    <2> HIDE DEF q
    <2>13. QED
        BY <2>9, <2>10, <2>11, <2>12, PassStep, Zenon
<1>9. CASE PassSave(p)
    <2>1. stored' = stored \/ stored' = pass[p].seed
        BY <1>9, Zenon DEF PassSave, Upsert
    <2>2. pass[p].seed.complete
        BY <1>9, Zenon DEF PassSave, IndInv, Passes
    <2>3. QED
        BY <1>1, <1>2, <1>3, <1>9, <2>1, <2>2, PassStep, Zenon DEF PassSave
<1>10. CASE PassSaveFails(p)
    BY <1>1, <1>3, <1>10, PassStep, Zenon DEF PassSaveFails
<1>11. CASE Evict(p)
    <2>1. \A x \in Pods : cache'[x] = cache[x] \/ Sound(cache'[x])
        BY <1>1, <1>11 DEF Evict, IndInv, TypeOK
    <2>2. Sound(pass[p].seed) /\ (pass[p].at = "saving" => pass[p].seed.complete)
        BY Zenon DEF IndInv, Passes
    <2>3. \A x \in Pods : Sound(cache'[x]) /\ cache'[x] \in Checkpoint
        BY <2>1 DEF IndInv, TypeOK
    <2>4. Transactions' /\ Sequences' /\ Rows' = Rows
        BY <1>11, QuietStep DEF Evict
    <2>5. \A x \in Pods : Sound(cache[x])'
        BY <1>11, <2>3, Zenon DEF Evict, Sound, InFlight
    <2>6. Sound(stored)' /\ stored'.complete /\ \A x \in Pods : Sound(pass[x].seed)'
        BY <1>11, Zenon DEF Evict, IndInv, Sound, InFlight
    <2>7. Passes'
        BY <1>11, <2>4, Zenon DEF Evict, IndInv, Passes
    <2>8. QED
        BY <2>4, <2>5, <2>6, <2>7, Zenon DEF IndInv
<1>12. CASE Restart(p)
    <2>1. \A x \in Pods : cache'[x] = cache[x] \/ Sound(cache'[x])
        BY <1>1, <1>12, SMTT(30) DEF Restart, IndInv, TypeOK
    <2>2. QED
        BY <1>1, <1>3, <1>12, <2>1, PassStep, Zenon DEF Restart
<1>13. QED
    BY <1>5, <1>6, <1>7, <1>8, <1>9, <1>10, <1>11, <1>12

\* The invariant is inductive.
LEMMA StepInv == WindowIsWideEnough /\ IndInv /\ [Next]_vars => IndInv'
<1> SUFFICES ASSUME WindowIsWideEnough, IndInv, [Next]_vars PROVE IndInv'
    OBVIOUS
<1>1. TypeOK'
    BY TypeStep DEF IndInv
<1>2. CASE Tick \/ \E c \in Conns : Begin(c) \/ Append(c) \/ Commit(c) \/ Rollback(c)
    BY <1>1, <1>2, WritersKeepInv
<1>3. ASSUME NEW p \in Pods,
             \/ PassSeed(p) \/ PassRead(p) \/ PassNothingNew(p) \/ PassFold(p)
             \/ PassSave(p) \/ PassSaveFails(p) \/ Evict(p) \/ Restart(p)
      PROVE  IndInv'
    BY <1>1, <1>3, PassesKeepInv
<1>4. CASE UNCHANGED <<now, nextSeq, conn, log, cached, cache, stored, pass>>
    <2>1. Transactions' /\ Sequences' /\ Rows' = Rows
        BY <1>4, QuietStep
    <2>2. \A p \in Pods : Sound(cache[p])' /\ Sound(pass[p].seed)'
        BY <1>4, Zenon DEF IndInv, Sound, InFlight
    <2>3. Sound(stored)' /\ stored'.complete
        BY <1>4, SMTT(30) DEF IndInv, Sound, InFlight
    <2>4. Passes'
        BY <1>4, <2>1, SMTT(30) DEF IndInv, Passes
    <2>5. QED
        BY <1>1, <2>1, <2>2, <2>3, <2>4, Zenon DEF IndInv
<1>5. QED
    BY <1>2, <1>3, <1>4 DEF Next, RowUnreadable, vars

-----------------------------------------------------------------------------

\* The type invariant holds of every behaviour, whatever the window.
THEOREM TypeCorrect == Spec => []TypeOK
<1>1. Init => TypeOK
    BY InitInv DEF IndInv
<1>2. QED
    BY <1>1, TypeStep, PTL DEF Spec

\* With a window that covers two transaction lifetimes, the delay of a pass and
\* the clock skew, project_account_incremental never checkpoints past a row that
\* is still in flight.
THEOREM CheckpointsStayBehind == WindowIsWideEnough => (Spec => []NeverPastInFlight)
<1> SUFFICES ASSUME WindowIsWideEnough PROVE Spec => []NeverPastInFlight
    OBVIOUS
<1>1. IndInv => NeverPastInFlight
    BY SMTT(30) DEF IndInv, Sound, NeverPastInFlight, Checkpoints
<1>2. IndInv /\ [Next]_vars => IndInv'
    BY StepInv
<1>3. QED
    BY <1>1, <1>2, InitInv, PTL DEF Spec

\* With such a window every checkpoint, cached, stored or in the hands of a
\* pass, is a replay of the log from zero.
THEOREM CheckpointsAreReplays == WindowIsWideEnough => (Spec => []CheckpointIsReplay)
<1> SUFFICES ASSUME WindowIsWideEnough PROVE Spec => []CheckpointIsReplay
    OBVIOUS
<1>1. IndInv => CheckpointIsReplay
    BY SMTT(30) DEF IndInv, Sound, CheckpointIsReplay, Checkpoints, LogUpTo
<1>2. IndInv /\ [Next]_vars => IndInv'
    BY StepInv
<1>3. QED
    BY <1>1, <1>2, InitInv, PTL DEF Spec

\* A pod whose release applies every event type holds only complete folds: its
\* entry and its pass start empty or from the stored row, which is complete, and
\* a restart with another release loses both.
KnowingPodsAreComplete ==
    \A p \in knows : cache[p].complete /\ pass[p].seed.complete

\* Steps of the passes, the cache and the releases keep that.
LEMMA KnowingStep ==
    IndInv /\ KnowingPodsAreComplete /\ [Next]_vars => KnowingPodsAreComplete'
<1> SUFFICES ASSUME IndInv, KnowingPodsAreComplete, [Next]_vars,
                    NEW p \in knows'
             PROVE  cache'[p].complete /\ pass'[p].seed.complete
    BY DEF KnowingPodsAreComplete
<1>1. TypeOK /\ stored.complete
    BY DEF IndInv
<1>2. ZeroCheckpoint.complete /\ IdlePass.seed.complete
    BY DEF ZeroCheckpoint, IdlePass
<1>3. CASE UNCHANGED <<cache, pass, knows>>
    BY <1>3, Zenon DEF KnowingPodsAreComplete
<1>4. ASSUME NEW q \in Pods, q = p => p \in knows, UNCHANGED <<cache, knows>>,
             NEW new, pass' = [pass EXCEPT ![q] = new], q = p => new.seed.complete
      PROVE  cache'[p].complete /\ pass'[p].seed.complete
    BY <1>1, <1>4, SMTT(30) DEF KnowingPodsAreComplete, TypeOK
<1>5. ASSUME NEW q \in Pods, PassSeed(q) PROVE cache'[p].complete /\ pass'[p].seed.complete
    <2>1. p \in knows => Seed(p).complete
        BY <1>1, <1>2 DEF Seed, KnowingPodsAreComplete
    <2>2. knows' = knows
        BY <1>5, Zenon DEF PassSeed
    <2>3. QED
        BY <1>4, <1>5, <2>1, <2>2 DEF PassSeed
<1>6. ASSUME NEW q \in Pods, PassRead(q) PROVE cache'[p].complete /\ pass'[p].seed.complete
    BY <1>4, <1>6 DEF PassRead, KnowingPodsAreComplete
<1>7. ASSUME NEW q \in Pods, PassNothingNew(q) \/ PassSave(q) \/ PassSaveFails(q)
      PROVE  cache'[p].complete /\ pass'[p].seed.complete
    BY <1>2, <1>4, <1>7 DEF PassNothingNew, PassSave, PassSaveFails
<1>8. ASSUME NEW q \in Pods, PassFold(q) PROVE cache'[p].complete /\ pass'[p].seed.complete
    <2>1. PICK skew \in (-MaxSkew)..MaxSkew :
              \E last \in LastOf(pass[q].seed, SafeRows(q, skew)) :
                  AdvanceTo(q, FoldInto(q, pass[q].seed, SafeRows(q, skew), last))
        BY <1>8, Zenon DEF PassFold
    <2>2. PICK last \in LastOf(pass[q].seed, SafeRows(q, skew)) :
              AdvanceTo(q, FoldInto(q, pass[q].seed, SafeRows(q, skew), last))
        BY <2>1
    <2> DEFINE cp == FoldInto(q, pass[q].seed, SafeRows(q, skew), last)
    <2>3. knows' = knows
        BY <1>8, Zenon DEF PassFold
    <2>4. q = p => cp.complete
        BY <2>3 DEF FoldInto, CanApply, KnowingPodsAreComplete
    <2>5. AdvanceTo(q, cp)
        BY <2>2
    <2> HIDE DEF cp
    <2>6. cache'[p] = cache[p] \/ (q = p /\ cache'[p] = cp)
        BY <1>1, <2>5 DEF AdvanceTo, TypeOK
    <2>7. cache[p].complete /\ pass[p].seed.complete
        BY <2>3 DEF KnowingPodsAreComplete
    <2>8. pass'[p] = pass[p] \/ pass'[p] = IdlePass \/ (q = p /\ pass'[p] = SavingPass(cp))
        BY <1>1, <2>5 DEF AdvanceTo, TypeOK
    <2>9. SavingPass(cp).seed = cp
        BY DEF SavingPass
    <2>10. QED
        BY <1>2, <2>4, <2>6, <2>7, <2>8, <2>9, Zenon
<1>9. ASSUME NEW q \in Pods, Evict(q) PROVE cache'[p].complete /\ pass'[p].seed.complete
    BY <1>1, <1>2, <1>9 DEF Evict, TypeOK, KnowingPodsAreComplete
<1>10. ASSUME NEW q \in Pods, Restart(q) PROVE cache'[p].complete /\ pass'[p].seed.complete
    <2>1. CASE q = p
        BY <1>1, <1>2, <1>10, <2>1 DEF Restart, TypeOK
    <2>2. CASE q # p
        BY <1>1, <1>10, <2>2 DEF Restart, TypeOK, KnowingPodsAreComplete
    <2>3. QED
        BY <2>1, <2>2
<1>11. QED
    BY <1>3, <1>5, <1>6, <1>7, <1>8, <1>9, <1>10, Zenon
       DEF Next, vars, Tick, RowUnreadable, Begin, Append, Commit, Rollback

\* With such a window, what a fill's transaction projects from a checkpoint is
\* what a fold from zero would show it: only rows its release cannot apply are
\* missing.
THEOREM TransactionsSeeReplays == WindowIsWideEnough => (Spec => []InTransactionIsReplay)
<1> SUFFICES ASSUME WindowIsWideEnough PROVE Spec => []InTransactionIsReplay
    OBVIOUS
<1>1. ASSUME IndInv, KnowingPodsAreComplete PROVE InTransactionIsReplay
    <2> SUFFICES ASSUME NEW p \in Pods, NEW c \in Conns
                 PROVE  /\ InTransaction(p, c) \subseteq log \cup conn[c].rows
                        /\ \A r \in log \cup conn[c].rows :
                               r \in InTransaction(p, c) \/ ~CanApply(p, r)
        BY DEF InTransactionIsReplay
    <2>1. \A r \in Rows : r.seq \in Nat /\ 0 < r.seq
        BY <1>1, SMTT(30) DEF IndInv, TypeOK, Sequences, Rows, InFlight, Row
    <2>2. CASE p \in cached \/ readable
        <3>1. Sound(Seed(p)) /\ Seed(p).seq \in Nat
            BY <1>1, <2>2 DEF Seed, IndInv, TypeOK, Checkpoint
        <3>2. p \in knows => Seed(p).complete
            BY <1>1, <2>2 DEF Seed, IndInv, KnowingPodsAreComplete
        <3>3. \A r \in conn[c].rows : r \in InFlight
            BY SMTT(30) DEF InFlight
        <3>4. QED
            BY <2>1, <3>1, <3>2, <3>3 DEF InTransaction, ReadSince, CanApply, Sound, Rows
    <2>3. CASE ~(p \in cached \/ readable)
        <3>1. Seed(p).folded = {} /\ Seed(p).seq = 0
            BY <2>3 DEF Seed, ZeroCheckpoint
        <3>2. \A r \in log \cup conn[c].rows : r.seq > 0
            BY <2>1 DEF InFlight, Rows
        <3>3. QED
            BY <3>1, <3>2 DEF InTransaction, ReadSince
    <2>4. QED
        BY <2>2, <2>3
<1>2. Init => IndInv /\ KnowingPodsAreComplete
    BY InitInv DEF Init, KnowingPodsAreComplete, IdlePass, ZeroCheckpoint
<1>3. IndInv /\ KnowingPodsAreComplete /\ [Next]_vars => (IndInv /\ KnowingPodsAreComplete)'
    BY StepInv, KnowingStep
<1>4. QED
    BY <1>1, <1>2, <1>3, PTL DEF Spec

\* With such a window the stored row is a complete fold, so a restart resumes
\* from a state with no row missing.
THEOREM StoredRowsAreComplete == WindowIsWideEnough => (Spec => []StoredIsComplete)
<1> SUFFICES ASSUME WindowIsWideEnough PROVE Spec => []StoredIsComplete
    OBVIOUS
<1>1. IndInv => StoredIsComplete
    BY DEF IndInv, Sound, StoredIsComplete, LogUpTo
<1>2. IndInv /\ [Next]_vars => IndInv'
    BY StepInv
<1>3. QED
    BY <1>1, <1>2, InitInv, PTL DEF Spec

\* The upsert never moves the stored row back, whatever the window.
THEOREM StoredRowAdvances == Spec => StoredOnlyAdvances
<1>1. TypeOK /\ [Next]_vars => [stored.seq <= stored'.seq]_vars
    <2> SUFFICES ASSUME TypeOK, [Next]_vars PROVE stored.seq <= stored'.seq
        OBVIOUS
    <2>1. stored.seq \in Nat
        BY DEF TypeOK, Checkpoint
    <2>2. stored' = stored \/ \E p \in Pods : PassSave(p)
        BY Zenon DEF Next, vars, Tick, RowUnreadable, Begin, Append, Commit, Rollback, PassSeed,
               PassRead, PassNothingNew, PassFold, PassSaveFails, Evict, Restart
    <2>3. QED
        BY <2>1, <2>2 DEF PassSave, Upsert
<1>2. QED
    BY <1>1, TypeCorrect, PTL DEF Spec, StoredOnlyAdvances
=============================================================================
