----------------------------- MODULE TxSchedule -----------------------------
(***************************************************************************)
(* The beacon_tx_schedule table of adapters/storage.py as a value: a       *)
(* function whose domain is the set of rows' primary keys.  A row stands   *)
(* for one transmittable unit of an item: its single voice clip, or one    *)
(* AX.25 frame per row of the chunks table.                                *)
(*                                                                         *)
(* Every operator below is one committed transaction of storage.py, so it  *)
(* is also the grain of atomicity of the modules that use the table.       *)
(*                                                                         *)
(* What is abstracted in a row:                                            *)
(*   due    what _transmit_due computes from last_transmitted_at and the   *)
(*          schedule of the row's policy;                                  *)
(*   stale  updated_at is older than BEACON_MAX_QUEUED_AGE_SECONDS;        *)
(*   rowid  the order of (created_at, rowid), which is insertion order: of *)
(*          the numbers that are larger than the others', any will do;     *)
(*   gen    enqueued_event_id, 0 for NULL.                                 *)
(***************************************************************************)
EXTENDS Integers, FiniteSets, Functions

CONSTANTS Items,     \* items.(source, item_id)
          Chunks,    \* the chunk indexes an item may have
          MaxRowid   \* bound on rowids; the runs never reach it

ASSUME ChunksAssumption   == Chunks \subseteq Nat
ASSUME MaxRowidAssumption == MaxRowid \in Nat \ {0}

Kinds == {"voice", "frame"}
NoRef == -1                        \* the ref '' of a voice row

Unit == [item : Items, kind : {"voice"}, ref : {NoRef}]
            \cup [item : Items, kind : {"frame"}, ref : Chunks]
Row  == [sent : Nat, due : BOOLEAN, stale : BOOLEAN, gen : Nat, rowid : Nat]

Table(t) == /\ DOMAIN t \subseteq Unit
            /\ t \in [DOMAIN t -> Row]

\* The rows one item needs on the air: one voice row, or one per chunk.
UnitsOf(i, k, cs) ==
    [item : {i}, kind : {k}, ref : IF k = "frame" THEN cs ELSE {NoRef}]

OfKind(t, k)  == {u \in DOMAIN t : u.kind = k}
Without(t, S) == Restrict(t, DOMAIN t \ S)

HasRoom(t)   == \A u \in DOMAIN t : t[u].rowid < MaxRowid
NextRowid(t) == CHOOSE n \in 1 .. MaxRowid : \A u \in DOMAIN t : t[u].rowid < n

\* INSERT ... ON CONFLICT DO UPDATE: a conflict resets the progress of the
\* row and keeps its created_at (and its rowid).
Upsert(t, u, gen, due) ==
    [v \in DOMAIN t \cup {u} |->
        IF v # u THEN t[v]
        ELSE [sent |-> 0, due |-> due, stale |-> FALSE, gen |-> gen,
              rowid |-> IF u \in DOMAIN t THEN t[u].rowid ELSE NextRowid(t)]]

\* Rows of the same kind that ORDER BY created_at DESC, rowid DESC puts first.
OlderRows(t, u) == {v \in OfKind(t, u.kind) : t[v].rowid < t[u].rowid}  \* a mutant: ASC
NewerRows(t, u) == {v \in OfKind(t, u.kind) : t[v].rowid > t[u].rowid}

Trim(t, k, max) ==
    Restrict(t, {u \in DOMAIN t : u.kind = k => Cardinality(NewerRows(t, u)) < max})

\* max_size None is 0 here: neither trims.
AddUnit(t, u, gen, due, max) ==
    LET added == Upsert(t, u, gen, due)
    IN  IF max > 0 THEN Trim(added, u.kind, max) ELSE added

\* sent_count + 1, last_transmitted_at and updated_at now.  Two mutants first: the
\* budget counted down, an airing not counted.
Counted(row, n) == [sent |-> row.sent + n, due |-> FALSE, stale |-> FALSE,
                    gen |-> row.gen, rowid |-> row.rowid]
CountedDown(row) == Counted(row, -1)
NotCounted(row)  == Counted(row, 0)
Attempted(row)   == Counted(row, 1)

\* A mutant: the row is brought back if it is gone.
RecordSentUpserts(t, u, retire) ==
    IF retire THEN Without(t, {u})
    ELSE IF u \in DOMAIN t THEN [t EXCEPT ![u] = Attempted(@)]
    ELSE Upsert(t, u, 0, FALSE)

\* DELETE when the budget is spent, else UPDATE: by primary key, so neither touches
\* anything when the row is gone.
RecordSent(t, u, retire) ==
    CASE retire                    -> Without(t, {u})
      [] ~retire /\ u \in DOMAIN t -> [t EXCEPT ![u] = Attempted(@)]
      [] OTHER                     -> t

StaleRows(t, k)      == {u \in OfKind(t, k) : t[u].stale}
RowsOfItem(t, i)     == {u \in DOMAIN t : u.item = i}
RowsOfOtherKinds(t, k) == {u \in DOMAIN t : u.kind # k}

\* A row no other row of the table comes before.
IsOldest(t, u) == u \in DOMAIN t /\ \A v \in DOMAIN t : t[u].rowid <= t[v].rowid
=============================================================================
