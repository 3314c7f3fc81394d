------------------------------ MODULE StoreSeal ------------------------------
(***************************************************************************)
(* Sealing of the campaign store at rest: StoreSeal and PluginKeys in      *)
(* sidecar/ryu_research/ryu_content_seal.py.                               *)
(*                                                                         *)
(* An engine opens the store with the keys it was given.  From the key     *)
(* check value recorded in the store it decides whether it may write and   *)
(* whether it seals; it then migrates every column, a batch of rows at a   *)
(* time behind a cursor, and scrubs the plaintext that sealing freed.  It  *)
(* may die at any step, another engine may be at it too, and the next one  *)
(* may hold other keys, or none.                                           *)
(***************************************************************************)
EXTENDS Integers, FiniteSets

CONSTANTS
    Engine,        \* processes that open the store
    Key,           \* sealing keys, named as their check values are
    NoKey,         \* no key delivered, no check value recorded
    Delivery,      \* what an engine may be given: [key, retired]
    Columns, Rows, \* bounds: sealed columns, and rows in the order of their key
    Batch,         \* rows migrated in one transaction
    MaxOpens,      \* bound: openings of the store
    MaxWrites      \* bound: values written

ASSUME SealAssumption ==
    /\ NoKey \notin Key
    /\ Delivery \subseteq [key : Key \cup {NoKey}, retired : SUBSET Key]
    /\ {Columns, Rows, Batch, MaxOpens, MaxWrites} \subseteq Nat
    /\ Batch > 0 /\ Columns > 0
    /\ Key \cap {"empty", "plain", "junk"} = {}

VARIABLES
    cell,          \* the stored values, by column and row
    column,        \* ryu_content_seal, by column
    store,         \* ryu_content_seal, the row of the whole store
    residue,       \* where plaintext that was sealed since is still on the disk
    proc,          \* the engines
    opens, writes,
    events         \* history variable: what the properties make exceptions for

vars == <<cell, column, store, residue, proc, opens, writes, events>>

Column == 1..Columns
Row == 1..Rows

\* A value is sealed under a key, or plaintext, or one that no key opens.
Value == Key \cup {"empty", "plain", "junk"}
\* No row of the table is the state "none"; its kcv tells that a store was sealed.
ColumnState == [state : {"none", "sealing", "sealed"}, cursor : 0..Rows,
                kcv : Key \cup {NoKey}]
StoreState == [state : {"none", "vacuum_pending", "scrubbed", "sealed"},
               kcv : Key \cup {NoKey}]
Events == {"mixed", "shared", "skipped", "forgotten"}

Down == [at |-> "down", key |-> NoKey, retired |-> {}, status |-> "none",
         recorded |-> NoKey, column |-> 1, cursor |-> 0, seen |-> <<>>,
         unreadable |-> FALSE, resealed |-> FALSE, retired_left |-> FALSE,
         vacuum_pending |-> FALSE, scrubbed |-> FALSE]

Init ==
    /\ cell \in [Column -> [Row -> {"empty", "plain", "junk"}]]
    /\ column = [c \in Column |-> [state |-> "none", cursor |-> 0, kcv |-> NoKey]]
    /\ store = [state |-> "none", kcv |-> NoKey]
    /\ residue = {}
    /\ proc = [e \in Engine |-> Down]
    /\ opens = 0
    /\ writes = 0
    /\ events = {}

Up(e) == proc[e].at # "down"
Migrating == {"column", "select", "commit", "end", "report"}
Sealing == {"record", "current", "retired"}
HoldsSealed == store.kcv # NoKey \/ \E c \in Column : column[c].kcv # NoKey
\* Text that begins with "encb:v" but is no envelope, which this query of the code does
\* not count and open_text takes for plaintext, is not among the values.
HoldsPlaintext(c) == \E r \in Row : cell[c][r] = "plain"

\* store_key_state.
KeyState(d) ==
    IF d.key = NoKey THEN (IF HoldsSealed THEN "no_key" ELSE "compat")
    ELSE IF store.kcv = NoKey THEN "record"
    ELSE IF store.kcv = d.key THEN "current"
    ELSE IF store.kcv \in d.retired THEN "retired" ELSE "mismatch"

\* Engines that seal under one key, and others that seal under another or not at all.
Mixed(d, status) ==
    \E f \in Engine :
        /\ Up(f) /\ proc[f].key # d.key
        /\ {status, proc[f].status} \subseteq Sealing \cup {"compat"}

\* Another engine is still in its startup.
Shared == \E f \in Engine : proc[f].at \notin {"down", "open", "serving"}

PendingAtOpenMutant(status) ==  \* mutant: only the first key makes a scrub pending
    status = "record"
PendingAtOpen(status) ==
    store.state \in {"vacuum_pending", "scrubbed"} \/ status = "record"

Open(e, d) ==
    LET status == KeyState(d)
    IN  /\ ~Up(e)
        /\ opens < MaxOpens
        /\ opens' = opens + 1
        /\ proc' = [proc EXCEPT ![e] = [Down EXCEPT
               !.at = IF status \in Sealing THEN "column" ELSE "open",
               !.key = d.key, !.retired = d.retired, !.status = status,
               !.recorded = store.kcv, !.retired_left = (status = "retired"),
               !.vacuum_pending = PendingAtOpen(status),
               !.scrubbed = PendingAtOpen(status) /\ store.state = "scrubbed"]]
        /\ events' = events \cup (IF Mixed(d, status) THEN {"mixed"} ELSE {})
                            \cup (IF Shared THEN {"shared"} ELSE {})
        /\ UNCHANGED <<cell, column, store, residue, writes>>

-----------------------------------------------------------------------------
(* migrate.                                                                *)

NextColumn(p) == [p EXCEPT !.at = IF p.column = Columns THEN "report" ELSE "column",
                      !.column = IF p.column = Columns THEN 1 ELSE p.column + 1]

SettledMutant(p) ==            \* mutant: a sealed column is taken at its word
    column[p.column].state = "sealed" /\ ~p.retired_left
Settled(p) == /\ column[p.column].state = "sealed" /\ ~p.retired_left
              /\ ~HoldsPlaintext(p.column)

\* The scan is resumed, and behind the cursor is a value that is not under the key.
Skips(p) == \E r \in 1..column[p.column].cursor :
    cell[p.column][r] \notin {"empty", p.key}

StartColumn(e) ==
    LET p == proc[e]
    IN  /\ p.at = "column"
        /\ proc' = [proc EXCEPT ![e] =
               IF Settled(p) THEN NextColumn(p)
               ELSE [p EXCEPT !.at = "select", !.cursor = column[p.column].cursor]]
        /\ events' = events \cup (IF ~Settled(p) /\ Skips(p) THEN {"skipped"} ELSE {})
        /\ UNCHANGED <<cell, column, store, residue, opens, writes>>

\* The next batch is read in autocommit.
Select(e) ==
    LET p    == proc[e]
        rows == {r \in Row : p.cursor < r /\ r <= p.cursor + Batch}
    IN  /\ p.at = "select"
        /\ proc' = [proc EXCEPT ![e] = [p EXCEPT
               !.at = IF rows = {} THEN "end" ELSE "commit",
               !.seen = [r \in rows |-> cell[p.column][r]]]]
        /\ UNCHANGED <<cell, column, store, residue, opens, writes, events>>

Readable(p, v) == v \in {"empty", "plain", p.key} \cup p.retired
Stale(p, v) == v \in ({"plain"} \cup p.retired) \ {p.key}

\* Reseals what changed neither key nor value since, and moves the cursor.
Commit(e) ==
    LET p      == proc[e]
        rows   == DOMAIN p.seen
        sealed == {r \in rows : Stale(p, p.seen[r]) /\ cell[p.column][r] = p.seen[r]}
        last   == CHOOSE r \in rows : \A q \in rows : q <= r
    IN  /\ p.at = "commit"
        /\ cell' = [cell EXCEPT ![p.column] =
               [r \in Row |-> IF r \in sealed THEN p.key ELSE @[r]]]
        /\ residue' = residue \cup (IF \E r \in sealed : p.seen[r] = "plain"
                                    THEN {"freed", "slack"} ELSE {})
        /\ column' = [column EXCEPT ![p.column] =
               [state |-> "sealing", cursor |-> last, kcv |-> p.key]]
        /\ proc' = [proc EXCEPT ![e] = [p EXCEPT
               !.at = "select", !.cursor = last, !.seen = <<>>,
               !.unreadable = @ \/ \E r \in rows : ~Readable(p, p.seen[r]),
               !.resealed = @ \/ \E r \in rows : Stale(p, p.seen[r])]]
        /\ UNCHANGED <<store, opens, writes, events>>

AfterColumn(p) == [state |-> "sealed", cursor |-> 0, kcv |-> p.key]

EndColumn(e) ==
    LET p == proc[e]
    IN  /\ p.at = "end"
        /\ column' = [column EXCEPT ![p.column] = AfterColumn(p)]
        /\ proc' = [proc EXCEPT ![e] = NextColumn([p EXCEPT !.cursor = 0, !.seen = <<>>])]
        /\ UNCHANGED <<cell, store, residue, opens, writes, events>>

\* _write_store_state.
StateOf(p) ==
    [state |-> IF ~p.vacuum_pending THEN "sealed"
               ELSE IF p.scrubbed THEN "scrubbed" ELSE "vacuum_pending",
     kcv   |-> IF p.retired_left THEN p.recorded ELSE p.key]

LeftMutant(p) == FALSE         \* mutant: the new key is recorded in any case
Left(p) == p.retired_left /\ p.unreadable

\* The startup is over; what it found stays in the status.
Opened(p) == [Down EXCEPT !.at = "open", !.key = p.key, !.status = p.status]

Report(e) ==
    LET p    == proc[e]
        done == [p EXCEPT !.at = "finish", !.retired_left = Left(p),
                          !.vacuum_pending = @ \/ p.resealed,
                          !.scrubbed = @ /\ ~p.resealed]
    IN  /\ p.at = "report"
        /\ store' = StateOf(done)
        /\ proc' = [proc EXCEPT ![e] = IF done.vacuum_pending THEN done ELSE Opened(p)]
        /\ UNCHANGED <<cell, column, residue, opens, writes, events>>

-----------------------------------------------------------------------------
(* _finish: any part may fail, or lack the room, and waits for the next start. *)

Scrub(e) ==
    /\ proc[e].at = "finish" /\ ~proc[e].scrubbed
    /\ proc' = [proc EXCEPT ![e] = [@ EXCEPT !.scrubbed = TRUE, !.at = "scrubbed"]]
    /\ residue' = residue \ {"freed"}
    /\ UNCHANGED <<cell, column, store, opens, writes, events>>

Vacuum(e) ==
    /\ proc[e].at = "finish" /\ proc[e].scrubbed
    /\ proc' = [proc EXCEPT ![e] =
           [@ EXCEPT !.vacuum_pending = FALSE, !.scrubbed = FALSE, !.at = "vacuumed"]]
    /\ residue' = {}
    /\ UNCHANGED <<cell, column, store, opens, writes, events>>

Record(e) ==
    LET p == proc[e]
    IN  /\ p.at \in {"scrubbed", "vacuumed"}
        /\ store' = StateOf(p)
        /\ proc' = [proc EXCEPT ![e] =
               IF p.at = "scrubbed" THEN [p EXCEPT !.at = "finish"] ELSE Opened(p)]
        /\ UNCHANGED <<cell, column, residue, opens, writes, events>>

Defer(e) ==
    /\ proc[e].at = "finish"
    /\ proc' = [proc EXCEPT ![e] = Opened(@)]
    /\ UNCHANGED <<cell, column, store, residue, opens, writes, events>>

-----------------------------------------------------------------------------
(* The engines around it.                                                  *)

\* The engine binds the port, or ends because another has it.
Bind(e) ==
    /\ proc[e].at = "open"
    /\ proc' = [proc EXCEPT ![e] = IF \E f \in Engine : proc[f].at = "serving"
                                   THEN Down ELSE [@ EXCEPT !.at = "serving"]]
    /\ UNCHANGED <<cell, column, store, residue, opens, writes, events>>

\* seal_text, as the state found at the opening says; refused if it is not writable.
Written(p) == IF p.status \in Sealing THEN p.key ELSE "plain"

Write(e, c, r) ==
    LET p == proc[e]
    IN  /\ p.at = "serving"
        /\ p.status \in Sealing \cup {"compat"}
        /\ cell[c][r] = "empty"
        /\ writes < MaxWrites
        /\ writes' = writes + 1
        /\ cell' = [cell EXCEPT ![c][r] = Written(p)]
        /\ UNCHANGED <<column, store, residue, proc, opens, events>>

\* An older version of the app runs: it knows of no keys.
OldBuildWrites(c, r) ==
    /\ \A e \in Engine : ~Up(e)
    /\ cell[c][r] = "empty"
    /\ writes < MaxWrites
    /\ writes' = writes + 1
    /\ cell' = [cell EXCEPT ![c][r] = "plain"]
    /\ UNCHANGED <<column, store, residue, proc, opens, events>>

\* Stopped, or killed.
Die(e) ==
    /\ Up(e)
    /\ proc' = [proc EXCEPT ![e] = Down]
    /\ events' = events \cup
           (IF /\ proc[e].resealed /\ proc[e].at \in Migrating
               /\ store.kcv # NoKey /\ store.state # "vacuum_pending"
            THEN {"forgotten"} ELSE {})
    /\ UNCHANGED <<cell, column, store, residue, opens, writes>>

Migrate(e) ==
    \/ StartColumn(e)
    \/ Select(e)
    \/ Commit(e)
    \/ EndColumn(e)
    \/ Report(e)
    \/ Scrub(e)
    \/ Vacuum(e)
    \/ Record(e)
    \/ Defer(e)

Next ==
    \/ \E e \in Engine : Migrate(e) \/ Bind(e) \/ Die(e) \/ \E d \in Delivery : Open(e, d)
    \/ \E c \in Column, r \in Row : OldBuildWrites(c, r) \/ \E e \in Engine : Write(e, c, r)

Spec == Init /\ [][Next]_vars

-----------------------------------------------------------------------------
(* Properties.                                                             *)

\* The tables and the engines have their declared shape.
TypeOK ==
    /\ cell \in [Column -> [Row -> Value]]
    /\ column \in [Column -> ColumnState]
    /\ \A c \in Column : column[c].cursor # 0 => column[c].state = "sealing"
    /\ store \in StoreState
    /\ residue \subseteq {"freed", "slack"}
    /\ \A e \in Engine : /\ proc[e].column \in Column /\ proc[e].cursor \in 0..Rows
                         /\ proc[e].vacuum_pending \/ ~proc[e].scrubbed
    /\ opens \in 0..MaxOpens /\ writes \in 0..MaxWrites
    /\ events \subseteq Events

\* An engine that has migrated the store serves one with no plaintext in it, also
\* when it took over from one that died in the middle (migrate).  Exceptions: an
\* engine with another key, or none, was open beside it, or its scan skipped values.
ServesNoPlaintext ==
    events \cap {"mixed", "skipped"} = {} =>
        \A e \in Engine :
            proc[e].at \in {"finish", "scrubbed", "vacuumed", "open", "serving"} /\ proc[e].status \in Sealing
            => \A c \in Column : ~HoldsPlaintext(c)

\* "the current KCV is recorded only once nothing is left unreadable" (StoreSeal): an
\* engine's key is recorded in place of another only when it opens every value.  (The
\* key an engine found may come back: one that left values unreadable records it again,
\* also over that of an engine beside it which held more retired keys.)  Exceptions: a
\* scan resumed behind a value that its key does not open, and engines with
\* different keys beside each other.
TakesOverAll ==
    /\ store.kcv # NoKey /\ store'.kcv # store.kcv
    /\ \E e \in Engine : proc[e].status \in Sealing /\ proc[e].key = store'.kcv
    => \A c \in Column, r \in Row : cell[c][r] \in {"empty", store'.kcv}
KeyTakesOverAll == [][events \cap {"mixed", "skipped"} = {} => TakesOverAll]_vars

\* No two startups were ever at the store at once, and none died between a reseal and
\* the store's row while that row held a key and no pending scrub.
Undisturbed == events \cap {"shared", "forgotten"} = {}

\* With every engine down, plaintext that sealing left on the disk is remembered by the
\* store until it is gone: its first migration may die anywhere (no key is recorded
\* yet), and any later one once its store's row is written, or while a scrub is pending
\* anyway.  Two named exceptions, where the code forgets it: a death of a later
\* migration (a rotation, a rescan after an older version) between resealing a batch
\* and its store's row (forgotten), and a second startup that writes the store's row
\* from its own view of it (shared).
ResidueIsPending ==
    /\ Undisturbed
    /\ residue # {}
    /\ \A e \in Engine : ~Up(e)
    => \/ store.kcv = NoKey
       \/ store.state = "vacuum_pending"
       \/ store.state = "scrubbed" /\ "freed" \notin residue

=============================================================================
