---------------------------- MODULE StoreSealProofs ----------------------------
(***************************************************************************)
(* What TLAPS proves of StoreSeal, for any number of engines, columns,     *)
(* rows and keys, whatever is delivered to whom, and every bound.          *)
(***************************************************************************)
EXTENDS StoreSeal, TLAPS

-----------------------------------------------------------------------------
(* The inductive invariant.                                                *)

Writers == Sealing \cup {"compat"}
Finishing == {"finish", "scrubbed", "vacuumed"}
Starting == Migrating \cup Finishing

\* A batch that was read: the values of some rows.
Batches == UNION {[S -> Value] : S \in SUBSET Row}

Proc == [at : Starting \cup {"down", "open", "serving"}, key : Key \cup {NoKey},
         retired : SUBSET Key, status : Writers \cup {"no_key", "mismatch", "none"},
         recorded : Key \cup {NoKey}, column : Column, cursor : 0..Rows, seen : Batches,
         unreadable : BOOLEAN, resealed : BOOLEAN, retired_left : BOOLEAN,
         vacuum_pending : BOOLEAN, scrubbed : BOOLEAN]

\* The declared shape of everything but the engines.
Shapes ==
    /\ cell \in [Column -> [Row -> Value]]
    /\ column \in [Column -> ColumnState]
    /\ \A c \in Column : column[c].cursor # 0 => column[c].state = "sealing"
    /\ store \in StoreState
    /\ (store.kcv = NoKey) <=> (store.state = "none")
    /\ residue \subseteq {"freed", "slack"}
    /\ opens \in 0..MaxOpens /\ writes \in 0..MaxWrites
    /\ events \subseteq Events

\* What an engine remembers fits the place it is at and the status it found.
Fits(p) ==
    /\ p.at = "down" => p.status = "none"
    /\ p.at \in Starting => p.status \in Sealing
    /\ p.status \in Sealing => p.key \in Key
    /\ p.status = "compat" => p.key = NoKey
    /\ p.at \in Starting =>
           /\ p.status = "record" => p.recorded = NoKey
           /\ p.status = "current" => p.recorded = p.key
           /\ p.status = "retired" => p.recorded \in Key \ {p.key}
           /\ p.retired_left => p.status = "retired"
    /\ p.at \in Migrating /\ p.status = "retired" => p.retired_left
    /\ p.at \in Finishing => (p.vacuum_pending <=> p.at # "vacuumed")
    /\ p.at = "scrubbed" => p.scrubbed
    /\ p.scrubbed => p.vacuum_pending
    /\ p.at = "commit" =>
           /\ DOMAIN p.seen = {r \in Row : p.cursor < r /\ r <= p.cursor + Batch}
           /\ DOMAIN p.seen # {}
    /\ p.at = "end" => p.cursor = Rows

Clean == events \cap {"mixed", "skipped"} = {}

\* Engines beside each other write under one key, or none of them seals.
OneKey ==
    \A e, f \in Engine :
        /\ Up(e) /\ proc[e].status \in Writers
        /\ Up(f) /\ proc[f].status \in Writers
        => proc[e].key = proc[f].key

AllUnder(cells, key) == \A c \in Column, r \in Row : cells[c][r] \in {"empty", key}

\* The rows that an engine's scan has passed.
Behind(p, c, r) ==
    \/ p.at \in Migrating /\ c < p.column
    \/ p.at \in {"select", "commit", "end"} /\ c = p.column /\ r <= p.cursor
    \/ p.at = "report"

\* What a scan has passed is no plaintext, and under the engine's key if it rescans and
\* found nothing unreadable; what it has read stays as it is or is sealed with its key.
Scanned(p, cells) ==
    \A c \in Column, r \in Row :
        /\ Behind(p, c, r) =>
               /\ cells[c][r] # "plain"
               /\ p.retired_left /\ ~p.unreadable => cells[c][r] \in {"empty", p.key}
        /\ p.at \notin Migrating => cells[c][r] # "plain"
        /\ p.at = "commit" /\ c = p.column /\ r \in DOMAIN p.seen =>
               cells[c][r] \in {p.seen[r], p.key}
        /\ p.at \in Finishing /\ p.status = "retired" /\ ~p.retired_left =>
               cells[c][r] \in {"empty", p.key}

\* The key recorded in the store is the one an engine found, unless it is the first or
\* every value is under the engine's own.
Recorded(p, kcv, cells) ==
    kcv # p.recorded => \/ p.recorded = NoKey /\ kcv = p.key
                        \/ AllUnder(cells, p.key)

Sealed ==
    Clean => /\ OneKey
             /\ \A e \in Engine : proc[e].status \in Sealing => Scanned(proc[e], cell)
             /\ \A e \in Engine :
                    proc[e].at \in Starting => Recorded(proc[e], store.kcv, cell)

Alone ==
    \A e, f \in Engine : proc[e].at \in Starting /\ proc[f].at \in Starting => e = f

\* The store says what plaintext is left on the disk.
Remembers(s, left) ==
    \/ s.kcv = NoKey
    \/ left = {}
    \/ s.state = "vacuum_pending"
    \/ s.state = "scrubbed" /\ "freed" \notin left

\* What an engine in its startup makes of the store's row.
Tracks(p, s, left) ==
    /\ p.at \in Migrating =>
           /\ p.recorded = s.kcv
           /\ p.vacuum_pending <=>
                  s.state \in {"vacuum_pending", "scrubbed"} \/ p.status = "record"
           /\ p.scrubbed => s.state = "scrubbed"
    /\ p.at \in Finishing /\ p.scrubbed => "freed" \notin left
    /\ p.at = "vacuumed" => left = {}

Resealing(p) == p.at \in Migrating /\ p.resealed

Kept ==
    Undisturbed =>
        /\ Alone
        /\ (\A e \in Engine : ~Resealing(proc[e])) => Remembers(store, residue)
        /\ \A e \in Engine : Tracks(proc[e], store, residue)

SInv == /\ Shapes
        /\ proc \in [Engine -> Proc]
        /\ \A e \in Engine : Fits(proc[e])
        /\ Sealed
        /\ Kept

-----------------------------------------------------------------------------
(* Keys, statuses and the invariant's parts under change.                  *)

\* The sets of places and statuses, spelled out.
LEMMA Places ==
    /\ Migrating = {"column", "select", "commit", "end", "report"}
    /\ Finishing = {"finish", "scrubbed", "vacuumed"}
    /\ Starting = {"column", "select", "commit", "end", "report", "finish", "scrubbed", "vacuumed"}
    /\ Sealing = {"record", "current", "retired"}
    /\ Writers = {"record", "current", "retired", "compat"}
BY DEF Migrating, Finishing, Starting, Sealing, Writers

\* A key is no other value, and no value when none was delivered.
LEMMA KeysAreKeys ==
    /\ \A k \in Key : k # "empty" /\ k # "plain" /\ k # "junk" /\ k # NoKey /\ k \in Value
    /\ "empty" \in Value /\ "plain" \in Value /\ "junk" \in Value
    /\ Columns \in Nat \ {0} /\ Rows \in Nat /\ Batch \in Nat \ {0}
    /\ MaxOpens \in Nat /\ MaxWrites \in Nat
BY SealAssumption DEF Value

\* No batch read yet.
LEMMA NoBatch == <<>> \in Batches
<1>1. <<>> \in [{} -> Value]
    OBVIOUS
<1>2. {} \in SUBSET Row
    OBVIOUS
<1>3. QED
    BY <1>1, <1>2 DEF Batches

\* Sealing more values under an engine's key spoils no scan of its own.
LEMMA ScannedStays ==
    ASSUME NEW p, NEW cells, NEW more, Scanned(p, cells),
           \A c \in Column, r \in Row : more[c][r] \in {cells[c][r], p.key},
           p.key # "plain"
    PROVE  Scanned(p, more)
<1> SUFFICES ASSUME NEW c \in Column, NEW r \in Row
             PROVE  /\ Behind(p, c, r) =>
                           /\ more[c][r] # "plain"
                           /\ p.retired_left /\ ~p.unreadable => more[c][r] \in {"empty", p.key}
                    /\ p.at \notin Migrating => more[c][r] # "plain"
                    /\ p.at = "commit" /\ c = p.column /\ r \in DOMAIN p.seen =>
                           more[c][r] \in {p.seen[r], p.key}
                    /\ p.at \in Finishing /\ p.status = "retired" /\ ~p.retired_left =>
                           more[c][r] \in {"empty", p.key}
    BY DEF Scanned
<1>1. CASE more[c][r] = cells[c][r]
    BY <1>1 DEF Scanned
<1>2. CASE more[c][r] = p.key
    BY <1>2
<1>3. QED
    BY <1>1, <1>2

\* Nor does it spoil what the store's key says.
LEMMA RecordedStays ==
    ASSUME NEW p, NEW kcv, NEW cells, NEW more, Recorded(p, kcv, cells),
           \A c \in Column, r \in Row : more[c][r] \in {cells[c][r], p.key}
    PROVE  Recorded(p, kcv, more)
BY DEF Recorded, AllUnder

\* In a state of the invariant, engines that seal beside each other have one key.
LEMMA SameKey ==
    ASSUME SInv, Clean, NEW e \in Engine, NEW f \in Engine,
           proc[e].status \in Writers, proc[f].status \in Writers
    PROVE  proc[e].key = proc[f].key
<1>1. Up(e) /\ Up(f)
    BY Places DEF SInv, Fits, Up
<1>2. QED
    BY <1>1 DEF SInv, Sealed, OneKey

\* The fields of an engine.
LEMMA TypedEngine ==
    ASSUME SInv, NEW e \in Engine
    PROVE  /\ proc[e] \in Proc /\ Fits(proc[e])
           /\ proc[e].at \in Starting \cup {"down", "open", "serving"}
           /\ proc[e].key \in Key \cup {NoKey} /\ proc[e].retired \subseteq Key
           /\ proc[e].status \in Writers \cup {"no_key", "mismatch", "none"}
           /\ proc[e].recorded \in Key \cup {NoKey}
           /\ proc[e].column \in Column /\ proc[e].cursor \in 0..Rows
           /\ proc[e].seen \in Batches
BY DEF SInv, Proc

-----------------------------------------------------------------------------
(* One engine moves.                                                       *)

\* A step of one engine that is already up keeps the invariant if its own row fits, what
\* it seals is sealed with its key, and the row of the store is right for all.
LEMMA EngineMoves ==
    ASSUME SInv, NEW e \in Engine, NEW p \in Proc,
           proc' = [proc EXCEPT ![e] = p],
           Fits(p), Shapes', events \subseteq events',
           p.at # "down" => Up(e) /\ p.key = proc[e].key /\ p.status = proc[e].status,
           p.at \in Starting => proc[e].at \in Starting,
           Clean' => /\ \A f \in Engine : proc[f].status \in Sealing =>
                            \A c \in Column, r \in Row : cell'[c][r] \in {cell[c][r], proc[f].key}
                     /\ p.status \in Sealing => Scanned(p, cell')
                     /\ p.at \in Starting => Recorded(p, store'.kcv, cell')
                     /\ \A f \in Engine \ {e} : proc[f].at \in Starting =>
                            Recorded(proc[f], store'.kcv, cell'),
           Undisturbed' =>
               /\ (\A f \in Engine \ {e} : ~Resealing(proc[f])) /\ ~Resealing(p) =>
                      Remembers(store', residue')
               /\ Tracks(p, store', residue')
               /\ \A f \in Engine \ {e} : Tracks(proc[f], store', residue')
    PROVE  SInv'
<1>1. /\ proc' \in [Engine -> Proc] /\ proc'[e] = p
      /\ \A f \in Engine \ {e} : proc'[f] = proc[f]
    BY DEF SInv
<1>2. \A f \in Engine : Fits(proc'[f])
    BY <1>1 DEF SInv
<1>3. ASSUME Clean' PROVE Clean /\ OneKey'
    <2>1. Clean
        BY <1>3 DEF Clean
    <2>2. \A f \in Engine : Up(f)' /\ proc'[f].status \in Writers =>
              Up(f) /\ proc[f].status \in Writers /\ proc'[f].key = proc[f].key
        BY <1>1 DEF Up
    <2>3. QED
        BY <2>1, <2>2 DEF SInv, Sealed, OneKey
<1>4. ASSUME Clean', NEW f \in Engine, proc'[f].status \in Sealing
      PROVE  Scanned(proc'[f], cell')
    <2>1. CASE f = e
        BY <1>1, <1>4, <2>1
    <2>2. CASE f # e
        <3>1. proc'[f] = proc[f] /\ Scanned(proc[f], cell) /\ proc[f].key \in Key
            BY <1>1, <1>3, <1>4, <2>2 DEF SInv, Sealed, Fits
        <3>2. \A c \in Column, r \in Row : cell'[c][r] \in {cell[c][r], proc[f].key}
            BY <1>4, <3>1
        <3>3. QED
            BY <3>1, <3>2, KeysAreKeys, ScannedStays
    <2>3. QED
        BY <2>1, <2>2
<1>5. ASSUME Clean', NEW f \in Engine, proc'[f].at \in Starting
      PROVE  Recorded(proc'[f], store'.kcv, cell')
    BY <1>1, <1>5
<1>6. Sealed'
    BY <1>3, <1>4, <1>5 DEF Sealed
<1>7. Kept'
    <2> SUFFICES ASSUME Undisturbed' PROVE Kept'
        BY DEF Kept
    <2>1. Undisturbed
        BY DEF Undisturbed
    <2>2. Alone'
        BY <1>1, <2>1 DEF SInv, Kept, Alone
    <2>3. (\A f \in Engine : ~Resealing(proc'[f])) => Remembers(store', residue')
        BY <1>1
    <2>4. \A f \in Engine : Tracks(proc'[f], store', residue')
        BY <1>1
    <2>5. QED
        BY <2>2, <2>3, <2>4 DEF Kept
<1>8. QED
    BY <1>1, <1>2, <1>6, <1>7 DEF SInv

-----------------------------------------------------------------------------
(* The scan.                                                               *)

\* The engine goes on to the next column, or has been through all.
LEMMA Nexts ==
    ASSUME NEW q \in Proc
    PROVE  LET n == NextColumn(q)
           IN  /\ n \in Proc
               /\ n = [q EXCEPT !.at = n.at, !.column = n.column]
               /\ q.column = Columns => n.at = "report"
               /\ q.column # Columns => n.at = "column" /\ n.column = q.column + 1
               /\ n.at \in {"column", "report"}
               /\ n.key = q.key /\ n.status = q.status /\ n.retired = q.retired
               /\ n.recorded = q.recorded /\ n.cursor = q.cursor /\ n.seen = q.seen
               /\ n.unreadable = q.unreadable /\ n.resealed = q.resealed
               /\ n.retired_left = q.retired_left
               /\ n.vacuum_pending = q.vacuum_pending /\ n.scrubbed = q.scrubbed
<1> DEFINE n == NextColumn(q)
           to == IF q.column = Columns THEN "report" ELSE "column"
           c  == IF q.column = Columns THEN 1 ELSE q.column + 1
<1>1. n = [q EXCEPT !.at = to, !.column = c]
    BY DEF NextColumn
<1>2. to \in {"report", "column"} /\ c \in Column
    BY KeysAreKeys DEF Proc, Column
<1>3. QED
    BY <1>1, <1>2, Places DEF Proc

\* StartColumn: what is settled holds no plaintext; what is resumed is sealed behind
\* the cursor, or the engine is told to have skipped values.
LEMMA StartsColumn ==
    ASSUME SInv, NEW e \in Engine, StartColumn(e)
    PROVE  SInv'
<1> DEFINE p == proc[e]
           q == IF Settled(p) THEN NextColumn(p)
                ELSE [p EXCEPT !.at = "select", !.cursor = column[p.column].cursor]
<1>1. /\ p.at = "column" /\ proc' = [proc EXCEPT ![e] = q]
      /\ UNCHANGED <<cell, column, store, residue, opens, writes>>
      /\ events' = events \cup (IF ~Settled(p) /\ Skips(p) THEN {"skipped"} ELSE {})
    BY DEF StartColumn
<1>2. p \in Proc /\ Fits(p) /\ p.column \in Column
    BY TypedEngine
<1>3. /\ q \in Proc /\ q.at \in {"column", "report", "select"}
      /\ q.key = p.key /\ q.status = p.status /\ q.recorded = p.recorded
      /\ q.unreadable = p.unreadable /\ q.resealed = p.resealed
      /\ q.retired_left = p.retired_left /\ q.scrubbed = p.scrubbed
      /\ q.vacuum_pending = p.vacuum_pending
    <2>1. CASE Settled(p)
        BY <1>2, <2>1, Nexts
    <2>2. CASE ~Settled(p)
        <3>1. column[p.column].cursor \in 0..Rows
            BY <1>2 DEF SInv, Shapes, ColumnState
        <3>2. q = [p EXCEPT !.at = "select", !.cursor = column[p.column].cursor]
            BY <2>2
        <3>3. QED
            BY <1>2, <3>1, <3>2, Places DEF Proc
    <2>3. QED
        BY <2>1, <2>2
<1>4. ASSUME Clean', p.status \in Sealing PROVE Scanned(q, cell)
    <2>1. Scanned(p, cell) /\ (Settled(p) \/ ~Skips(p)) /\ p.key \in Key
        BY <1>1, <1>2, <1>4 DEF Clean, SInv, Sealed, Fits
    <2> SUFFICES ASSUME NEW c \in Column, NEW r \in Row, Behind(q, c, r)
                 PROVE  /\ cell[c][r] # "plain"
                        /\ p.retired_left => p.unreadable \/ cell[c][r] \in {"empty", p.key}
        BY <1>3, Places DEF Scanned
    <2>2. CASE c < p.column
        BY <1>1, <2>1, <2>2, Places DEF Scanned, Behind
    <2>3. CASE ~(c < p.column)
        <3>1. c = p.column
            <4>1. CASE Settled(p)
                <5>1. q = NextColumn(p)
                    BY <4>1
                <5> HIDE DEF q
                <5>2. /\ p.column = Columns \/ (q.at = "column" /\ q.column = p.column + 1)
                      /\ c \in 1..Columns /\ p.column \in 1..Columns /\ Columns \in Nat
                    BY <1>2, <5>1, Nexts, KeysAreKeys DEF Column
                <5>3. p.column # Columns => c < p.column + 1
                    BY <5>2 DEF Behind
                <5>4. QED
                    BY <2>3, <5>2, <5>3
            <4>2. CASE ~Settled(p)
                <5>1. q.at = "select" /\ q.column = p.column
                    BY <1>2, <4>2 DEF Proc
                <5>2. QED
                    BY <2>3, <5>1 DEF Behind
            <4>3. QED
                BY <4>1, <4>2
        <3>2. CASE Settled(p)
            BY <3>1, <3>2 DEF Settled, HoldsPlaintext
        <3>3. CASE ~Settled(p)
            <4>1. q.at = "select" /\ q.cursor = column[p.column].cursor /\ q.column = p.column
                BY <1>2, <3>3 DEF Proc
            <4>2. column[p.column].cursor \in 0..Rows
                BY <1>2 DEF SInv, Shapes, ColumnState
            <4> HIDE DEF q
            <4>3. r \in 1..column[p.column].cursor
                BY <2>3, <4>1, <4>2, KeysAreKeys DEF Behind, Row
            <4>4. QED
                BY <2>1, <3>1, <3>3, <4>3, KeysAreKeys DEF Skips
        <3>4. QED
            BY <3>2, <3>3
    <2>4. QED
        BY <2>2, <2>3
<1>5. Fits(q)
    BY <1>1, <1>2, <1>3, Places DEF Fits
<1>6. Shapes' /\ events \subseteq events'
    BY <1>1 DEF SInv, Shapes, Events
<1> HIDE DEF q
<1>7. Clean' => Recorded(p, store.kcv, cell) /\ \A f \in Engine : proc[f].at \in Starting => Recorded(proc[f], store.kcv, cell)
    BY <1>1, Places DEF SInv, Sealed, Clean
<1>8. Recorded(p, store.kcv, cell) => Recorded(q, store.kcv, cell)
    BY <1>3 DEF Recorded
<1>9. Undisturbed' => /\ Undisturbed
                      /\ \A f \in Engine : Tracks(proc[f], store, residue)
                      /\ (\A f \in Engine : ~Resealing(proc[f])) => Remembers(store, residue)
    BY <1>6 DEF SInv, Kept, Undisturbed
<1>10. /\ Tracks(p, store, residue) => Tracks(q, store, residue)
       /\ Resealing(p) => Resealing(q)
    BY <1>1, <1>3, Places DEF Tracks, Resealing
<1>11. QED
    BY <1>1, <1>2, <1>3, <1>4, <1>5, <1>6, <1>7, <1>8, <1>9, <1>10, EngineMoves, Places DEF Up

\* What every step of a scan leaves alone keeps.
LEMMA StillKept ==
    ASSUME SInv, NEW e \in Engine, NEW q,
           proc[e].at \in Migrating, q.at \in Migrating,
           q.recorded = proc[e].recorded, q.status = proc[e].status,
           q.vacuum_pending = proc[e].vacuum_pending, q.scrubbed = proc[e].scrubbed,
           proc[e].resealed => q.resealed, Undisturbed
    PROVE  /\ (\A f \in Engine \ {e} : ~Resealing(proc[f])) /\ ~Resealing(q) =>
                  Remembers(store, residue)
           /\ Tracks(q, store, residue)
           /\ \A f \in Engine \ {e} : proc[f].at \notin Starting
           /\ \A f \in Engine \ {e} : \A s, left : Tracks(proc[f], s, left)
<1>1. Resealing(proc[e]) => Resealing(q)
    BY DEF Resealing
<1>2. Tracks(q, store, residue)
    BY Places DEF SInv, Kept, Tracks
<1>3. \A f \in Engine \ {e} : proc[f].at \notin Starting
    BY Places DEF SInv, Kept, Alone
<1>4. \A f \in Engine \ {e} : \A s, left : Tracks(proc[f], s, left)
    BY <1>3, Places DEF Tracks
<1>5. QED
    BY <1>1, <1>2, <1>3, <1>4 DEF SInv, Kept

\* Select: the batch is what the rows hold now, and no rows are left only at the end.
LEMMA Selects ==
    ASSUME SInv, NEW e \in Engine, Select(e)
    PROVE  SInv'
<1> DEFINE p == proc[e]
           rows == {r \in Row : p.cursor < r /\ r <= p.cursor + Batch}
           to == IF rows = {} THEN "end" ELSE "commit"
           seen == [r \in rows |-> cell[p.column][r]]
           q == [p EXCEPT !.at = to, !.seen = seen]
<1>1. /\ p.at = "select" /\ proc' = [proc EXCEPT ![e] = q]
      /\ UNCHANGED <<cell, column, store, residue, opens, writes, events>>
    BY DEF Select
<1>2. p \in Proc /\ Fits(p) /\ p.column \in Column /\ p.cursor \in 0..Rows
    BY TypedEngine
<1>3. seen \in Batches
    <2>1. seen \in [rows -> Value] /\ rows \in SUBSET Row
        BY <1>2 DEF SInv, Shapes
    <2>2. QED
        BY <2>1 DEF Batches
<1>4. to \in {"end", "commit"} /\ (to = "end" <=> rows = {})
    OBVIOUS
<1> HIDE DEF to, seen
<1>5. /\ q \in Proc /\ q.at = to /\ q.seen = seen
      /\ q.key = p.key /\ q.status = p.status /\ q.recorded = p.recorded
      /\ q.unreadable = p.unreadable /\ q.resealed = p.resealed
      /\ q.retired_left = p.retired_left /\ q.scrubbed = p.scrubbed
      /\ q.vacuum_pending = p.vacuum_pending /\ q.cursor = p.cursor /\ q.column = p.column
    BY <1>2, <1>3, <1>4, Places DEF Proc
<1>6. DOMAIN seen = rows /\ \A r \in rows : seen[r] = cell[p.column][r]
    BY DEF seen
<1> HIDE DEF q
<1>7. Fits(q)
    <2>1. rows = {} => p.cursor = Rows
        <3>1. p.cursor < Rows => p.cursor + 1 \in rows
            BY <1>2, KeysAreKeys DEF Row
        <3>2. QED
            BY <1>2, <3>1, KeysAreKeys
    <2> HIDE DEF rows
    <2>2. /\ to = "end" => q.cursor = Rows
          /\ to = "commit" => DOMAIN q.seen = rows /\ rows # {}
        BY <1>4, <1>5, <1>6, <2>1
    <2>3. to = "commit" =>
              /\ DOMAIN q.seen = {r \in Row : q.cursor < r /\ r <= q.cursor + Batch}
              /\ DOMAIN q.seen # {}
        BY <1>5, <2>2 DEF rows
    <2>4. QED
        BY <1>1, <1>2, <1>4, <1>5, <2>2, <2>3, Places DEF Fits
<1>8. ASSUME Clean', p.status \in Sealing PROVE Scanned(q, cell)
    <2>1. Scanned(p, cell)
        BY <1>1, <1>8 DEF Clean, SInv, Sealed
    <2> HIDE DEF rows
    <2>2. QED
        BY <1>1, <1>4, <1>5, <1>6, <2>1, <1>8, Places DEF Scanned, Behind
<1> HIDE DEF rows
<1>9. Shapes' /\ events \subseteq events'
    BY <1>1 DEF SInv, Shapes
<1>10. Clean' => \A f \in Engine : proc[f].at \in Starting => Recorded(proc[f], store.kcv, cell)
    BY <1>1, Places DEF SInv, Sealed, Clean
<1>11. Recorded(p, store.kcv, cell) => Recorded(q, store.kcv, cell)
    BY <1>5 DEF Recorded
<1>12. q.at \in Migrating /\ p.at \in Migrating /\ q.at # "down"
    BY <1>1, <1>4, <1>5, Places
<1>13. Undisturbed => /\ (\A f \in Engine \ {e} : ~Resealing(proc[f])) /\ ~Resealing(q) =>
                             Remembers(store, residue)
                      /\ Tracks(q, store, residue)
                      /\ \A f \in Engine \ {e} : Tracks(proc[f], store, residue)
    BY <1>5, <1>12, StillKept
<1>14. QED
    BY <1>1, <1>5, <1>7, <1>8, <1>9, <1>10, <1>11, <1>12, <1>13, EngineMoves, Places DEF Up, Undisturbed

\* The last row of a batch.
LEMMA LastOfBatch ==
    ASSUME NEW cursor \in 0..Rows, NEW rows,
           rows = {r \in Row : cursor < r /\ r <= cursor + Batch}, rows # {}
    PROVE  LET last == CHOOSE r \in rows : \A q \in rows : q <= r
           IN  /\ last \in rows /\ last \in 1..Rows
               /\ \A r \in Row : r <= last => r <= cursor \/ r \in rows
<1> DEFINE top == IF cursor + Batch <= Rows THEN cursor + Batch ELSE Rows
           last == CHOOSE r \in rows : \A q \in rows : q <= r
<1>1. top \in rows /\ \A q \in rows : q <= top
    BY KeysAreKeys DEF Row
<1>2. last \in rows /\ \A q \in rows : q <= last
    BY <1>1
<1> HIDE DEF last
<1>3. QED
    BY <1>1, <1>2, KeysAreKeys DEF Row

\* EndColumn: the scan has passed every row of the column.
LEMMA EndsColumn ==
    ASSUME SInv, NEW e \in Engine, EndColumn(e)
    PROVE  SInv'
<1> DEFINE p == proc[e]
           none == <<>>
           b == [p EXCEPT !.cursor = 0, !.seen = none]
           q == NextColumn(b)
<1>1. /\ p.at = "end" /\ proc' = [proc EXCEPT ![e] = q]
      /\ column' = [column EXCEPT ![p.column] = AfterColumn(p)]
      /\ UNCHANGED <<cell, store, residue, opens, writes, events>>
    BY DEF EndColumn
<1>2. p \in Proc /\ Fits(p) /\ p.column \in Column /\ p.cursor = Rows /\ p.key \in Key
    BY <1>1, TypedEngine, Places DEF Fits
<1>3. none \in Batches /\ 0 \in 0..Rows
    BY NoBatch, KeysAreKeys
<1> HIDE DEF none
<1>4. /\ b \in Proc
      /\ b.key = p.key /\ b.status = p.status /\ b.recorded = p.recorded
      /\ b.unreadable = p.unreadable /\ b.resealed = p.resealed
      /\ b.retired_left = p.retired_left /\ b.scrubbed = p.scrubbed
      /\ b.vacuum_pending = p.vacuum_pending /\ b.column = p.column
    BY <1>2, <1>3 DEF Proc
<1> HIDE DEF b
<1>5. /\ q \in Proc /\ q.at \in {"column", "report"}
      /\ q.key = p.key /\ q.status = p.status /\ q.recorded = p.recorded
      /\ q.unreadable = p.unreadable /\ q.resealed = p.resealed
      /\ q.retired_left = p.retired_left /\ q.scrubbed = p.scrubbed
      /\ q.vacuum_pending = p.vacuum_pending
      /\ p.column = Columns \/ (q.at = "column" /\ q.column = p.column + 1)
    BY <1>4, Nexts
<1> HIDE DEF q
<1>6. Fits(q)
    BY <1>1, <1>2, <1>5, Places DEF Fits
<1>7. ASSUME Clean', p.status \in Sealing PROVE Scanned(q, cell)
    <2>1. Scanned(p, cell)
        BY <1>1, <1>7 DEF Clean, SInv, Sealed
    <2>2. ASSUME NEW c \in Column, NEW r \in Row, Behind(q, c, r)
          PROVE  Behind(p, c, r)
        <3>1. c \in 1..Columns /\ p.column \in 1..Columns /\ Columns \in Nat /\ r <= p.cursor
            BY <1>2, KeysAreKeys DEF Column, Row
        <3>2. c < p.column \/ c = p.column
            BY <1>5, <2>2, <3>1 DEF Behind
        <3>3. QED
            BY <1>1, <3>1, <3>2, Places DEF Behind
    <2>3. QED
        BY <1>5, <2>1, <2>2, Places DEF Scanned
<1>8. AfterColumn(p) \in ColumnState /\ AfterColumn(p).cursor = 0
    BY <1>2, KeysAreKeys DEF AfterColumn, ColumnState
<1>9. Shapes' /\ events \subseteq events'
    BY <1>1, <1>8 DEF SInv, Shapes
<1>10. Clean' => \A f \in Engine : proc[f].at \in Starting => Recorded(proc[f], store.kcv, cell)
    BY <1>1, Places DEF SInv, Sealed, Clean
<1>11. Recorded(p, store.kcv, cell) => Recorded(q, store.kcv, cell)
    BY <1>5 DEF Recorded
<1>12. q.at \in Migrating /\ p.at \in Migrating /\ q.at # "down"
    BY <1>1, <1>5, Places
<1>13. Undisturbed => /\ (\A f \in Engine \ {e} : ~Resealing(proc[f])) /\ ~Resealing(q) =>
                             Remembers(store, residue)
                      /\ Tracks(q, store, residue)
                      /\ \A f \in Engine \ {e} : Tracks(proc[f], store, residue)
    BY <1>5, <1>12, StillKept
<1>14. QED
    BY <1>1, <1>5, <1>6, <1>7, <1>9, <1>10, <1>11, <1>12, <1>13, EngineMoves, Places DEF Up, Undisturbed

\* Commit: what is resealed goes under the engine's key, what it read and did not
\* reseal is under it already, has changed to it, or is told unreadable, and freed
\* plaintext makes a scrub pending.
LEMMA Commits ==
    ASSUME SInv, NEW e \in Engine, Commit(e)
    PROVE  SInv'
<1> DEFINE p == proc[e]
           rows == DOMAIN p.seen
           sealed == {r \in rows : Stale(p, p.seen[r]) /\ cell[p.column][r] = p.seen[r]}
           last == CHOOSE r \in rows : \A q \in rows : q <= r
           unreadable == p.unreadable \/ \E r \in rows : ~Readable(p, p.seen[r])
           resealed == p.resealed \/ \E r \in rows : Stale(p, p.seen[r])
           none == <<>>
           q == [p EXCEPT !.at = "select", !.cursor = last, !.seen = none,
                          !.unreadable = unreadable, !.resealed = resealed]
           now == [state |-> "sealing", cursor |-> last, kcv |-> p.key]
           more == IF \E r \in sealed : p.seen[r] = "plain" THEN {"freed", "slack"} ELSE {}
<1>1. /\ p.at = "commit" /\ proc' = [proc EXCEPT ![e] = q]
      /\ cell' = [cell EXCEPT ![p.column] =
             [r \in Row |-> IF r \in sealed THEN p.key ELSE cell[p.column][r]]]
      /\ column' = [column EXCEPT ![p.column] = now]
      /\ residue' = residue \cup more
      /\ UNCHANGED <<store, opens, writes, events>>
    BY DEF Commit
<1>2. /\ p \in Proc /\ Fits(p) /\ p.column \in Column /\ p.cursor \in 0..Rows /\ p.key \in Key
      /\ rows = {r \in Row : p.cursor < r /\ r <= p.cursor + Batch} /\ rows # {}
    BY <1>1, TypedEngine, Places DEF Fits
<1>3. /\ last \in rows /\ last \in 1..Rows
      /\ \A r \in Row : r <= last => r <= p.cursor \/ r \in rows
    <2> HIDE DEF p
    <2>1. p.cursor \in 0..Rows /\ rows # {}
          /\ rows = {r \in Row : p.cursor < r /\ r <= p.cursor + Batch}
        BY <1>2
    <2> HIDE DEF rows
    <2>2. QED
        BY <2>1, LastOfBatch
<1>4. none \in Batches /\ last \in 0..Rows /\ unreadable \in BOOLEAN /\ resealed \in BOOLEAN
    <2>1. last \in 0..Rows
        BY <1>3, KeysAreKeys
    <2>2. p.unreadable \in BOOLEAN /\ p.resealed \in BOOLEAN
        BY <1>2 DEF Proc
    <2>3. QED
        BY <2>1, <2>2, NoBatch
<1>5. (\E r \in rows : ~Readable(p, p.seen[r])) => unreadable
    OBVIOUS
<1>6. (\E r \in rows : Stale(p, p.seen[r])) => resealed
    OBVIOUS
<1>7. /\ \A c \in Column, r \in Row :
             cell'[c][r] = IF c = p.column /\ r \in sealed THEN p.key ELSE cell[c][r]
      /\ cell' \in [Column -> [Row -> Value]]
    <2> HIDE DEF sealed
    <2>1. cell \in [Column -> [Row -> Value]] /\ p.key \in Value
        BY <1>2, KeysAreKeys DEF SInv, Shapes
    <2> HIDE DEF p
    <2>2. QED
        BY <1>1, <1>2, <2>1
<1>8. resealed \/ residue' = residue
    BY <1>1
<1>9. p.unreadable => unreadable
    OBVIOUS
<1>10. p.resealed => resealed
    OBVIOUS
<1> HIDE DEF none, last, unreadable, resealed
<1>11. /\ q \in Proc /\ q.at = "select" /\ q.cursor = last /\ q.column = p.column
       /\ q.key = p.key /\ q.status = p.status /\ q.recorded = p.recorded
       /\ q.unreadable = unreadable /\ q.resealed = resealed
       /\ q.retired_left = p.retired_left /\ q.scrubbed = p.scrubbed
       /\ q.vacuum_pending = p.vacuum_pending
    BY <1>2, <1>4, Places DEF Proc
<1> HIDE DEF q
<1>12. Fits(q)
    BY <1>1, <1>2, <1>11, Places DEF Fits
<1>13. ASSUME Clean', p.status \in Sealing PROVE Scanned(q, cell')
    <2>1. Scanned(p, cell)
        BY <1>1, <1>13 DEF Clean, SInv, Sealed
    <2> SUFFICES ASSUME NEW c \in Column, NEW r \in Row, Behind(q, c, r)
                 PROVE  /\ cell'[c][r] # "plain"
                        /\ p.retired_left /\ ~unreadable => cell'[c][r] \in {"empty", p.key}
        BY <1>11, Places DEF Scanned
    <2>2. Behind(p, c, r) \/ (c = p.column /\ r \in rows)
        BY <1>1, <1>3, <1>11, Places DEF Behind
    <2>3. CASE Behind(p, c, r)
        BY <1>2, <1>7, <1>9, <2>1, <2>3, KeysAreKeys DEF Scanned
    <2>4. CASE c = p.column /\ r \in rows
        <3>1. cell[c][r] \in {p.seen[r], p.key}
            BY <1>1, <2>1, <2>4 DEF Scanned
        <3>2. CASE cell'[c][r] = p.key
            BY <1>2, <3>2, KeysAreKeys
        <3>3. CASE cell'[c][r] # p.key
            <4>1. cell'[c][r] = p.seen[r] /\ cell[c][r] = p.seen[r] /\ r \notin sealed
                BY <1>7, <2>4, <3>1, <3>3
            <4>2. ~Stale(p, p.seen[r])
                BY <2>4, <4>1
            <4>3. unreadable \/ Readable(p, p.seen[r])
                BY <1>5, <2>4
            <4>4. QED
                BY <1>2, <3>3, <4>1, <4>2, <4>3, KeysAreKeys DEF Stale, Readable
        <3>4. QED
            BY <3>2, <3>3
    <2>5. QED
        BY <2>2, <2>3, <2>4
<1>14. now \in ColumnState /\ now.state = "sealing"
    BY <1>2, <1>4, KeysAreKeys DEF ColumnState
<1> HIDE DEF now
<1>15. Shapes' /\ events \subseteq events'
    <2>1. column' \in [Column -> ColumnState]
          /\ \A c \in Column : column'[c].cursor # 0 => column'[c].state = "sealing"
        BY <1>1, <1>2, <1>14 DEF SInv, Shapes
    <2>2. residue' \subseteq {"freed", "slack"}
        BY <1>1 DEF SInv, Shapes
    <2>3. QED
        BY <1>1, <1>7, <2>1, <2>2 DEF SInv, Shapes
<1>16. ASSUME Clean', NEW f \in Engine, proc[f].status \in Sealing
       PROVE  \A c \in Column, r \in Row : cell'[c][r] \in {cell[c][r], proc[f].key}
    <2>1. Clean /\ p.status \in Writers /\ proc[f].status \in Writers
        BY <1>1, <1>2, <1>16, Places DEF Clean, Fits
    <2>2. proc[f].key = p.key
        BY <2>1, SameKey
    <2>3. QED
        BY <1>7, <2>2
<1>17. ASSUME Clean', NEW f \in Engine, proc[f].at \in Starting
       PROVE  Recorded(proc[f], store'.kcv, cell')
    <2>1. Recorded(proc[f], store.kcv, cell) /\ proc[f].status \in Sealing
        BY <1>1, <1>17 DEF Clean, SInv, Sealed, Fits
    <2>2. \A c \in Column, r \in Row : cell'[c][r] \in {cell[c][r], proc[f].key}
        BY <1>16, <1>17, <2>1
    <2>3. store' = store
        BY <1>1
    <2>4. QED
        BY <2>1, <2>2, <2>3, RecordedStays
<1>18. Clean' => Recorded(q, store'.kcv, cell')
    <2>1. p.at \in Starting
        BY <1>1, Places
    <2>2. Recorded(p, store'.kcv, cell') => Recorded(q, store'.kcv, cell')
        BY <1>11 DEF Recorded
    <2>3. QED
        BY <1>17, <2>1, <2>2
<1>19. q.at \in Migrating /\ p.at \in Migrating /\ p.at # "down"
    BY <1>1, <1>11, Places
<1>20. ASSUME Undisturbed'
       PROVE  /\ (\A f \in Engine \ {e} : ~Resealing(proc[f])) /\ ~Resealing(q) =>
                      Remembers(store', residue')
              /\ Tracks(q, store', residue')
              /\ \A f \in Engine \ {e} : Tracks(proc[f], store', residue')
    <2>1. Undisturbed /\ store' = store
        BY <1>1, <1>20 DEF Undisturbed
    <2>2. /\ (\A f \in Engine \ {e} : ~Resealing(proc[f])) /\ ~Resealing(q) =>
                  Remembers(store, residue)
          /\ Tracks(q, store, residue)
          /\ \A f \in Engine \ {e} : \A s, left : Tracks(proc[f], s, left)
        BY <1>10, <1>11, <1>19, <2>1, StillKept
    <2>3. Tracks(q, store, residue')
        BY <1>11, <2>2, Places DEF Tracks
    <2>4. ~Resealing(q) => residue' = residue
        BY <1>8, <1>11, <1>19 DEF Resealing
    <2>5. QED
        BY <2>1, <2>2, <2>3, <2>4
<1>21. QED
    BY <1>1, <1>11, <1>12, <1>13, <1>15, <1>16, <1>17, <1>18, <1>19, <1>20, EngineMoves, Places DEF Up

-----------------------------------------------------------------------------
(* The store's row, and the scrub.                                         *)

\* An engine that has found nothing unreadable may record its key: the store has none,
\* has this one, or every value is under it.
LEMMA MayTakeOver ==
    ASSUME SInv, Clean, NEW e \in Engine,
           \/ proc[e].at = "report" /\ ~Left(proc[e])
           \/ proc[e].at \in Finishing /\ ~proc[e].retired_left
    PROVE  store.kcv \in {NoKey, proc[e].key} \/ AllUnder(cell, proc[e].key)
<1> DEFINE p == proc[e]
<1>1. /\ p \in Proc /\ Fits(p) /\ p.at \in Starting /\ p.status \in Sealing
      /\ Recorded(p, store.kcv, cell) /\ Scanned(p, cell)
    BY TypedEngine, Places DEF SInv, Sealed, Fits
<1>2. CASE p.status = "retired"
    BY <1>1, <1>2, Places DEF Fits, Left, Scanned, Behind, AllUnder
<1>3. CASE p.status # "retired"
    <2>1. p.recorded \in {NoKey, p.key}
        BY <1>1, <1>3, Places DEF Fits
    <2>2. QED
        BY <1>1, <2>1 DEF Recorded
<1>4. QED
    BY <1>2, <1>3

\* Whatever an engine records, its own key or the retired one it found, is right for
\* every engine beside it.
LEMMA RecordedForAll ==
    ASSUME SInv, Clean, NEW e \in Engine, proc[e].at \in Starting, NEW k,
           \/ k = proc[e].key /\ (store.kcv \in {NoKey, k} \/ AllUnder(cell, k))
           \/ k = proc[e].recorded /\ proc[e].status = "retired"
    PROVE  \A f \in Engine : proc[f].at \in Starting => Recorded(proc[f], k, cell)
<1> SUFFICES ASSUME NEW f \in Engine, proc[f].at \in Starting, k # proc[f].recorded,
                    ~(proc[f].recorded = NoKey /\ k = proc[f].key)
             PROVE  AllUnder(cell, proc[f].key)
    BY DEF Recorded
<1>1. /\ Fits(proc[e]) /\ proc[e].status \in Sealing
      /\ Fits(proc[f]) /\ proc[f].status \in Sealing /\ proc[e].key \in Key
    BY TypedEngine DEF Fits
<1>2. proc[f].key = proc[e].key
    BY <1>1, SameKey, Places
<1>3. Recorded(proc[e], store.kcv, cell) /\ Recorded(proc[f], store.kcv, cell)
    BY DEF SInv, Sealed
<1>4. CASE k = proc[e].key /\ (store.kcv \in {NoKey, k} \/ AllUnder(cell, k))
    BY <1>1, <1>2, <1>3, <1>4, KeysAreKeys DEF Recorded
<1>5. CASE k = proc[e].recorded /\ proc[e].status = "retired"
    <2>1. k \in Key /\ k # proc[e].key
        BY <1>1, <1>5 DEF Fits
    <2>2. QED
        BY <1>1, <1>2, <1>3, <1>5, <2>1, KeysAreKeys DEF Recorded
<1>6. QED
    BY <1>4, <1>5

\* The row an engine in its startup writes.
LEMMA RowWritten ==
    ASSUME SInv, NEW e \in Engine, proc[e].at \in Starting, NEW q,
           q.recorded = proc[e].recorded, q.key = proc[e].key,
           q.retired_left => proc[e].status = "retired"
    PROVE  /\ StateOf(q) \in StoreState
           /\ StateOf(q).kcv \in Key /\ StateOf(q).kcv # NoKey /\ StateOf(q).state # "none"
           /\ StateOf(q).kcv = IF q.retired_left THEN proc[e].recorded ELSE proc[e].key
           /\ StateOf(q).state = IF ~q.vacuum_pending THEN "sealed"
                                 ELSE IF q.scrubbed THEN "scrubbed" ELSE "vacuum_pending"
<1>1. proc[e].key \in Key /\ (q.retired_left => proc[e].recorded \in Key)
    BY TypedEngine, Places DEF Fits
<1> DEFINE kcv == IF q.retired_left THEN proc[e].recorded ELSE proc[e].key
           state == IF ~q.vacuum_pending THEN "sealed"
                    ELSE IF q.scrubbed THEN "scrubbed" ELSE "vacuum_pending"
<1>2. StateOf(q) = [state |-> state, kcv |-> kcv]
    BY DEF StateOf
<1>3. kcv \in Key /\ kcv # NoKey
    BY <1>1, KeysAreKeys
<1>4. state \in {"sealed", "scrubbed", "vacuum_pending"}
    OBVIOUS
<1>5. QED
    BY <1>2, <1>3, <1>4 DEF StoreState

\* An engine that is not running remembers nothing.
LEMMA DownRow ==
    /\ Down \in Proc /\ Down.at = "down" /\ Down.status = "none"
    /\ ~Down.vacuum_pending /\ ~Down.scrubbed
<1> DEFINE none == <<>>
<1>1. none \in Batches /\ 1 \in Column /\ 0 \in 0..Rows
    BY NoBatch, KeysAreKeys DEF Column
<1>2. Down = [at |-> "down", key |-> NoKey, retired |-> {}, status |-> "none",
         recorded |-> NoKey, column |-> 1, cursor |-> 0, seen |-> none,
         unreadable |-> FALSE, resealed |-> FALSE, retired_left |-> FALSE,
         vacuum_pending |-> FALSE, scrubbed |-> FALSE]
    BY DEF Down
<1> HIDE DEF none
<1>3. QED
    BY <1>1, <1>2 DEF Proc

\* An engine whose startup is over.
LEMMA OpenedRow ==
    ASSUME NEW p \in Proc
    PROVE  /\ Opened(p) \in Proc /\ Opened(p).at = "open"
           /\ Opened(p).key = p.key /\ Opened(p).status = p.status
           /\ ~Opened(p).vacuum_pending /\ ~Opened(p).scrubbed
BY DownRow DEF Opened, Proc

\* Unless startups were shared, the others are not in theirs.
LEMMA OthersAtRest ==
    ASSUME SInv, Undisturbed, NEW e \in Engine, proc[e].at \in Starting
    PROVE  /\ \A f \in Engine \ {e} : proc[f].at \notin Starting /\ ~Resealing(proc[f])
           /\ \A f \in Engine \ {e} : \A s, left : Tracks(proc[f], s, left)
           /\ ~Resealing(proc[e]) => Remembers(store, residue)
           /\ Tracks(proc[e], store, residue)
<1>1. \A f \in Engine \ {e} : proc[f].at \notin Starting
    BY DEF SInv, Kept, Alone
<1>2. \A f \in Engine \ {e} : ~Resealing(proc[f])
    BY <1>1, Places DEF Resealing
<1>3. \A f \in Engine \ {e} : \A s, left : Tracks(proc[f], s, left)
    BY <1>1, Places DEF Tracks
<1>4. QED
    BY <1>1, <1>2, <1>3 DEF SInv, Kept

\* What the store's row may become in the hand of one engine leaves the others right.
LEMMA OthersRecorded ==
    ASSUME SInv, NEW e \in Engine, proc[e].at \in Starting, NEW k, Clean =>
           \/ k = proc[e].key /\ (store.kcv \in {NoKey, k} \/ AllUnder(cell, k))
           \/ k = proc[e].recorded /\ proc[e].status = "retired"
    PROVE  /\ Clean => \A f \in Engine : proc[f].at \in Starting => Recorded(proc[f], k, cell)
           /\ \A f \in Engine : proc[f].status \in Sealing =>
                  \A c \in Column, r \in Row : cell[c][r] \in {cell[c][r], proc[f].key}
BY RecordedForAll

\* The row of an engine that has reported.
Finish(p, left, pending, scrubbed) ==
    [p EXCEPT !.at = "finish", !.retired_left = left,
              !.vacuum_pending = pending, !.scrubbed = scrubbed]

\* Its fields.
LEMMA FinishRow ==
    ASSUME NEW p, NEW left, NEW pending, NEW scrubbed,
           p \in Proc, left \in BOOLEAN, pending \in BOOLEAN, scrubbed \in BOOLEAN
    PROVE  LET done == Finish(p, left, pending, scrubbed)
           IN  /\ done \in Proc /\ done.at = "finish"
               /\ done.key = p.key /\ done.status = p.status /\ done.recorded = p.recorded
               /\ done.retired_left = left /\ done.vacuum_pending = pending
               /\ done.scrubbed = scrubbed
<1> DEFINE d1 == [p EXCEPT !.at = "finish", !.retired_left = left]
           d2 == [d1 EXCEPT !.vacuum_pending = pending, !.scrubbed = scrubbed]
<1>1. /\ d1 \in Proc /\ d1.at = "finish" /\ d1.key = p.key /\ d1.status = p.status
      /\ d1.recorded = p.recorded /\ d1.retired_left = left
    BY Places DEF Proc
<1> HIDE DEF d1
<1>2. /\ d2 \in Proc /\ d2.at = "finish" /\ d2.key = p.key /\ d2.status = p.status
      /\ d2.recorded = p.recorded /\ d2.retired_left = left
      /\ d2.vacuum_pending = pending /\ d2.scrubbed = scrubbed
    BY <1>1 DEF Proc
<1>3. Finish(p, left, pending, scrubbed) = d2
    BY DEF d1, Finish
<1> HIDE DEF d2
<1>4. QED
    BY <1>2, <1>3

\* Report: an engine whose scan left something unreadable records the key it found, any
\* other its own; and resealing makes the scrub pending.
LEMMA Reports ==
    ASSUME SInv, NEW e \in Engine, Report(e)
    PROVE  SInv'
<1> DEFINE p == proc[e]
           left == Left(p)
           pending == p.vacuum_pending \/ p.resealed
           scrubbed == p.scrubbed /\ ~p.resealed
           done == [p EXCEPT !.at = "finish", !.retired_left = left,
                             !.vacuum_pending = pending, !.scrubbed = scrubbed]
           q == IF done.vacuum_pending THEN done ELSE Opened(p)
<1>1. /\ p.at = "report" /\ proc' = [proc EXCEPT ![e] = q] /\ store' = StateOf(done)
      /\ UNCHANGED <<cell, column, residue, opens, writes, events>>
    BY DEF Report
<1>2. /\ p \in Proc /\ Fits(p) /\ p.at \in Starting /\ p.status \in Sealing
      /\ p.resealed \in BOOLEAN
    BY <1>1, TypedEngine, Places DEF Fits, Proc
<1>3. left \in BOOLEAN /\ (left <=> p.retired_left /\ p.unreadable) /\ left = Left(p)
    BY <1>2 DEF Left, Proc
<1>4. pending \in BOOLEAN /\ (pending <=> p.vacuum_pending \/ p.resealed)
    BY <1>2 DEF Proc
<1>5. scrubbed \in BOOLEAN /\ (scrubbed <=> p.scrubbed /\ ~p.resealed)
    BY <1>2 DEF Proc
<1> HIDE DEF left, pending, scrubbed
<1>6. /\ done \in Proc /\ done.at = "finish"
      /\ done.key = p.key /\ done.status = p.status /\ done.recorded = p.recorded
      /\ done.retired_left = left /\ done.vacuum_pending = pending
      /\ done.scrubbed = scrubbed
    <2>1. p \in Proc /\ left \in BOOLEAN /\ pending \in BOOLEAN /\ scrubbed \in BOOLEAN
        BY <1>2, <1>3, <1>4, <1>5
    <2>2. done = Finish(p, left, pending, scrubbed)
        BY DEF Finish
    <2> HIDE DEF p, done
    <2>3. QED
        BY <2>1, <2>2, FinishRow
<1> HIDE DEF done
<1>7. /\ q \in Proc /\ q.key = p.key /\ q.status = p.status /\ q.at \in {"finish", "open"}
      /\ q.at = "finish" => q = done /\ pending
      /\ q.at = "open" => ~pending /\ ~q.scrubbed
    BY <1>2, <1>6, OpenedRow
<1> HIDE DEF q
<1>8. left => p.status = "retired"
    BY <1>2, <1>3 DEF Fits
<1>9. /\ StateOf(done) \in StoreState
      /\ StateOf(done).kcv \in Key /\ StateOf(done).kcv # NoKey /\ StateOf(done).state # "none"
      /\ StateOf(done).kcv = IF left THEN p.recorded ELSE p.key
      /\ StateOf(done).state = IF ~pending THEN "sealed"
                               ELSE IF scrubbed THEN "scrubbed" ELSE "vacuum_pending"
    BY <1>2, <1>6, <1>8, RowWritten
<1>10. Fits(q)
    <2>1. CASE q.at = "finish"
        BY <1>2, <1>3, <1>4, <1>5, <1>6, <1>7, <2>1, Places DEF Fits
    <2>2. CASE q.at = "open"
        BY <1>2, <1>7, <2>2, Places DEF Fits
    <2>3. QED
        BY <1>7, <2>1, <2>2
<1>11. ASSUME Clean' PROVE Scanned(q, cell)
    <2>1. Scanned(p, cell) /\ (p.status = "retired" => p.retired_left)
        BY <1>1, <1>2, <1>11, Places DEF Clean, SInv, Sealed, Fits
    <2>2. \A c \in Column, r \in Row :
              /\ cell[c][r] # "plain"
              /\ p.retired_left /\ ~p.unreadable => cell[c][r] \in {"empty", p.key}
        BY <1>1, <2>1 DEF Scanned, Behind
    <2>3. q.at = "finish" => (q.status = "retired" /\ ~q.retired_left =>
                                  p.retired_left /\ ~p.unreadable)
        BY <1>3, <1>6, <1>7, <2>1
    <2>4. QED
        BY <1>7, <2>2, <2>3, Places DEF Scanned, Behind
<1>12. Shapes' /\ events \subseteq events'
    BY <1>1, <1>9 DEF SInv, Shapes
<1>13. Clean => \/ /\ StateOf(done).kcv = p.key
                   /\ store.kcv \in {NoKey, StateOf(done).kcv}
                      \/ AllUnder(cell, StateOf(done).kcv)
                \/ StateOf(done).kcv = p.recorded /\ p.status = "retired"
    BY <1>1, <1>3, <1>8, <1>9, MayTakeOver
<1>14. /\ Clean => \A f \in Engine : proc[f].at \in Starting =>
                       Recorded(proc[f], StateOf(done).kcv, cell)
       /\ \A f \in Engine : proc[f].status \in Sealing =>
              \A c \in Column, r \in Row : cell[c][r] \in {cell[c][r], proc[f].key}
    BY <1>2, <1>13, OthersRecorded
<1>15. Clean => (q.at \in Starting => Recorded(q, StateOf(done).kcv, cell))
    <2>1. q.at \in Starting => q.key = p.key /\ q.recorded = p.recorded
        BY <1>6, <1>7, Places
    <2>2. QED
        BY <1>2, <1>14, <2>1 DEF Recorded
<1>16. ASSUME Undisturbed
       PROVE  /\ Remembers(StateOf(done), residue)
              /\ Tracks(q, StateOf(done), residue)
    <2>1. /\ p.resealed \/ Remembers(store, residue)
          /\ Tracks(p, store, residue)
        BY <1>2, <1>16, OthersAtRest DEF Resealing
    <2>2. /\ p.recorded = store.kcv
          /\ p.vacuum_pending <=>
                 store.state \in {"vacuum_pending", "scrubbed"} \/ p.status = "record"
          /\ p.scrubbed => store.state = "scrubbed"
        BY <1>1, <2>1, Places DEF Tracks
    <2>3. store.kcv = NoKey <=> store.state = "none"
        BY DEF SInv, Shapes
    <2>4. scrubbed => "freed" \notin residue
        BY <1>5, <2>1, <2>2, <2>3 DEF Remembers
    <2>5. ~pending => residue = {}
        <3> SUFFICES ASSUME ~pending PROVE residue = {}
            OBVIOUS
        <3>1. ~p.resealed /\ store.state \notin {"vacuum_pending", "scrubbed"}
              /\ p.status # "record"
            BY <1>4, <2>2
        <3>2. store.kcv # NoKey
            BY <1>2, <2>2, <3>1, Places, KeysAreKeys DEF Fits
        <3>3. QED
            BY <2>1, <3>1, <3>2 DEF Remembers
    <2>6. QED
        BY <1>6, <1>7, <1>9, <2>4, <2>5, Places DEF Remembers, Tracks
<1>17. Undisturbed => \A f \in Engine \ {e} : \A s, more : Tracks(proc[f], s, more)
    BY <1>2, OthersAtRest
<1>18. Clean' => Clean
    BY <1>1 DEF Clean
<1>19. Up(e) /\ q.at # "down"
    BY <1>1, <1>7 DEF Up
<1>20. QED
    BY <1>1, <1>2, <1>7, <1>10, <1>11, <1>12, <1>14, <1>15, <1>16, <1>17, <1>18, <1>19, EngineMoves DEF Undisturbed

\* Steps that leave the values, the columns and the row of the store alone.
LEMMA OnlyResidue ==
    ASSUME SInv, NEW e \in Engine, NEW q \in Proc,
           proc' = [proc EXCEPT ![e] = q],
           UNCHANGED <<cell, column, store, opens, writes, events>>,
           residue' \subseteq residue,
           Fits(q), q.at # "down" => Up(e) /\ q.key = proc[e].key /\ q.status = proc[e].status,
           q.at \in Starting => proc[e].at \in Starting /\ q.recorded = proc[e].recorded,
           ~Resealing(proc[e]),
           Clean => (q.status \in Sealing => Scanned(q, cell)),
           Undisturbed => Tracks(q, store, residue')
    PROVE  SInv'
<1>1. Shapes' /\ events \subseteq events'
    BY DEF SInv, Shapes
<1>2. Clean' => Clean
    BY DEF Clean
<1>3. Clean => \A f \in Engine : proc[f].at \in Starting => Recorded(proc[f], store.kcv, cell)
    BY DEF SInv, Sealed
<1>4. Clean => (q.at \in Starting => Recorded(q, store.kcv, cell))
    <2>1. q.at \in Starting => q.key = proc[e].key
        BY Places
    <2>2. QED
        BY <1>3, <2>1 DEF Recorded
<1>5. \A left : \A f \in Engine :
          left \subseteq residue /\ Tracks(proc[f], store, residue) => Tracks(proc[f], store, left)
    BY DEF Tracks
<1>6. Remembers(store, residue) => Remembers(store, residue')
    BY DEF Remembers
<1>7. Undisturbed' =>
          /\ (\A f \in Engine \ {e} : ~Resealing(proc[f])) => Remembers(store, residue')
          /\ \A f \in Engine \ {e} : Tracks(proc[f], store, residue')
    BY <1>5, <1>6 DEF SInv, Kept, Undisturbed
<1>8. QED
    BY <1>1, <1>2, <1>3, <1>4, <1>7, EngineMoves, Places DEF Undisturbed

\* Scrub: what was freed is gone, and the engine says so.
LEMMA Scrubs ==
    ASSUME SInv, NEW e \in Engine, Scrub(e)
    PROVE  SInv'
<1> DEFINE p == proc[e]
           q == [p EXCEPT !.scrubbed = TRUE, !.at = "scrubbed"]
<1>1. /\ p.at = "finish" /\ proc' = [proc EXCEPT ![e] = q] /\ residue' = residue \ {"freed"}
      /\ UNCHANGED <<cell, column, store, opens, writes, events>>
    BY DEF Scrub
<1>2. p \in Proc /\ Fits(p)
    BY TypedEngine
<1>3. /\ q \in Proc /\ q.at = "scrubbed" /\ q.scrubbed
      /\ q.key = p.key /\ q.status = p.status /\ q.recorded = p.recorded
      /\ q.retired_left = p.retired_left /\ q.vacuum_pending = p.vacuum_pending
    BY <1>2, Places DEF Proc
<1> HIDE DEF q
<1>4. Fits(q)
    BY <1>1, <1>2, <1>3, Places DEF Fits
<1>5. Clean => (q.status \in Sealing => Scanned(q, cell))
    BY <1>1, <1>3, Places DEF SInv, Sealed, Scanned, Behind
<1>6. Tracks(q, store, residue')
    BY <1>1, <1>3, Places DEF Tracks
<1>7. ~Resealing(p) /\ p.at \in Starting /\ Up(e)
    BY <1>1, Places DEF Resealing, Up
<1>8. QED
    BY <1>1, <1>3, <1>4, <1>5, <1>6, <1>7, OnlyResidue

\* Vacuum: nothing is left.
LEMMA Vacuums ==
    ASSUME SInv, NEW e \in Engine, Vacuum(e)
    PROVE  SInv'
<1> DEFINE p == proc[e]
           q == [p EXCEPT !.vacuum_pending = FALSE, !.scrubbed = FALSE, !.at = "vacuumed"]
<1>1. /\ p.at = "finish" /\ proc' = [proc EXCEPT ![e] = q] /\ residue' = {}
      /\ UNCHANGED <<cell, column, store, opens, writes, events>>
    BY DEF Vacuum
<1>2. p \in Proc /\ Fits(p)
    BY TypedEngine
<1>3. /\ q \in Proc /\ q.at = "vacuumed" /\ ~q.scrubbed /\ ~q.vacuum_pending
      /\ q.key = p.key /\ q.status = p.status /\ q.recorded = p.recorded
      /\ q.retired_left = p.retired_left
    BY <1>2, Places DEF Proc
<1> HIDE DEF q
<1>4. Fits(q)
    BY <1>1, <1>2, <1>3, Places DEF Fits
<1>5. Clean => (q.status \in Sealing => Scanned(q, cell))
    BY <1>1, <1>3, Places DEF SInv, Sealed, Scanned, Behind
<1>6. Tracks(q, store, residue')
    BY <1>1, <1>3, Places DEF Tracks
<1>7. ~Resealing(p) /\ p.at \in Starting /\ Up(e)
    BY <1>1, Places DEF Resealing, Up
<1>8. QED
    BY <1>1, <1>3, <1>4, <1>5, <1>6, <1>7, OnlyResidue

\* Defer: the rest waits for the next start.
LEMMA Defers ==
    ASSUME SInv, NEW e \in Engine, Defer(e)
    PROVE  SInv'
<1> DEFINE p == proc[e]
           q == Opened(p)
<1>1. /\ p.at = "finish" /\ proc' = [proc EXCEPT ![e] = q]
      /\ UNCHANGED <<cell, column, store, residue, opens, writes, events>>
    BY DEF Defer
<1>2. p \in Proc /\ Fits(p)
    BY TypedEngine
<1>3. /\ q \in Proc /\ q.at = "open" /\ ~q.scrubbed
      /\ q.key = p.key /\ q.status = p.status
    BY <1>2, OpenedRow
<1> HIDE DEF q
<1>4. Fits(q)
    BY <1>1, <1>2, <1>3, Places DEF Fits
<1>5. Clean => (q.status \in Sealing => Scanned(q, cell))
    BY <1>1, <1>3, Places DEF SInv, Sealed, Scanned, Behind
<1>6. Tracks(q, store, residue')
    BY <1>1, <1>3, Places DEF Tracks
<1>7. ~Resealing(p) /\ q.at \notin Starting /\ Up(e)
    BY <1>1, <1>3, Places DEF Resealing, Up
<1>8. QED
    BY <1>1, <1>3, <1>4, <1>5, <1>6, <1>7, OnlyResidue

\* Record: after a scrub or a VACUUM the row says what is left.
LEMMA Records ==
    ASSUME SInv, NEW e \in Engine, Record(e)
    PROVE  SInv'
<1> DEFINE p == proc[e]
           q == IF p.at = "scrubbed" THEN [p EXCEPT !.at = "finish"] ELSE Opened(p)
<1>1. /\ p.at \in {"scrubbed", "vacuumed"} /\ proc' = [proc EXCEPT ![e] = q]
      /\ store' = StateOf(p)
      /\ UNCHANGED <<cell, column, residue, opens, writes, events>>
    BY DEF Record
<1>2. /\ p \in Proc /\ Fits(p) /\ p.at \in Starting /\ p.at \in Finishing
      /\ (p.retired_left => p.status = "retired")
    BY <1>1, TypedEngine, Places DEF Fits
<1>3. /\ q \in Proc /\ q.key = p.key /\ q.status = p.status
      /\ p.at = "scrubbed" => /\ q.at = "finish" /\ q.recorded = p.recorded
                              /\ q.retired_left = p.retired_left
                              /\ q.vacuum_pending = p.vacuum_pending
                              /\ q.scrubbed = p.scrubbed
      /\ p.at = "vacuumed" => q.at = "open" /\ ~q.scrubbed
    <2>1. CASE p.at = "scrubbed"
        BY <1>2, <2>1, Places DEF Proc
    <2>2. CASE p.at = "vacuumed"
        BY <1>2, <2>2, OpenedRow
    <2>3. QED
        BY <1>1, <2>1, <2>2
<1> HIDE DEF q
<1>4. /\ StateOf(p) \in StoreState
      /\ StateOf(p).kcv \in Key /\ StateOf(p).kcv # NoKey /\ StateOf(p).state # "none"
      /\ StateOf(p).kcv = IF p.retired_left THEN p.recorded ELSE p.key
      /\ StateOf(p).state = IF ~p.vacuum_pending THEN "sealed"
                            ELSE IF p.scrubbed THEN "scrubbed" ELSE "vacuum_pending"
    BY <1>2, RowWritten
<1>5. Fits(q)
    BY <1>1, <1>2, <1>3, Places DEF Fits
<1>6. Clean => (q.status \in Sealing => Scanned(q, cell))
    BY <1>1, <1>3, Places DEF SInv, Sealed, Scanned, Behind
<1>7. Shapes' /\ events \subseteq events'
    BY <1>1, <1>4 DEF SInv, Shapes
<1>8. Clean => \/ /\ StateOf(p).kcv = p.key
                  /\ store.kcv \in {NoKey, StateOf(p).kcv} \/ AllUnder(cell, StateOf(p).kcv)
               \/ StateOf(p).kcv = p.recorded /\ p.status = "retired"
    BY <1>2, <1>4, MayTakeOver
<1>9. /\ Clean => \A f \in Engine : proc[f].at \in Starting =>
                      Recorded(proc[f], StateOf(p).kcv, cell)
      /\ \A f \in Engine : proc[f].status \in Sealing =>
             \A c \in Column, r \in Row : cell[c][r] \in {cell[c][r], proc[f].key}
    BY <1>2, <1>8, OthersRecorded
<1>10. Clean => (q.at \in Starting => Recorded(q, StateOf(p).kcv, cell))
    <2>1. q.at \in Starting => q.key = p.key /\ q.recorded = p.recorded
        BY <1>1, <1>3, Places
    <2>2. QED
        BY <1>2, <1>9, <2>1 DEF Recorded
<1>11. ASSUME Undisturbed
       PROVE  /\ Remembers(StateOf(p), residue)
              /\ Tracks(q, StateOf(p), residue)
    <2>1. Tracks(p, store, residue)
        BY <1>2, <1>11, OthersAtRest
    <2>2. CASE p.at = "scrubbed"
        <3>1. p.scrubbed /\ p.vacuum_pending /\ "freed" \notin residue
            BY <1>2, <2>1, <2>2, Places DEF Fits, Tracks
        <3>2. QED
            BY <1>3, <1>4, <2>2, <3>1, Places DEF Remembers, Tracks
    <2>3. CASE p.at = "vacuumed"
        <3>1. residue = {}
            BY <2>1, <2>3 DEF Tracks
        <3>2. QED
            BY <1>3, <2>3, <3>1, Places DEF Remembers, Tracks
    <2>4. QED
        BY <1>1, <2>2, <2>3
<1>12. Undisturbed => \A f \in Engine \ {e} : \A s, more : Tracks(proc[f], s, more)
    BY <1>2, OthersAtRest
<1>13. Clean' => Clean
    BY <1>1 DEF Clean
<1>14. Up(e)
    BY <1>1 DEF Up
<1>15. QED
    BY <1>1, <1>2, <1>3, <1>5, <1>6, <1>7, <1>9, <1>10, <1>11, <1>12, <1>13, <1>14, EngineMoves DEF Undisturbed

-----------------------------------------------------------------------------
(* The engines around it.                                                  *)

\* Bind: an engine serves, or ends.
LEMMA Binds ==
    ASSUME SInv, NEW e \in Engine, Bind(e)
    PROVE  SInv'
<1> DEFINE p == proc[e]
           q == IF \E f \in Engine : proc[f].at = "serving"
                THEN Down ELSE [p EXCEPT !.at = "serving"]
<1>1. /\ p.at = "open" /\ proc' = [proc EXCEPT ![e] = q]
      /\ UNCHANGED <<cell, column, store, residue, opens, writes, events>>
    BY DEF Bind
<1>2. p \in Proc /\ Fits(p)
    BY TypedEngine
<1>3. /\ q \in Proc /\ q.at \in {"down", "serving"}
      /\ q.at = "serving" => /\ q.key = p.key /\ q.status = p.status
                             /\ q.scrubbed = p.scrubbed /\ q.vacuum_pending = p.vacuum_pending
      /\ q.at = "down" => q.status = "none" /\ ~q.scrubbed
    BY <1>2, DownRow DEF Proc
<1> HIDE DEF q
<1>4. Fits(q)
    BY <1>2, <1>3, Places DEF Fits
<1>5. Clean => (q.status \in Sealing => Scanned(q, cell))
    BY <1>1, <1>3, Places DEF SInv, Sealed, Scanned, Behind
<1>6. Tracks(q, store, residue')
    BY <1>3, Places DEF Tracks
<1>7. ~Resealing(p) /\ q.at \notin Starting /\ Up(e)
    BY <1>1, <1>3, Places DEF Resealing, Up
<1>8. QED
    BY <1>1, <1>3, <1>4, <1>5, <1>6, <1>7, OnlyResidue

\* Die: what an engine that dies resealed is in the row, or forgotten.
LEMMA Dies ==
    ASSUME SInv, NEW e \in Engine, Die(e)
    PROVE  SInv'
<1> DEFINE p == proc[e]
<1>1. /\ Up(e) /\ proc' = [proc EXCEPT ![e] = Down]
      /\ events' = events \cup
             (IF /\ p.resealed /\ p.at \in Migrating
                 /\ store.kcv # NoKey /\ store.state # "vacuum_pending"
              THEN {"forgotten"} ELSE {})
      /\ UNCHANGED <<cell, column, store, residue, opens, writes>>
    BY DEF Die
<1>2. /\ Down \in Proc /\ Down.at = "down" /\ Down.status \notin Sealing
      /\ Down.at \notin Starting /\ Fits(Down) /\ Tracks(Down, store, residue)
    BY DownRow, Places DEF Fits, Tracks
<1>3. Shapes' /\ events \subseteq events'
    BY <1>1 DEF SInv, Shapes, Events
<1>4. Clean' => \A f \in Engine : proc[f].at \in Starting => Recorded(proc[f], store.kcv, cell)
    BY <1>3 DEF SInv, Sealed, Clean
<1>5. ASSUME Undisturbed'
      PROVE  /\ (\A f \in Engine \ {e} : ~Resealing(proc[f])) => Remembers(store, residue)
             /\ \A f \in Engine : Tracks(proc[f], store, residue)
    <2>1. Undisturbed /\ (Resealing(p) => store.kcv = NoKey \/ store.state = "vacuum_pending")
        BY <1>1, <1>5 DEF Resealing, Undisturbed
    <2>2. Resealing(p) => Remembers(store, residue)
        BY <2>1 DEF Remembers
    <2>3. QED
        BY <2>1, <2>2 DEF SInv, Kept
<1>6. QED
    BY <1>1, <1>2, <1>3, <1>4, <1>5, EngineMoves

\* Write: a value is sealed under the one key of all who seal.
LEMMA Writes ==
    ASSUME SInv, NEW e \in Engine, NEW c \in Column, NEW r \in Row, Write(e, c, r)
    PROVE  SInv'
<1> DEFINE p == proc[e]
           value == Written(p)
<1>1. /\ p.at = "serving" /\ p.status \in Writers
      /\ writes < MaxWrites /\ writes' = writes + 1
      /\ cell' = [cell EXCEPT ![c][r] = value]
      /\ UNCHANGED <<column, store, residue, proc, opens, events>>
    BY DEF Write, Writers
<1>2. p \in Proc /\ Fits(p) /\ p.status \in Writers
    BY <1>1, TypedEngine
<1>3. value \in Value /\ (p.status \in Sealing => value = p.key)
      /\ (p.status \notin Sealing => p.key = NoKey)
    BY <1>2, KeysAreKeys, Places DEF Written, Fits
<1> HIDE DEF value
<1>4. /\ cell' \in [Column -> [Row -> Value]]
      /\ \A d \in Column, s \in Row : cell'[d][s] \in {cell[d][s], value}
    <2>1. cell \in [Column -> [Row -> Value]]
        BY DEF SInv, Shapes
    <2>2. QED
        BY <1>1, <1>3, <2>1
<1>5. Shapes' /\ events \subseteq events'
    <2>1. writes' \in 0..MaxWrites
        BY <1>1, KeysAreKeys DEF SInv, Shapes
    <2>2. QED
        BY <1>1, <1>4, <2>1 DEF SInv, Shapes
<1>6. ASSUME Clean', NEW f \in Engine, proc[f].status \in Sealing
      PROVE  \A d \in Column, s \in Row : cell'[d][s] \in {cell[d][s], proc[f].key}
    <2>1. Clean /\ proc[f].status \in Writers /\ proc[f].key \in Key
        BY <1>1, <1>6, TypedEngine, Places DEF Clean, Fits
    <2>2. proc[f].key = p.key
        BY <1>2, <2>1, SameKey
    <2>3. value = proc[f].key
        BY <1>3, <2>1, <2>2, KeysAreKeys
    <2>4. QED
        BY <1>4, <2>3
<1>7. ASSUME Clean', NEW f \in Engine, proc[f].at \in Starting
      PROVE  Recorded(proc[f], store'.kcv, cell')
    <2>1. Recorded(proc[f], store.kcv, cell) /\ proc[f].status \in Sealing
        BY <1>1, <1>7, TypedEngine DEF Clean, SInv, Sealed, Fits
    <2>2. \A d \in Column, s \in Row : cell'[d][s] \in {cell[d][s], proc[f].key}
        BY <1>6, <1>7, <2>1
    <2>3. store' = store
        BY <1>1
    <2>4. QED
        BY <2>1, <2>2, <2>3, RecordedStays
<1>8. ASSUME Clean', p.status \in Sealing PROVE Scanned(p, cell')
    <2>1. Scanned(p, cell) /\ p.key \in Key
        BY <1>1, <1>2, <1>8 DEF Clean, SInv, Sealed, Fits
    <2>2. \A d \in Column, s \in Row : cell'[d][s] \in {cell[d][s], p.key}
        BY <1>6, <1>8
    <2>3. QED
        BY <2>1, <2>2, KeysAreKeys, ScannedStays
<1>9. proc' = [proc EXCEPT ![e] = p] /\ Up(e)
    BY <1>1 DEF SInv, Up
<1>10. Undisturbed' => /\ \A f \in Engine : Tracks(proc[f], store', residue')
                       /\ (\A f \in Engine : ~Resealing(proc[f])) => Remembers(store', residue')
    BY <1>1 DEF SInv, Kept, Undisturbed
<1>11. QED
    BY <1>1, <1>2, <1>5, <1>6, <1>7, <1>8, <1>9, <1>10, EngineMoves

\* OldBuildWrites: nothing that seals is up.
LEMMA OldBuilds ==
    ASSUME SInv, NEW c \in Column, NEW r \in Row, OldBuildWrites(c, r)
    PROVE  SInv'
<1>1. /\ \A e \in Engine : proc[e].at = "down"
      /\ writes < MaxWrites /\ writes' = writes + 1
      /\ cell' = [cell EXCEPT ![c][r] = "plain"]
      /\ UNCHANGED <<column, store, residue, proc, opens, events>>
    BY DEF OldBuildWrites, Up
<1>2. cell' \in [Column -> [Row -> Value]]
    BY <1>1, KeysAreKeys DEF SInv, Shapes
<1>3. writes' \in 0..MaxWrites
    BY <1>1, KeysAreKeys DEF SInv, Shapes
<1>4. Shapes'
    BY <1>1, <1>2, <1>3 DEF SInv, Shapes
<1>5. \A e \in Engine : proc'[e].status \notin Sealing /\ proc'[e].at \notin Starting
    BY <1>1, Places DEF SInv, Fits
<1>6. Sealed'
    <2>1. Clean' => Clean /\ OneKey'
        BY <1>1 DEF SInv, Sealed, Clean, OneKey, Up
    <2>2. QED
        BY <1>5, <2>1 DEF Sealed
<1>7. Kept'
    BY <1>1 DEF SInv, Kept, Alone, Resealing, Undisturbed
<1>8. QED
    BY <1>1, <1>4, <1>6, <1>7 DEF SInv

\* What the key state says of the key and of the row.
LEMMA KeyStates ==
    ASSUME NEW d \in Delivery
    PROVE  /\ d.key \in Key \cup {NoKey} /\ d.retired \subseteq Key
           /\ KeyState(d) \in Writers \cup {"no_key", "mismatch"}
           /\ KeyState(d) \in Sealing => d.key \in Key
           /\ KeyState(d) = "compat" => d.key = NoKey
           /\ KeyState(d) = "record" => store.kcv = NoKey
           /\ KeyState(d) = "current" => store.kcv = d.key
           /\ KeyState(d) = "retired" => store.kcv \in Key \ {d.key}
<1>1. d.key \in Key \cup {NoKey} /\ d.retired \subseteq Key
    BY SealAssumption
<1>2. QED
    BY <1>1, Places DEF KeyState

\* Open: an engine comes up with what it was given and what the row says.
LEMMA Opens ==
    ASSUME SInv, NEW e \in Engine, NEW d \in Delivery, Open(e, d)
    PROVE  SInv'
<1> DEFINE status == KeyState(d)
           to == IF status \in Sealing THEN "column" ELSE "open"
           retired == status = "retired"
           pending == PendingAtOpen(status)
           scrubbed == PendingAtOpen(status) /\ store.state = "scrubbed"
           q == [Down EXCEPT !.at = to, !.key = d.key, !.retired = d.retired,
                             !.status = status, !.recorded = store.kcv,
                             !.retired_left = retired, !.vacuum_pending = pending,
                             !.scrubbed = scrubbed]
<1>1. /\ ~Up(e) /\ opens < MaxOpens /\ opens' = opens + 1
      /\ proc' = [proc EXCEPT ![e] = q]
      /\ events' = events \cup (IF Mixed(d, status) THEN {"mixed"} ELSE {})
                          \cup (IF Shared THEN {"shared"} ELSE {})
      /\ UNCHANGED <<cell, column, store, residue, writes>>
    BY DEF Open
<1>2. /\ d.key \in Key \cup {NoKey} /\ d.retired \subseteq Key
      /\ status \in Writers \cup {"no_key", "mismatch"}
      /\ status \in Sealing => d.key \in Key
      /\ status = "compat" => d.key = NoKey
      /\ status = "record" => store.kcv = NoKey
      /\ status = "current" => store.kcv = d.key
      /\ status = "retired" => store.kcv \in Key \ {d.key}
    BY KeyStates
<1>3. /\ retired \in BOOLEAN /\ pending \in BOOLEAN /\ scrubbed \in BOOLEAN
      /\ (retired <=> status = "retired")
      /\ (pending <=> store.state \in {"vacuum_pending", "scrubbed"} \/ status = "record")
      /\ (scrubbed => pending /\ store.state = "scrubbed")
    BY DEF PendingAtOpen
<1>4. to \in {"column", "open"} /\ (to = "column" <=> status \in Sealing)
    OBVIOUS
<1>5. store.kcv \in Key \cup {NoKey}
    BY DEF SInv, Shapes, StoreState
<1> HIDE DEF status, to, retired, pending, scrubbed
<1>6. /\ q \in Proc /\ q.at = to /\ q.key = d.key /\ q.status = status
      /\ q.recorded = store.kcv /\ q.retired_left = retired
      /\ q.vacuum_pending = pending /\ q.scrubbed = scrubbed /\ q.column = 1
    <2> DEFINE q1 == [Down EXCEPT !.at = to, !.key = d.key]
               q2 == [q1 EXCEPT !.retired = d.retired, !.status = status]
               q3 == [q2 EXCEPT !.recorded = store.kcv, !.retired_left = retired]
               q4 == [q3 EXCEPT !.vacuum_pending = pending, !.scrubbed = scrubbed]
    <2>1. q1 \in Proc /\ q1.at = to /\ q1.key = d.key /\ q1.column = 1
        <3>1. Down.column = 1
            BY DEF Down
        <3>2. QED
            BY <1>2, <1>4, <3>1, DownRow, Places DEF Proc
    <2> HIDE DEF q1
    <2>2. q2 \in Proc /\ q2.at = to /\ q2.key = d.key /\ q2.status = status /\ q2.column = 1
        BY <1>2, <2>1 DEF Proc
    <2>3. q = [[q2 EXCEPT !.recorded = store.kcv, !.retired_left = retired]
                   EXCEPT !.vacuum_pending = pending, !.scrubbed = scrubbed]
        BY DEF q1
    <2> HIDE DEF q2
    <2>4. /\ q3 \in Proc /\ q3.at = to /\ q3.key = d.key /\ q3.status = status
          /\ q3.recorded = store.kcv /\ q3.retired_left = retired /\ q3.column = 1
        BY <1>3, <1>5, <2>2 DEF Proc
    <2>5. q = q4
        BY <2>3
    <2> HIDE DEF q3, q
    <2>6. /\ q4 \in Proc /\ q4.at = to /\ q4.key = d.key /\ q4.status = status
          /\ q4.recorded = store.kcv /\ q4.retired_left = retired
          /\ q4.vacuum_pending = pending /\ q4.scrubbed = scrubbed /\ q4.column = 1
        BY <1>3, <2>4 DEF Proc
    <2> HIDE DEF q4
    <2>7. QED
        BY <2>5, <2>6
<1> HIDE DEF q
<1>7. /\ proc' \in [Engine -> Proc] /\ proc'[e] = q
      /\ \A f \in Engine \ {e} : proc'[f] = proc[f]
    BY <1>1, <1>6 DEF SInv
<1>8. Fits(q)
    BY <1>2, <1>3, <1>4, <1>6, Places DEF Fits
<1>9. Shapes'
    <2>1. opens' \in 0..MaxOpens
        BY <1>1, KeysAreKeys DEF SInv, Shapes
    <2>2. events' \subseteq Events
        BY <1>1 DEF SInv, Shapes, Events
    <2>3. QED
        BY <1>1, <2>1, <2>2 DEF SInv, Shapes
<1>10. ASSUME Clean' PROVE Clean /\ ~Mixed(d, status)
    BY <1>1, <1>10 DEF Clean
<1>11. ASSUME Clean' PROVE OneKey'
    <2>1. OneKey
        BY <1>10, <1>11 DEF SInv, Sealed
    <2>2. \A f \in Engine \ {e} :
              Up(f) /\ proc[f].status \in Writers /\ status \in Writers => proc[f].key = d.key
        BY <1>10, <1>11 DEF Mixed, Writers
    <2>3. \A f \in Engine \ {e} : proc'[f] = proc[f] /\ (Up(f)' <=> Up(f))
        BY <1>7 DEF Up
    <2>4. proc'[e].status = status /\ proc'[e].key = d.key
        BY <1>6, <1>7
    <2>5. QED
        BY <2>1, <2>2, <2>3, <2>4 DEF OneKey
<1>12. status \in Sealing => Scanned(q, cell)
    <2>1. \A c \in Column : ~(c < 1)
        BY KeysAreKeys DEF Column
    <2>2. QED
        BY <1>4, <1>6, <2>1, Places DEF Scanned, Behind
<1>13. Recorded(q, store.kcv, cell)
    BY <1>6 DEF Recorded
<1>14. Sealed'
    <2>1. ASSUME Clean', NEW f \in Engine, proc'[f].status \in Sealing
          PROVE  Scanned(proc'[f], cell)
        BY <1>6, <1>7, <1>10, <1>12, <2>1 DEF SInv, Sealed
    <2>2. ASSUME Clean', NEW f \in Engine, proc'[f].at \in Starting
          PROVE  Recorded(proc'[f], store.kcv, cell)
        BY <1>7, <1>10, <1>13, <2>2 DEF SInv, Sealed
    <2>3. UNCHANGED <<cell, store>>
        BY <1>1
    <2>4. QED
        BY <1>11, <2>1, <2>2, <2>3 DEF Sealed
<1>15. ASSUME Undisturbed' PROVE Kept'
    <2>1. Undisturbed /\ ~Shared
        BY <1>1, <1>15 DEF Undisturbed
    <2>2. \A f \in Engine : proc[f].at \notin Starting
        BY <2>1, Places DEF Shared
    <2>3. \A f \in Engine : ~Resealing(proc[f])
        BY <2>2, Places DEF Resealing
    <2>4. Remembers(store, residue) /\ UNCHANGED <<store, residue>>
        BY <1>1, <2>1, <2>3 DEF SInv, Kept
    <2>5. \A f \in Engine : Tracks(proc'[f], store, residue)
        <3>1. Tracks(q, store, residue)
            BY <1>3, <1>4, <1>6, Places DEF Tracks
        <3>2. QED
            BY <1>7, <2>1, <3>1 DEF SInv, Kept
    <2>6. Alone'
        BY <1>7, <2>2 DEF Alone
    <2>7. QED
        BY <2>4, <2>5, <2>6 DEF Kept
<1>16. QED
    BY <1>7, <1>8, <1>9, <1>14, <1>15 DEF SInv, Kept

-----------------------------------------------------------------------------
(* The specification.                                                      *)

\* The first state: no engine is up and nothing was sealed.
LEMMA InitSInv == Init => SInv
<1> SUFFICES ASSUME Init PROVE SInv
    OBVIOUS
<1>1. \A e \in Engine : proc[e] = Down
    BY DEF Init
<1>2. proc \in [Engine -> Proc]
    BY DownRow DEF Init
<1>3. \A e \in Engine : Fits(proc[e])
    BY <1>1, DownRow, Places DEF Fits
<1>4. Shapes
    <2>1. cell \in [Column -> [Row -> Value]]
        <3>1. {"empty", "plain", "junk"} \subseteq Value
            BY KeysAreKeys
        <3>2. QED
            BY <3>1 DEF Init
    <2>2. [state |-> "none", cursor |-> 0, kcv |-> NoKey] \in ColumnState
        BY KeysAreKeys DEF ColumnState
    <2>3. column \in [Column -> ColumnState] /\ \A c \in Column : column[c].cursor = 0
        BY <2>2 DEF Init
    <2>4. store \in StoreState /\ store.kcv = NoKey /\ store.state = "none"
        BY DEF Init, StoreState
    <2>5. opens \in 0..MaxOpens /\ writes \in 0..MaxWrites /\ residue = {} /\ events = {}
        BY KeysAreKeys DEF Init
    <2>6. QED
        BY <2>1, <2>3, <2>4, <2>5 DEF Shapes
<1>5. Sealed
    BY <1>1, DownRow, Places DEF Sealed, OneKey, Up
<1>6. Kept
    <2>1. store.kcv = NoKey
        BY DEF Init
    <2>2. QED
        BY <1>1, <2>1, DownRow, Places DEF Kept, Alone, Remembers, Tracks
<1>7. QED
    BY <1>2, <1>3, <1>4, <1>5, <1>6 DEF SInv

\* Every step keeps the invariant.
LEMMA NextSInv == SInv /\ [Next]_vars => SInv'
<1> SUFFICES ASSUME SInv, [Next]_vars PROVE SInv'
    OBVIOUS
<1>1. ASSUME NEW e \in Engine, Migrate(e) PROVE SInv'
    BY <1>1, StartsColumn, Selects, Commits, EndsColumn, Reports, Scrubs, Vacuums, Records,
       Defers DEF Migrate
<1>2. ASSUME NEW e \in Engine, Bind(e) PROVE SInv'
    BY <1>2, Binds
<1>3. ASSUME NEW e \in Engine, Die(e) PROVE SInv'
    BY <1>3, Dies
<1>4. ASSUME NEW e \in Engine, NEW d \in Delivery, Open(e, d) PROVE SInv'
    BY <1>4, Opens
<1>5. ASSUME NEW c \in Column, NEW r \in Row, OldBuildWrites(c, r) PROVE SInv'
    BY <1>5, OldBuilds
<1>6. ASSUME NEW c \in Column, NEW r \in Row, NEW e \in Engine, Write(e, c, r) PROVE SInv'
    BY <1>6, Writes
<1>7. CASE UNCHANGED vars
    BY <1>7 DEF vars, SInv, Shapes, Sealed, Clean, OneKey, Up, Kept, Alone, Undisturbed
<1>8. QED
    BY <1>1, <1>2, <1>3, <1>4, <1>5, <1>6, <1>7 DEF Next

\* The inductive invariant of the sealed store holds of every run, for any engines,
\* deliveries, columns, rows and batches (StoreSeal, ryu_content_seal.py).
THEOREM SealInvariant == Spec => []SInv
BY InitSInv, NextSInv, PTL DEF Spec

\* Type correctness of the tables and the engines (_STATE_DDL, ryu_content_seal.py).
THEOREM SealTypes == Spec => []TypeOK
<1>1. SInv => TypeOK
    <2> SUFFICES ASSUME SInv PROVE TypeOK
        OBVIOUS
    <2>1. \A e \in Engine : /\ proc[e].column \in Column /\ proc[e].cursor \in 0..Rows
                            /\ proc[e].vacuum_pending \/ ~proc[e].scrubbed
        BY TypedEngine DEF Fits
    <2>2. QED
        BY <2>1 DEF SInv, Shapes, TypeOK
<1>2. QED
    BY <1>1, SealInvariant, PTL

\* An engine that has migrated the store serves one with no plaintext in it (migrate,
\* ryu_content_seal.py).
THEOREM NoPlaintextServed == Spec => []ServesNoPlaintext
<1>1. SInv => ServesNoPlaintext
    <2> SUFFICES ASSUME SInv, Clean, NEW e \in Engine, NEW c \in Column, NEW r \in Row,
                        proc[e].at \in {"finish", "scrubbed", "vacuumed", "open", "serving"},
                        proc[e].status \in Sealing
                 PROVE  cell[c][r] # "plain"
        BY DEF ServesNoPlaintext, HoldsPlaintext, Clean
    <2>1. Scanned(proc[e], cell)
        BY DEF SInv, Sealed
    <2>2. QED
        BY <2>1, Places DEF Scanned
<1>2. QED
    BY <1>1, SealInvariant, PTL

\* With every engine down, plaintext that sealing left on the disk is remembered by the
\* store, if no two startups met at it and no migration died after a reseal and before
\* its store's row while that row held a key and no pending scrub (migrate,
\* ryu_content_seal.py).
THEOREM ResidueRemembered == Spec => []ResidueIsPending
<1>1. SInv => ResidueIsPending
    <2> SUFFICES ASSUME SInv, Undisturbed, residue # {}, \A e \in Engine : ~Up(e)
                 PROVE  Remembers(store, residue)
        BY DEF ResidueIsPending, Remembers
    <2>1. \A e \in Engine : ~Resealing(proc[e])
        BY Places DEF Up, Resealing
    <2>2. QED
        BY <2>1 DEF SInv, Kept
<1>2. QED
    BY <1>1, SealInvariant, PTL

\* An engine's key is recorded in place of another only when it opens every value
\* (migrate, ryu_content_seal.py).
THEOREM KeysTakeOverAll == Spec => KeyTakesOverAll
<1>1. ASSUME SInv, [Next]_vars, Clean, store.kcv # NoKey, store'.kcv # store.kcv,
             NEW f \in Engine, proc[f].status \in Sealing, proc[f].key = store'.kcv
      PROVE  AllUnder(cell, store'.kcv)
    <2>1. \E e \in Engine : Report(e) \/ Record(e)
        BY <1>1 DEF Next, vars, Migrate, StartColumn, Select, Commit, EndColumn, Scrub, Vacuum,
                    Defer, Bind, Die, Open, OldBuildWrites, Write
    <2>2. PICK e \in Engine : Report(e) \/ Record(e)
        BY <2>1
    <2>3. /\ proc[e].at \in Starting /\ proc[e].status \in Sealing /\ Fits(proc[e])
          /\ proc[e] \in Proc
        <3>1. proc[e].at \in {"report", "scrubbed", "vacuumed"}
            BY <2>2 DEF Report, Record
        <3>2. QED
            BY <1>1, <3>1, TypedEngine, Places DEF Fits
    <2>4. proc[f].key = proc[e].key
        BY <1>1, <2>3, SameKey, Places
    <2>5. CASE Report(e) /\ ~Left(proc[e])
        BY <1>1, <2>4, <2>5, MayTakeOver DEF Report
    <2>6. CASE Record(e) /\ ~proc[e].retired_left
        BY <1>1, <2>4, <2>6, MayTakeOver, Places DEF Record
    <2>7. CASE (Report(e) /\ Left(proc[e])) \/ (Record(e) /\ proc[e].retired_left)
        <3>1. store'.kcv = proc[e].recorded /\ proc[e].retired_left
            <4>1. CASE Record(e) /\ proc[e].retired_left
                BY <4>1 DEF Record, StateOf
            <4>2. CASE Report(e) /\ Left(proc[e])
                <5> DEFINE p == proc[e]
                           pending == p.vacuum_pending \/ p.resealed
                           scrubbed == p.scrubbed /\ ~p.resealed
                           done == Finish(p, Left(p), pending, scrubbed)
                <5>1. store' = StateOf(done)
                    BY <4>2 DEF Report, Finish
                <5>2. Left(p) \in BOOLEAN /\ pending \in BOOLEAN /\ scrubbed \in BOOLEAN
                    BY <2>3 DEF Left, Proc
                <5>3. p \in Proc
                    BY <2>3
                <5> HIDE DEF pending, scrubbed
                <5>4. done.retired_left = Left(p) /\ done.recorded = p.recorded
                    BY <5>2, <5>3, FinishRow
                <5> HIDE DEF done
                <5>5. QED
                    BY <4>2, <5>1, <5>4 DEF StateOf, Left
            <4>3. QED
                BY <2>7, <4>1, <4>2
        <3>2. proc[e].recorded # proc[e].key
            BY <2>3, <3>1 DEF Fits
        <3>3. QED
            BY <1>1, <2>4, <3>1, <3>2
    <2>8. QED
        BY <2>2, <2>5, <2>6, <2>7
<1>2. SInv /\ [Next]_vars => [events \cap {"mixed", "skipped"} = {} => TakesOverAll]_vars
    BY <1>1 DEF TakesOverAll, AllUnder, Clean
<1>3. QED
    BY <1>2, SealInvariant, PTL DEF Spec, KeyTakesOverAll
=============================================================================
