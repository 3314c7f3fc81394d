----------------------------- MODULE HistoryFile ------------------------------
(***************************************************************************)
(* history.jsonl of one campaign, the projection of its rows that a        *)
(* recursive analysis reads: refresh_history in                            *)
(* sidecar/ryu_research/campaigns.py, and what startup rebuilds of it.     *)
(*                                                                         *)
(* Every call that writes the campaign stamps updated_at, commits, and     *)
(* then refreshes the file.  A refresh takes its own stamp, reads the rows,*)
(* replaces the file and records the stamp; refreshes exclude each other   *)
(* in one engine.  After a death, startup interrupts what was running and  *)
(* compares the two stamps.                                                *)
(*                                                                         *)
(* The rows are their version, counted by commits; a file is the version   *)
(* of the rows it was written from.                                        *)
(***************************************************************************)
EXTENDS Integers

CONSTANTS
    Thread,
    Main,          \* the thread that starts the engine
    MaxVersion,    \* bound: commits
    MaxClock,      \* bound: milliseconds that pass
    MaxCrashes     \* bound: deaths of the engine

ASSUME HistoryAssumption ==
    /\ Main \in Thread
    /\ MaxVersion \in Nat
    /\ MaxClock \in Nat
    /\ MaxCrashes \in Nat

VARIABLES
    clock,         \* milliseconds: several steps may see the same one
    version, updatedAt,    \* the campaign's rows, and campaigns.updated_at
    refreshedAt,   \* history_refreshes.refreshed_at, or Never
    file,          \* the version the file was written from
    pc,
    engine,        \* "serving", "starting" or "down"
    crashes,
    running,       \* an attempt runs: "no", "shown" by campaigns.status, or "hidden"
    overtaken,     \* history variable: the last change of the rows Overtakes a refresh
    raised         \* history variable: a call raised before its refresh was done, and
                   \* no refresh has caught up with the rows since

rows == <<version, updatedAt, running>>
vars == <<clock, version, updatedAt, running, refreshedAt, file, pc, engine, crashes,
          overtaken, raised>>

Never == -1
Stamp == 0..MaxClock
Version == 0..MaxVersion + 1    \* startup's repair may be one more

Idle == [step |-> "idle"]
Write == [step : {"stamped"}, stamp : Stamp,
          locked : BOOLEAN]      \* the stamp was taken under SQLite's write lock
Waiting == [step : {"committed"}]
Refresh == [step : {"refreshing", "read", "replaced"}, stamp : Stamp, read : Version]
Call == {Idle} \cup Write \cup Waiting \cup Refresh

\* A campaign just created and refreshed.
Init ==
    /\ clock = 0
    /\ version = 0 /\ updatedAt = 0 /\ refreshedAt = 0 /\ file = 0
    /\ running = "no"
    /\ pc = [t \in Thread |-> Idle]
    /\ engine = "serving"
    /\ crashes = 0
    /\ overtaken = FALSE
    /\ raised = FALSE

At(t, step) == pc[t].step = step
Tick ==
    /\ clock < MaxClock
    /\ clock' = clock + 1
    /\ UNCHANGED <<rows, refreshedAt, file, pc, engine, crashes, overtaken, raised>>

-----------------------------------------------------------------------------
(* A write.                                                                *)

WriteLockFree == \A t \in Thread : At(t, "stamped") => ~pc[t].locked

\* start_attempt, finish_attempt, create_proposal, record_analysis and
\* update_attempt_description stamp after BEGIN; set_campaign_status and
\* create_campaign before they have the lock.
Begin(t, locked) ==
    /\ engine = "serving"
    /\ pc[t] = Idle
    /\ version < MaxVersion
    /\ locked => WriteLockFree
    /\ pc' = [pc EXCEPT ![t] = [step |-> "stamped", stamp |-> clock, locked |-> locked]]
    /\ UNCHANGED <<clock, rows, refreshedAt, file, engine, crashes, overtaken, raised>>

\* A change carries an earlier stamp than a refresh that did not read it: one recorded
\* already, or one between its reading and its record.
Overtakes(stamp) ==
    \/ stamp < refreshedAt
    \/ \E t \in Thread : pc[t].step \in {"read", "replaced"} /\ stamp < pc[t].stamp

\* start_attempt shows the attempt in campaigns.status and finish_attempt ends it;
\* a set_campaign_status that read the row before the start overwrites it.
Runs(locked) ==
    \/ UNCHANGED running
    \/ locked /\ running = "no" /\ running' = "shown"
    \/ locked /\ running # "no" /\ running' = "no"
    \/ ~locked /\ running = "shown" /\ running' = "hidden"

Commit(t) ==
    /\ At(t, "stamped")
    /\ pc[t].locked \/ WriteLockFree
    /\ version < MaxVersion
    /\ version' = version + 1
    /\ updatedAt' = pc[t].stamp
    /\ Runs(pc[t].locked)
    /\ overtaken' = Overtakes(pc[t].stamp)
    /\ pc' = [pc EXCEPT ![t] = [step |-> "committed"]]
    /\ UNCHANGED <<clock, refreshedAt, file, engine, crashes, raised>>

Rollback(t) ==
    /\ At(t, "stamped")
    /\ pc' = [pc EXCEPT ![t] = Idle]
    /\ UNCHANGED <<clock, rows, refreshedAt, file, engine, crashes, overtaken, raised>>

-----------------------------------------------------------------------------
(* refresh_history.                                                        *)

HistoryLockFreeMutant == TRUE   \* mutant: refreshes do not exclude each other
HistoryLockFree == \A t \in Thread : pc[t].step \notin {"refreshing", "read", "replaced"}

RefreshStamp == clock

\* The lock and the stamp: taken before the read.
StartRefresh(t) ==
    /\ At(t, "committed")
    /\ HistoryLockFree
    /\ pc' = [pc EXCEPT ![t] = [step |-> "refreshing", stamp |-> RefreshStamp, read |-> 0]]
    /\ UNCHANGED <<clock, rows, refreshedAt, file, engine, crashes, overtaken, raised>>

ReadNowMutant == IF version > 0 THEN version - 1 ELSE 0   \* mutant: the state from before the commit
ReadNow == version
Read(t) ==
    /\ At(t, "refreshing")
    /\ pc' = [pc EXCEPT ![t] = [step |-> "read", stamp |-> pc[t].stamp, read |-> ReadNow]]
    /\ UNCHANGED <<clock, rows, refreshedAt, file, engine, crashes, overtaken, raised>>

\* The document is written beside the file, and renamed over it.
Replace(t) ==
    /\ At(t, "read")
    /\ file' = pc[t].read
    /\ raised' = (raised /\ pc[t].read # version)
    /\ pc' = [pc EXCEPT ![t] = [@ EXCEPT !.step = "replaced"]]
    /\ UNCHANGED <<clock, rows, refreshedAt, engine, crashes, overtaken>>

RecordedMutant(t) == clock     \* mutant: the stamp of the record, not of the read
Recorded(t) == pc[t].stamp

\* _record_history_refresh: a write of its own.
Record(t) ==
    /\ At(t, "replaced")
    /\ WriteLockFree
    /\ refreshedAt' = Recorded(t)
    /\ pc' = [pc EXCEPT ![t] = Idle]
    /\ UNCHANGED <<clock, rows, file, engine, crashes, overtaken, raised>>

\* The store cannot be opened or sealed, the disk is full, the database is busy: in
\* the refresh, or in what a call reads between its commit and its refresh.  At
\* startup the campaign is skipped.
RefreshRaises(t) ==
    /\ pc[t].step \in {"committed", "refreshing", "read", "replaced"}
    /\ pc' = [pc EXCEPT ![t] = Idle]
    /\ raised' = TRUE
    /\ UNCHANGED <<clock, rows, refreshedAt, file, engine, crashes, overtaken>>

-----------------------------------------------------------------------------
Crash ==
    /\ engine # "down"
    /\ crashes < MaxCrashes
    /\ crashes' = crashes + 1
    /\ engine' = "down"
    /\ pc' = [t \in Thread |-> Idle]
    /\ raised' = FALSE
    /\ UNCHANGED <<clock, rows, refreshedAt, file, overtaken>>

\* A refresh in the very millisecond of a write cannot tell which came first.
NeedsRefreshMutant == refreshedAt = Never \/ updatedAt > refreshedAt   \* mutant: > for >=
NeedsRefresh == refreshedAt = Never \/ updatedAt >= refreshedAt

\* Startup interrupts a running attempt, and stamps a campaign whose row shows it.
RepairStamp == IF running = "shown" THEN clock ELSE updatedAt

Repair ==
    IF running = "no" THEN UNCHANGED <<rows, overtaken>>
    ELSE /\ version' = version + 1
         /\ updatedAt' = RepairStamp
         /\ running' = "no"
         /\ overtaken' = (running = "hidden" /\ Overtakes(RepairStamp))

\* initialize_store: the main thread rebuilds what it repaired or believes stale.
Restart ==
    /\ engine = "down"
    /\ engine' = "starting"
    /\ Repair
    /\ pc' = IF running # "no" \/ NeedsRefresh
             THEN [pc EXCEPT ![Main] = [step |-> "committed"]]
             ELSE pc
    /\ UNCHANGED <<clock, refreshedAt, file, crashes, raised>>

Serve ==
    /\ engine = "starting"
    /\ pc[Main] = Idle
    /\ engine' = "serving"
    /\ UNCHANGED <<clock, rows, refreshedAt, file, pc, crashes, overtaken, raised>>

Proceed(t) ==
    \/ Rollback(t)
    \/ Commit(t)
    \/ StartRefresh(t)
    \/ Read(t)
    \/ Replace(t)
    \/ Record(t)

Next ==
    \/ Tick
    \/ \E t \in Thread, locked \in BOOLEAN : Begin(t, locked)
    \/ \E t \in Thread : Proceed(t) \/ RefreshRaises(t)
    \/ Crash
    \/ Restart
    \/ Serve

\* A call goes on to its end.  A thread that waits for a lock gets it at the latest
\* when no other thread takes it any more: a burst of writes ends (MaxVersion).
Fairness == \A t \in Thread : WF_vars(Proceed(t))

Spec == Init /\ [][Next]_vars /\ Fairness

-----------------------------------------------------------------------------
(* Properties.                                                             *)

\* Stamps, versions and threads have their declared shape, and no file is newer
\* than the rows.
TypeOK ==
    /\ clock \in Stamp
    /\ version \in Version /\ updatedAt \in Stamp
    /\ refreshedAt \in Stamp \cup {Never}
    /\ file \in 0..version
    /\ running \in {"no", "shown", "hidden"}
    /\ pc \in [Thread -> Call]
    /\ engine \in {"serving", "starting", "down"}
    /\ crashes \in 0..MaxCrashes
    /\ overtaken \in BOOLEAN
    /\ raised \in BOOLEAN

\* A refresh never puts an older history back, however many threads refresh
\* (_HISTORY_LOCK from the read to the rename).
FileNeverGoesBack == [][file' >= file]_vars

\* A death at any step leaves a stale file that startup will rebuild, with one named
\* exception, overtaken: the change the file lacks carries an earlier stamp than a
\* refresh that did not read it.  Such a change is a commit whose stamp was taken before
\* that refresh began, or startup's interruption of an attempt whose campaign was not
\* shown as running, which stamps nothing.
DeathLeavesATrace == ~overtaken /\ engine = "down" /\ file # version => NeedsRefresh

\* The engine that serves has the whole history in the file when no call is in flight,
\* with two named exceptions: a call raised after its commit (raised), until the next
\* refresh that reads it, and an overtaken change whose engine died before its refresh.
QuietFileIsCurrent ==
    engine = "serving" /\ ~raised /\ ~overtaken /\ (\A t \in Thread : pc[t] = Idle)
        => file = version

\* A call that committed does not return with its write missing from the file,
\* unless the engine dies or a call raises between its commit and its record first.
WritesReachTheFile ==
    \A t \in Thread, v \in Version :
        engine = "serving" /\ At(t, "committed") /\ version = v
            ~> file >= v \/ engine # "serving" \/ raised
=============================================================================
