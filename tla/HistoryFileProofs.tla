------------------------- MODULE HistoryFileProofs --------------------------
(***************************************************************************)
(* What holds of the history file for any number of threads, commits,      *)
(* milliseconds and deaths: refreshes exclude each other and put no older  *)
(* history back, a death leaves a stale file that startup recognises, and  *)
(* an engine at rest has the whole history in the file.                    *)
(***************************************************************************)
EXTENDS HistoryFile, TLAPS

InRefresh(t) == pc[t].step \in {"refreshing", "read", "replaced"}
HasRead(t) == pc[t].step \in {"read", "replaced"}

\* _HISTORY_LOCK, and what it protects: a refresh that has read the rows is about
\* to write a version between the file's and the rows'.
OneRefreshes == \A t, u \in Thread : InRefresh(t) /\ InRefresh(u) => t = u

ReadsAreBetween ==
    \A t \in Thread : HasRead(t) => file <= pc[t].read /\ pc[t].read <= version

ReplacedIsRead == \A t \in Thread : At(t, "replaced") => file = pc[t].read

\* A refresh whose reading is old will be recorded with a stamp that is not later
\* than the commit it missed, if no commit was overtaken.
ReadsAreStamped ==
    ~overtaken =>
        \A t \in Thread : HasRead(t) => pc[t].read = version \/ updatedAt >= pc[t].stamp

\* Every recorded or pending stamp has passed.
StampsPassed ==
    /\ refreshedAt <= clock
    /\ \A t \in Thread : At(t, "stamped") \/ InRefresh(t) => pc[t].stamp <= clock

\* An attempt started by a commit leaves room for its repair.
RoomForRepair == running # "no" => version <= MaxVersion

RestWhenDown == engine = "down" => \A t \in Thread : At(t, "idle")

Traced == ~overtaken /\ file # version => NeedsRefresh

\* Who will bring the file up to date.
Owes(t) == pc[t].step \in {"committed", "refreshing"} \/ (At(t,
"read") /\ pc[t].read = version)

SomebodyOwes ==
    engine # "down" /\ ~raised /\ ~overtaken /\ file # version => \E t \in Thread : Owes(t)

IInv ==
    /\ TypeOK
    /\ OneRefreshes
    /\ ReadsAreBetween
    /\ ReplacedIsRead
    /\ ReadsAreStamped
    /\ StampsPassed
    /\ RoomForRepair
    /\ RestWhenDown
    /\ Traced
    /\ SomebodyOwes

-----------------------------------------------------------------------------
(* Threads.                                                                *)

LEMMA Shapes ==
    ASSUME NEW p \in Call
    PROVE  /\ p.step = "stamped" => p \in Write /\ p.stamp \in Stamp /\ p.locked \in BOOLEAN
           /\ p.step \in {"refreshing", "read", "replaced"}
                => p \in Refresh /\ p.stamp \in Stamp /\ p.read \in Version
           /\ p = Idle => p.step = "idle"
           /\ Idle \in Call /\ Idle.step = "idle"
BY DEF Call, Idle, Write, Waiting, Refresh

LEMMA Calls ==
    ASSUME NEW s \in Stamp, NEW v \in Version, NEW locked \in BOOLEAN
    PROVE  /\ [step |-> "stamped", stamp |-> s, locked |-> locked] \in Call
           /\ [step |-> "committed"] \in Call
           /\ [step |-> "refreshing", stamp |-> s, read |-> v] \in Call
           /\ [step |-> "read", stamp |-> s, read |-> v] \in Call
BY DEF Call, Write, Waiting, Refresh

LEMMA Moves ==
    ASSUME NEW p \in Refresh
    PROVE  /\ [p EXCEPT !.step = "replaced"] \in Refresh
           /\ [p EXCEPT !.step = "replaced"].step = "replaced"
           /\ [p EXCEPT !.step = "replaced"].read = p.read
           /\ [p EXCEPT !.step = "replaced"].stamp = p.stamp
BY DEF Refresh

LEMMA Numbers ==
    /\ Stamp \subseteq Int /\ Version \subseteq Int
    /\ TypeOK => /\ version \in Nat /\ updatedAt \in Nat /\ file \in Nat /\ clock \in Nat
                 /\ refreshedAt \in Int
                 /\ pc \in [Thread -> Call]
BY HistoryAssumption DEF Stamp, Version, Never, TypeOK

-----------------------------------------------------------------------------
(* The invariant.                                                          *)

LEMMA InitHolds == Init => IInv
<1> SUFFICES ASSUME Init PROVE IInv
  OBVIOUS
<1>1. /\ \A t \in Thread : pc[t].step = "idle" /\ pc[t] \in Call
      /\ pc \in [Thread -> Call]
  BY Shapes DEF Init, Idle, Call
<1>2. /\ 0 \in Stamp /\ 0 \in Version /\ 0 \in 0..MaxCrashes /\ 0 \in 0..0
  BY HistoryAssumption DEF Stamp, Version
<1>3. TypeOK
  BY <1>1, <1>2 DEF Init, TypeOK
<1> QED
  BY <1>1, <1>3
     DEF Init, IInv, OneRefreshes, ReadsAreBetween, ReplacedIsRead, ReadsAreStamped,
         StampsPassed, RoomForRepair, RestWhenDown, Traced, SomebodyOwes, InRefresh,
         HasRead, At

LEMMA StepHolds == IInv /\ [Next]_vars => IInv'
<1> SUFFICES ASSUME IInv, [Next]_vars PROVE IInv'
  OBVIOUS
<1> USE HistoryAssumption, Numbers
<1>1. CASE Tick
  <2>1. clock \in Int /\ refreshedAt \in Int /\ clock' = clock + 1
    BY <1>1 DEF Tick, IInv, TypeOK
  <2>2. \A t \in Thread : At(t, "stamped") \/ InRefresh(t) => pc[t].stamp \in Int
    BY Shapes DEF IInv, TypeOK, At, InRefresh
  <2>3. StampsPassed'
    BY <1>1, <2>1, <2>2 DEF Tick, IInv, StampsPassed, InRefresh, At
  <2> QED
    BY <1>1, <2>3
       DEF Tick, rows, IInv, TypeOK, Stamp, Version, OneRefreshes, ReadsAreBetween,
           ReplacedIsRead, ReadsAreStamped, RoomForRepair, RestWhenDown, Traced,
           SomebodyOwes,
           InRefresh, HasRead, Owes, At, NeedsRefresh
<1>2. ASSUME NEW t \in Thread, NEW locked \in BOOLEAN, Begin(t, locked) PROVE IInv'
  <2> DEFINE X == [step |-> "stamped", stamp |-> clock, locked |-> locked]
  <2>1. /\ pc' = [pc EXCEPT ![t] = X]
        /\ X \in Call
        /\ X.step = "stamped" /\ pc[t].step = "idle"
    BY <1>2, Shapes, Calls DEF Begin, IInv, TypeOK, Idle
  <2> HIDE DEF X
  <2>2. /\ pc'[t] = X /\ pc' \in [Thread -> Call]
        /\ \A u \in Thread : u # t => pc'[u] = pc[u]
    BY <2>1 DEF IInv
  <2>3. TypeOK'
    BY <1>2, <2>1, <2>2, Shapes
       DEF Begin, rows, IInv, TypeOK, ReadsAreBetween, HasRead, At, Stamp, Version,
           Recorded
  <2> QED
    BY <1>2, <2>1, <2>2, <2>3, Shapes
       DEF Begin, rows, IInv, OneRefreshes, ReadsAreBetween, ReplacedIsRead,
           ReadsAreStamped, StampsPassed, RoomForRepair, RestWhenDown, Traced,
           SomebodyOwes, InRefresh, HasRead, Owes, At,
           NeedsRefresh, TypeOK
<1>3. ASSUME NEW t \in Thread, Rollback(t) PROVE IInv'
  <2> DEFINE X == Idle
  <2>1. /\ pc' = [pc EXCEPT ![t] = X]
        /\ X \in Call
        /\ X.step = "idle" /\ pc[t].step = "stamped"
    BY <1>3, Shapes, Moves
       DEF Rollback, IInv, At, Call, Write, Waiting, Refresh, Idle, RefreshStamp,
           ReadNow, Stamp, Version
  <2> HIDE DEF X
  <2>2. /\ pc'[t] = X /\ pc' \in [Thread -> Call]
        /\ \A u \in Thread : u # t => pc'[u] = pc[u]
    BY <2>1 DEF IInv
  <2>3. TypeOK'
    BY <1>3, <2>1, <2>2, Shapes
       DEF Rollback, rows, IInv, TypeOK, ReadsAreBetween, HasRead, At, Stamp, Version,
           Recorded
  <2> QED
    BY <1>3, <2>1, <2>2, <2>3, Shapes
       DEF Rollback, rows, IInv, OneRefreshes, ReadsAreBetween, ReplacedIsRead,
           ReadsAreStamped, StampsPassed, RoomForRepair, RestWhenDown, Traced,
           SomebodyOwes, InRefresh, HasRead, Owes, At,
           NeedsRefresh, TypeOK
<1>4. ASSUME NEW t \in Thread, Commit(t) PROVE IInv'
  <2> DEFINE X == [step |-> "committed"]
  <2>1. /\ pc' = [pc EXCEPT ![t] = X]
        /\ X \in Call
        /\ X.step = "committed" /\ pc[t].step = "stamped" /\ pc[t].stamp \in Stamp
    BY <1>4, Shapes, Moves
       DEF Commit, IInv, At, Call, Write, Waiting, Refresh, Idle, RefreshStamp, ReadNow,
           Stamp, Version
  <2> HIDE DEF X
  <2>2. /\ pc'[t] = X /\ pc' \in [Thread -> Call]
        /\ \A u \in Thread : u # t => pc'[u] = pc[u]
    BY <2>1 DEF IInv
  <2>3. /\ version \in Nat /\ file \in Nat /\ file <= version /\ version < MaxVersion
        /\ version' = version + 1 /\ file' = file /\ refreshedAt' = refreshedAt
        /\ updatedAt' = pc[t].stamp /\ overtaken' = Overtakes(pc[t].stamp)
        /\ engine' = engine /\ raised' = raised /\ pc[t].stamp \in Int /\ refreshedAt \in Int
        /\ clock' = clock
    <3>1. /\ version \in Nat /\ file \in Nat /\ refreshedAt \in Int /\ file \in 0..version
      BY DEF IInv, TypeOK
    <3>2. file <= version
      BY <3>1
    <3> QED
      BY <1>4, <2>1, <3>1, <3>2 DEF Commit
  <2>4. TypeOK'
    <3>1. version' \in Version /\ file' \in 0..version' /\ updatedAt' \in Stamp
      BY <1>4, <2>1, <2>3 DEF Commit, Version
    <3>2. overtaken' \in BOOLEAN
      BY <2>3 DEF Overtakes
    <3>3. running' \in {"no", "shown", "hidden"}
      BY <1>4 DEF Commit, Runs, IInv, TypeOK
    <3> QED
      BY <1>4, <2>2, <3>1, <3>2, <3>3 DEF Commit, IInv, TypeOK
  <2>5. ReadsAreStamped' /\ Traced'
    <3>1. ASSUME ~overtaken'
          PROVE  /\ updatedAt' >= refreshedAt
                 /\ \A u \in Thread : HasRead(u) => updatedAt' >= pc[u].stamp
      <4>1. \A u \in Thread : HasRead(u) => pc[u].stamp \in Int
        BY Shapes DEF IInv, TypeOK, HasRead
      <4> QED
        BY <2>3, <3>1, <4>1 DEF Overtakes, HasRead
    <3> QED
      BY <2>1, <2>2, <2>3, <3>1 DEF ReadsAreStamped, Traced, NeedsRefresh, HasRead
  <2>6. OneRefreshes' /\ ReadsAreBetween' /\ ReplacedIsRead'
    <3>1. \A u \in Thread : HasRead(u) => pc[u].read \in Int
      BY Shapes DEF IInv, TypeOK, HasRead
    <3> QED
      BY <2>1, <2>2, <2>3, <3>1
         DEF IInv, OneRefreshes, ReadsAreBetween, ReplacedIsRead, InRefresh, HasRead,
             At
  <2>7. SomebodyOwes'
    BY <2>1, <2>2 DEF SomebodyOwes, Owes
  <2>8. StampsPassed' /\ RoomForRepair' /\ RestWhenDown'
    BY <2>1, <2>2, <2>3 DEF IInv, StampsPassed, RoomForRepair, RestWhenDown, HasRead,
    InRefresh, At
  <2> QED
    BY <2>4, <2>5, <2>6, <2>7, <2>8 DEF IInv
<1>5. ASSUME NEW t \in Thread, StartRefresh(t) PROVE IInv'
  <2> DEFINE X == [step |-> "refreshing", stamp |-> RefreshStamp, read |-> 0]
  <2>1. /\ pc' = [pc EXCEPT ![t] = X]
        /\ X \in Call
        /\ X.step = "refreshing" /\ pc[t].step = "committed"
        /\ X.stamp = clock /\ clock \in Int
    <3>1. clock \in Stamp /\ 0 \in Version
      BY DEF IInv, TypeOK, Version
    <3> QED
      BY <1>5, <3>1, Calls DEF StartRefresh, At, RefreshStamp
  <2> HIDE DEF X
  <2>2. /\ pc'[t] = X /\ pc' \in [Thread -> Call]
        /\ \A u \in Thread : u # t => pc'[u] = pc[u]
    BY <2>1 DEF IInv
  <2>3. TypeOK'
    BY <1>5, <2>1, <2>2, Shapes
       DEF StartRefresh, rows, IInv, TypeOK, ReadsAreBetween, HasRead, At, Stamp,
           Version, Recorded
  <2> QED
    BY <1>5, <2>1, <2>2, <2>3, Shapes
       DEF StartRefresh, rows, IInv, OneRefreshes, ReadsAreBetween, ReplacedIsRead,
           ReadsAreStamped, StampsPassed, RoomForRepair, RestWhenDown, Traced,
           SomebodyOwes, InRefresh, HasRead, Owes, At,
           NeedsRefresh, TypeOK, HistoryLockFree
<1>6. ASSUME NEW t \in Thread, Read(t) PROVE IInv'
  <2> DEFINE X == [step |-> "read", stamp |-> pc[t].stamp, read |-> ReadNow]
  <2>1. /\ pc' = [pc EXCEPT ![t] = X]
        /\ X \in Call
        /\ X.step = "read" /\ X.stamp = pc[t].stamp /\ X.read = version
        /\ pc[t].step = "refreshing"
    BY <1>6, Shapes, Calls DEF Read, IInv, TypeOK, At, ReadNow
  <2> HIDE DEF X
  <2>2. /\ pc'[t] = X /\ pc' \in [Thread -> Call]
        /\ \A u \in Thread : u # t => pc'[u] = pc[u]
    BY <2>1 DEF IInv
  <2>3. TypeOK'
    BY <1>6, <2>1, <2>2, Shapes
       DEF Read, rows, IInv, TypeOK, ReadsAreBetween, HasRead, At, Stamp, Version,
           Recorded
  <2> QED
    BY <1>6, <2>1, <2>2, <2>3, Shapes
       DEF Read, rows, IInv, OneRefreshes, ReadsAreBetween, ReplacedIsRead,
           ReadsAreStamped, StampsPassed, RoomForRepair, RestWhenDown, Traced,
           SomebodyOwes, InRefresh, HasRead, Owes, At,
           NeedsRefresh, TypeOK
<1>7. ASSUME NEW t \in Thread, Replace(t) PROVE IInv'
  <2> DEFINE X == [pc[t] EXCEPT !.step = "replaced"]
  <2>1. /\ pc' = [pc EXCEPT ![t] = X]
        /\ X \in Call
        /\ X.step = "replaced" /\ X.stamp = pc[t].stamp /\ X.read = pc[t].read
        /\ pc[t].step = "read" /\ X.read \in Version
    BY <1>7, Shapes, Moves
       DEF Replace, IInv, At, Call, Write, Waiting, Refresh, Idle, RefreshStamp,
           ReadNow, Stamp, Version
  <2> HIDE DEF X
  <2>2. /\ pc'[t] = X /\ pc' \in [Thread -> Call]
        /\ \A u \in Thread : u # t => pc'[u] = pc[u]
    BY <2>1 DEF IInv
  <2>3. TypeOK'
    BY <1>7, <2>1, <2>2, Shapes
       DEF Replace, rows, IInv, TypeOK, ReadsAreBetween, HasRead, At, Stamp, Version,
           Recorded
  <2> QED
    BY <1>7, <2>1, <2>2, <2>3, Shapes
       DEF Replace, rows, IInv, OneRefreshes, ReadsAreBetween, ReplacedIsRead,
           ReadsAreStamped, StampsPassed, RoomForRepair, RestWhenDown, Traced,
           SomebodyOwes, InRefresh, HasRead, Owes, At,
           NeedsRefresh, TypeOK
<1>8. ASSUME NEW t \in Thread, Record(t) PROVE IInv'
  <2> DEFINE X == Idle
  <2>1. /\ pc' = [pc EXCEPT ![t] = X]
        /\ X \in Call
        /\ X.step = "idle" /\ pc[t].step = "replaced" /\ pc[t].stamp \in Stamp
    BY <1>8, Shapes, Moves
       DEF Record, IInv, At, Call, Write, Waiting, Refresh, Idle, RefreshStamp, ReadNow,
           Stamp, Version
  <2> HIDE DEF X
  <2>2. /\ pc'[t] = X /\ pc' \in [Thread -> Call]
        /\ \A u \in Thread : u # t => pc'[u] = pc[u]
    BY <2>1 DEF IInv
  <2>3. TypeOK'
    BY <1>8, <2>1, <2>2, Shapes
       DEF Record, rows, IInv, TypeOK, ReadsAreBetween, HasRead, At, Stamp, Version,
           Recorded
  <2> QED
    BY <1>8, <2>1, <2>2, <2>3, Shapes
       DEF Record, rows, IInv, OneRefreshes, ReadsAreBetween, ReplacedIsRead,
           ReadsAreStamped, StampsPassed, RoomForRepair, RestWhenDown, Traced,
           SomebodyOwes, InRefresh, HasRead, Owes, At,
           NeedsRefresh, TypeOK, Recorded
<1>9. ASSUME NEW t \in Thread, RefreshRaises(t) PROVE IInv'
  <2> DEFINE X == Idle
  <2>1. /\ pc' = [pc EXCEPT ![t] = X]
        /\ X \in Call
        /\ X.step = "idle"
        /\ pc[t].step \in {"committed", "refreshing", "read", "replaced"}
    BY <1>9, Shapes, Moves
       DEF RefreshRaises, IInv, At, Call, Write, Waiting, Refresh, Idle, RefreshStamp,
           ReadNow, Stamp, Version
  <2> HIDE DEF X
  <2>2. /\ pc'[t] = X /\ pc' \in [Thread -> Call]
        /\ \A u \in Thread : u # t => pc'[u] = pc[u]
    BY <2>1 DEF IInv
  <2>3. TypeOK'
    BY <1>9, <2>1, <2>2, Shapes
       DEF RefreshRaises, rows, IInv, TypeOK, ReadsAreBetween, HasRead, At, Stamp,
           Version, Recorded
  <2> QED
    BY <1>9, <2>1, <2>2, <2>3, Shapes
       DEF RefreshRaises, rows, IInv, OneRefreshes, ReadsAreBetween, ReplacedIsRead,
           ReadsAreStamped, StampsPassed, RoomForRepair, RestWhenDown, Traced,
           SomebodyOwes, InRefresh, HasRead, Owes, At,
           NeedsRefresh, TypeOK
<1>10. CASE Crash
  <2>1. /\ \A t \in Thread : pc'[t].step = "idle"
        /\ pc' \in [Thread -> Call]
    BY <1>10, Shapes DEF Crash, Idle, Call
  <2>2. TypeOK'
    <3>1. crashes' \in 0..MaxCrashes
      BY <1>10 DEF Crash, IInv, TypeOK
    <3> QED
      BY <1>10, <2>1, <3>1 DEF Crash, rows, IInv, TypeOK
  <2> QED
    BY <1>10, <2>1, <2>2
       DEF Crash, rows, IInv, OneRefreshes, ReadsAreBetween, ReplacedIsRead,
           ReadsAreStamped, StampsPassed, RoomForRepair, RestWhenDown, Traced,
           SomebodyOwes, InRefresh, HasRead, Owes, At,
           NeedsRefresh
<1>11. CASE Restart
  <2>1. /\ clock' = clock /\ refreshedAt' = refreshedAt /\ file' = file
        /\ raised' = raised /\ crashes' = crashes /\ engine' = "starting"
        /\ clock \in Int /\ refreshedAt \in Int /\ refreshedAt <= clock
        /\ version \in Nat /\ file \in Nat /\ file <= version
    <3>1. file \in 0..version
      BY DEF IInv, TypeOK
    <3> QED
      BY <1>11, <3>1 DEF Restart, IInv, TypeOK, StampsPassed
  <2>2. ASSUME running # "no"
        PROVE  /\ version' = version + 1 /\ version' \in Version
               /\ updatedAt' = RepairStamp /\ updatedAt' \in Stamp
               /\ running' = "no" /\ overtaken' \in BOOLEAN
               /\ ~overtaken' => updatedAt' >= refreshedAt
    <3>1. /\ version' = version + 1 /\ updatedAt' = RepairStamp /\ running' = "no"
          /\ overtaken' = (running = "hidden" /\ Overtakes(RepairStamp))
      BY <1>11, <2>2 DEF Restart, Repair
    <3>2. version <= MaxVersion /\ running \in {"shown", "hidden"}
      BY <2>2 DEF IInv, TypeOK, RoomForRepair
    <3>3. RepairStamp \in Stamp /\ RepairStamp \in Int
      BY DEF RepairStamp, IInv, TypeOK
    <3>4. ASSUME ~overtaken' PROVE RepairStamp >= refreshedAt
      <4>1. CASE running = "shown"
        BY <2>1, <4>1 DEF RepairStamp
      <4>2. CASE running = "hidden"
        <5>1. ~Overtakes(RepairStamp)
          BY <3>1, <3>4, <4>2
        <5> QED
          BY <2>1, <3>3, <5>1 DEF Overtakes
      <4> QED
        BY <3>2, <4>1, <4>2
    <3>5. version' \in Version
      BY <2>1, <3>1, <3>2 DEF Version
    <3> QED
      BY <3>1, <3>3, <3>4, <3>5
  <2>3. ASSUME running = "no"
        PROVE version' = version /\ updatedAt' = updatedAt /\ running' = running
              /\ overtaken' = overtaken
    BY <1>11, <2>3 DEF Restart, Repair, rows
  <2>4. CASE running # "no" \/ NeedsRefresh
    <3>1. /\ pc'[Main].step = "committed" /\ pc' \in [Thread -> Call]
          /\ \A u \in Thread : u # Main => pc'[u] = pc[u]
      BY <1>11, <2>4 DEF Restart, IInv, Call, Waiting
    <3>2. TypeOK'
      <4>1. file' \in 0..version' /\ version' \in Version /\ updatedAt' \in Stamp
            /\ running' \in {"no", "shown", "hidden"} /\ overtaken' \in BOOLEAN
        BY <2>1, <2>2, <2>3 DEF IInv, TypeOK
      <4> QED
        BY <2>1, <3>1, <4>1 DEF IInv, TypeOK
    <3>3. SomebodyOwes'
      BY <3>1 DEF SomebodyOwes, Owes
    <3>4. /\ OneRefreshes' /\ ReplacedIsRead' /\ StampsPassed'
      BY <2>1, <3>1 DEF IInv, OneRefreshes, ReplacedIsRead, StampsPassed, InRefresh, At
    <3>5. ReadsAreBetween' /\ ReadsAreStamped'
      BY <2>1, <3>1, <1>11
         DEF Restart, IInv, RestWhenDown, ReadsAreBetween, ReadsAreStamped, HasRead, At
    <3>6. RoomForRepair' /\ RestWhenDown' /\ Traced'
      BY <2>1, <2>2, <2>3 DEF IInv, RoomForRepair, RestWhenDown, Traced, NeedsRefresh,
      TypeOK
    <3> QED
      BY <3>2, <3>3, <3>4, <3>5, <3>6 DEF IInv
  <2>5. CASE running = "no" /\ ~NeedsRefresh
    BY <1>11, <2>3, <2>5
       DEF Restart, TypeOK, IInv, OneRefreshes, ReadsAreBetween, ReplacedIsRead,
           ReadsAreStamped, StampsPassed, RoomForRepair, RestWhenDown, Traced,
           SomebodyOwes, InRefresh,
           HasRead, Owes, At, NeedsRefresh
  <2> QED
    BY <2>4, <2>5
<1>12. CASE Serve
  BY <1>12
     DEF Serve, rows, IInv, TypeOK, OneRefreshes, ReadsAreBetween, ReplacedIsRead,
         ReadsAreStamped, StampsPassed, RoomForRepair, RestWhenDown, Traced,
         SomebodyOwes, InRefresh, HasRead, Owes, At, NeedsRefresh
<1>13. CASE UNCHANGED vars
  BY <1>13
     DEF vars, rows, IInv, TypeOK, OneRefreshes, ReadsAreBetween, ReplacedIsRead,
         ReadsAreStamped, StampsPassed, RoomForRepair, RestWhenDown, Traced,
         SomebodyOwes, InRefresh, HasRead, Owes, At, NeedsRefresh
<1> QED
  BY <1>1, <1>2, <1>3, <1>4, <1>5, <1>6, <1>7, <1>8, <1>9, <1>10, <1>11, <1>12, <1>13
     DEF Next, Proceed

-----------------------------------------------------------------------------
(* The properties.                                                         *)

\* The invariant holds in every state: refresh_history's lock, its readings and its
\* stamps stay in step with the rows.
THEOREM HistoryInvariant == Spec => []IInv
  BY InitHolds, StepHolds, PTL DEF Spec

\* Stamps, versions and threads keep their shape, and no file is newer than the rows.
THEOREM HistoryTypes == Spec => []TypeOK
  BY HistoryInvariant, PTL DEF IInv

\* A death of the engine at any step of any call leaves a stale file that startup
\* recognises by its stamps, unless the last commit was overtaken.
THEOREM DeathsLeaveATrace == Spec => []DeathLeavesATrace
<1>1. IInv => DeathLeavesATrace
  BY DEF IInv, Traced, DeathLeavesATrace
<1> QED
  BY <1>1, HistoryInvariant, PTL

\* With no call in flight, the file of a serving engine holds the whole history.
THEOREM QuietFilesAreCurrent == Spec => []QuietFileIsCurrent
<1>1. IInv => QuietFileIsCurrent
  BY Shapes DEF IInv, TypeOK, SomebodyOwes, Owes, At, QuietFileIsCurrent
<1> QED
  BY <1>1, HistoryInvariant, PTL

\* Only a rename writes the file, and it puts what its refresh read, under the lock
\* that every refresh takes: never an older history.
THEOREM FilesNeverGoBack == Spec => FileNeverGoesBack
<1>1. IInv /\ [Next]_vars => [file' >= file]_vars
  <2> SUFFICES ASSUME IInv, [Next]_vars PROVE file' >= file
    OBVIOUS
  <2>1. file \in Int
    BY Numbers DEF IInv
  <2>2. ASSUME NEW t \in Thread, Replace(t) PROVE file' >= file
    BY <2>1, <2>2, Shapes DEF Replace, At, IInv, ReadsAreBetween, HasRead
  <2>3. file' = file \/ \E t \in Thread : Replace(t)
    BY
       DEF Next, Proceed, Tick, Begin, Commit, Rollback, StartRefresh, Read, Record,
           RefreshRaises, Crash, Restart, Serve, vars
  <2> QED
    BY <2>1, <2>2, <2>3
<1> QED
  BY <1>1, HistoryInvariant, PTL DEF FileNeverGoesBack, Spec
=============================================================================
