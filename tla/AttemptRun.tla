------------------------------ MODULE AttemptRun ------------------------------
(***************************************************************************)
(* One engine's attempts: sidecar/ryu_research/workspaces.py over the git  *)
(* repository of each workspace, with the startup and the shutdown of      *)
(* server.py.                                                              *)
(*                                                                         *)
(* A Thread is an HTTP handler thread.  The campaign store appears as what *)
(* it promises, OneShotLease; the score that keeps a candidate or rejects  *)
(* it is a choice.  A run is one action per durable step: the lease spent, *)
(* the commit, the verdict, git reset, the ledger written back, the ledger *)
(* row.  The engine may die between any two of them.                       *)
(*                                                                         *)
(* _RUN_LOCK and a workspace's lock are taken without blocking and given   *)
(* back in finally, so a thread holds them exactly while its step says so. *)
(***************************************************************************)
EXTENDS Integers, Sequences, FiniteSets, SequencesExt

CONSTANTS
    Workspace,
    Thread,
    Content,       \* contents of the mutable files
    NoBytes,       \* no ledger in memory
    LegacyReset,   \* whether a client still asks for git resets
    Faults,        \* whether the store, git and the ledger's file may fail
    MaxAttempts,   \* bound: leases issued and attempts made
    MaxCrashes     \* bound: deaths of the engine that nobody asked for

ASSUME RunAssumption ==
    /\ LegacyReset \in BOOLEAN
    /\ Faults \in BOOLEAN
    /\ MaxAttempts \in Nat
    /\ MaxCrashes \in Nat
    /\ NoBytes \notin Seq(Nat)

VARIABLES
    spent, verdict,  \* the store: see OneShotLease
    owner,         \* workspace of each attempt
    chain,         \* per workspace, its commits from the first to HEAD
    files,         \* per workspace, the mutable files of the working tree
    ledger,        \* per workspace, the rows of results.tsv: attempts
    held,          \* per workspace, the ledger bytes a reset holds in memory
    pc,            \* what each thread is doing
    engine,        \* "serving", "recovering" or "down"
    stale,         \* workspaces that startup has yet to reset
    claimed,       \* how a shutdown came to hold _RUN_LOCK for good: the store had
                   \* no running attempt ("idle"), or was not readable ("blind")
    crashes,
    recorded,      \* history variable: rows ever appended to the ledger
    \* History variables: the workspaces hit by an event that the properties name
    \* as an exception.
    undone,        \* one commit may be reset for which no attempt was rejected
    left,          \* a rejected candidate stays, for want of its reset
    torn           \* the rows that a reset held in memory are lost

git == <<chain, files, ledger, held>>
store == <<spent, verdict, owner>>
marks == <<undone, left, torn>>
ghosts == <<recorded, marks>>
vars == <<spent, verdict, owner, chain, files, ledger, held, pc, engine, stale,
          claimed, crashes, recorded, undone, left, torn>>

Store == INSTANCE OneShotLease

AttemptId == Nat \ {0}
\* What git add -A would commit, whatever its hash: _working_tree.
Tree == [content : Content, rows : Seq(AttemptId)]
TreeOf(w) == [content |-> files[w], rows |-> ledger[w]]
Commit == [attempt : {0} \cup AttemptId, tree : Tree]      \* 0: the initial commit

Idle == [step |-> "idle"]
Admitted == [step : {"admitted"}, ws : Workspace, tree : Tree]
Attempting == [step : {"started", "committed", "executing", "ended", "resetting",
                       "restoring", "recording"},
               ws : Workspace, tree : Tree, attempt : AttemptId,
               ok : BOOLEAN,        \* the program ended well, in time, with a score
               raising : BOOLEAN]   \* an exception is on its way to the client
Resetting == [step : {"decided", "putting back"}, ws : Workspace]
Call == {Idle} \cup Admitted \cup Attempting \cup Resetting

\* The steps that hold the workspace's lock, and _RUN_LOCK with it.
Running == {"admitted", "started", "committed", "executing", "ended",
            "resetting", "restoring", "recording"}
Guarding == Running \cup {"putting back"}

-----------------------------------------------------------------------------
InitialCommit(c) == [attempt |-> 0, tree |-> [content |-> c, rows |-> <<>>]]

Init ==
    /\ Store!Init
    /\ owner = <<>>
    /\ \E c \in Content : /\ files = [w \in Workspace |-> c]
                          /\ chain = [w \in Workspace |-> <<InitialCommit(c)>>]
    /\ ledger = [w \in Workspace |-> <<>>]
    /\ held = [w \in Workspace |-> NoBytes]
    /\ pc = [t \in Thread |-> Idle]
    /\ engine = "serving"
    /\ stale = {}
    /\ claimed = "no"
    /\ crashes = 0
    /\ recorded = [w \in Workspace |-> {}]
    /\ undone = {} /\ left = {} /\ torn = {}

Guards(t, w) == pc[t].step \in Guarding /\ pc[t].ws = w
GuardFree(w) == \A t \in Thread : ~Guards(t, w)

RunLockFree == claimed = "no" /\ \A t \in Thread : pc[t].step \notin Running

At(t, step) == pc[t].step = step
Go(t, step) == pc' = [pc EXCEPT ![t] = [@ EXCEPT !.step = step]]
Done(t) == pc' = [pc EXCEPT ![t] = Idle]
Pending(w) == \E a \in DOMAIN verdict : verdict[a] = "pending" /\ owner[a] = w

MatchesMutant(tree, approved) == TRUE    \* mutant: the token is not compared
Matches(tree, approved) == tree = approved

\* The workspace_tree tokens a client may hold: the current one and older ones.
Tokens(w) == [content : Content, rows : {ledger[w], <<>>}]

\* run_experiment: both locks, and the working tree compared with the token.  A
\* call refused before it holds them changes nothing.
Admit(t, w, token) ==
    /\ engine = "serving"
    /\ pc[t] = Idle
    /\ RunLockFree
    /\ GuardFree(w)
    /\ Matches(TreeOf(w), token)
    /\ pc' = [pc EXCEPT ![t] = [step |-> "admitted", ws |-> w, tree |-> token]]
    /\ UNCHANGED <<store, git, engine, stale, claimed, crashes, ghosts>>

\* No sandbox, a start_attempt that the store refuses, or a busy workspace.
Refuse(t) ==
    /\ pc[t].step \in {"admitted", "decided"}
    /\ Done(t)
    /\ UNCHANGED <<store, git, engine, stale, claimed, crashes, ghosts>>

\* create_proposal, of any campaign.
Propose ==
    /\ Len(spent) < MaxAttempts
    /\ Store!Issue
    /\ UNCHANGED <<owner, git, pc, engine, stale, claimed, crashes, ghosts>>

\* start_attempt.
Start(t, p) ==
    /\ At(t, "admitted")
    /\ Store!Spend(p)
    /\ owner' = Append(owner, pc[t].ws)
    /\ pc' = [pc EXCEPT ![t] =
                 [step |-> "started", ws |-> pc[t].ws, tree |-> pc[t].tree,
                  attempt |-> Len(verdict) + 1, ok |-> FALSE, raising |-> FALSE]]
    /\ UNCHANGED <<git, engine, stale, claimed, crashes, ghosts>>

\* start_attempt raises after its own commit, reading the row back or in
\* refresh_history: _execute_attempt is not reached, and the attempt stays running.
StartRaises(t, p) ==
    /\ Faults
    /\ At(t, "admitted")
    /\ Store!Spend(p)
    /\ owner' = Append(owner, pc[t].ws)
    /\ Done(t)
    /\ undone' = undone \cup {pc[t].ws}
    /\ UNCHANGED <<git, engine, stale, claimed, crashes, recorded, left, torn>>

\* git add -A, git commit --allow-empty.
CommitTree(t) ==
    LET w == pc[t].ws
    IN  /\ At(t, "started")
        /\ chain' = [chain EXCEPT ![w] =
                        Append(@, [attempt |-> pc[t].attempt, tree |-> TreeOf(w)])]
        /\ Go(t, "committed")
        /\ UNCHANGED <<store, files, ledger, held, engine, stale, claimed, crashes, ghosts>>

\* The committed tree is compared again and exported, and the program starts in
\* the private copy.
Launch(t) ==
    /\ At(t, "committed")
    /\ Matches(Last(chain[pc[t].ws]).tree, pc[t].tree)
    /\ Go(t, "executing")
    /\ UNCHANGED <<store, git, engine, stale, claimed, crashes, ghosts>>

\* The program ends by itself, well or not.
ProcessEnds(t, ok) ==
    /\ At(t, "executing")
    /\ pc' = [pc EXCEPT ![t] = [@ EXCEPT !.step = "ended", !.ok = ok]]
    /\ UNCHANGED <<store, git, engine, stale, claimed, crashes, ghosts>>

TimeOutMutant(t) == FALSE     \* mutant: proc.wait has no timeout
\* The budget is spent: the process tree is killed.
TimeOut(t) ==
    /\ At(t, "executing")
    /\ Go(t, "ended")
    /\ UNCHANGED <<store, git, engine, stale, claimed, crashes, ghosts>>

\* Where a run goes with its verdict: only a rejected candidate is reset.
AfterVerdict(v) == IF v = "kept" THEN "recording" ELSE "resetting"

\* finish_attempt.
Finish(t, v) ==
    /\ At(t, "ended")
    /\ v = "kept" => pc[t].ok
    /\ Store!Decide(pc[t].attempt, v)
    /\ Go(t, AfterVerdict(v))
    /\ UNCHANGED <<owner, git, engine, stale, claimed, crashes, ghosts>>

\* An exception before finish_attempt: the attempt is recorded as a crash, and
\* reset if its commit was made.  While the program runs, finally kills it first.
StepAfterFailureMutant(step) == "resetting"     \* mutant: HEAD~1 in any case
StepAfterFailure(step) == IF step = "started" THEN "idle" ELSE "resetting"
Fail(t) ==
    /\ pc[t].step \in {"started", "committed", "ended"}
    /\ Store!Decide(pc[t].attempt, "rejected")
    /\ IF StepAfterFailure(pc[t].step) = "idle"
       THEN Done(t)
       ELSE pc' = [pc EXCEPT ![t] = [@ EXCEPT !.step = "resetting", !.raising = TRUE]]
    /\ UNCHANGED <<owner, git, engine, stale, claimed, crashes, ghosts>>

\* finish_attempt itself raises after its commit: the call in the handler raises too,
\* for the attempt is not running, and nothing is reset.
FinishRaises(t, v) ==
    /\ Faults
    /\ pc[t].step \in {"started", "committed", "ended"}
    /\ v = "kept" => At(t, "ended") /\ pc[t].ok
    /\ Store!Decide(pc[t].attempt, v)
    /\ Done(t)
    /\ left' = IF v = "kept" \/ At(t, "started") THEN left ELSE left \cup {pc[t].ws}
    /\ UNCHANGED <<owner, git, engine, stale, claimed, crashes, recorded, undone, torn>>

\* It raises before its commit, in the handler too, or the handler's git rev-parse
\* raises: the attempt stays running until a restart.
Strand(t) ==
    /\ Faults
    /\ pc[t].step \in {"started", "committed", "ended"}
    /\ Done(t)
    /\ undone' = IF At(t, "started") THEN undone \cup {pc[t].ws} ELSE undone
    /\ UNCHANGED <<store, git, engine, stale, claimed, crashes, recorded, left, torn>>

-----------------------------------------------------------------------------
(* _reset_preserving_ledger: git reset --hard HEAD~1, which also rolls the *)
(* ledger back, and then the ledger's bytes written back.  A repository    *)
(* with one commit refuses, and changes nothing.                           *)

RollBack(w) ==
    /\ Len(chain[w]) > 1
    /\ chain' = [chain EXCEPT ![w] = Front(@)]
    /\ files' = [files EXCEPT ![w] = Last(Front(chain[w])).tree.content]
    /\ ledger' = [ledger EXCEPT ![w] = Last(Front(chain[w])).tree.rows]
    /\ held' = [held EXCEPT ![w] = ledger[w]]

PutBackMutant(w) == ledger    \* mutant: a plain git reset --hard HEAD~1
PutBack(w) == [ledger EXCEPT ![w] = held[w]]
WriteLedgerBack(w) ==
    /\ ledger' = PutBack(w)
    /\ held' = [held EXCEPT ![w] = NoBytes]
    /\ UNCHANGED <<chain, files>>

\* write_bytes, which finally calls also when git has failed, fails before it has opened
\* the file or with a part of the rows written.
Bytes(w) == IF held[w] = NoBytes THEN ledger[w] ELSE held[w]
LoseLedger(w) ==
    /\ \E n \in 0 .. Len(Bytes(w)) :
          ledger' \in {ledger, [ledger EXCEPT ![w] = SubSeq(Bytes(w), 1, n)]}
    /\ held' = [held EXCEPT ![w] = NoBytes]
    /\ torn' = torn \cup {w}
    /\ UNCHANGED <<chain, files, recorded, undone>>

Reset(t) ==
    /\ At(t, "resetting")
    /\ RollBack(pc[t].ws)
    /\ Go(t, "restoring")
    /\ UNCHANGED <<store, engine, stale, claimed, crashes, ghosts>>

\* git fails, and the rows are written over themselves.
GitRaises(w) == UNCHANGED <<git, recorded, undone, torn>> \/ LoseLedger(w)

\* The handler's exception leaves the candidate where it is; a legacy reset's is all.
ResetRaises(t) ==
    /\ Faults
    /\ \/ At(t, "resetting") /\ left' = left \cup {pc[t].ws}
       \/ At(t, "decided") /\ GuardFree(pc[t].ws) /\ UNCHANGED left
    /\ GitRaises(pc[t].ws)
    /\ Done(t)
    /\ UNCHANGED <<store, engine, stale, claimed, crashes>>

Restore(t) ==
    /\ At(t, "restoring")
    /\ WriteLedgerBack(pc[t].ws)
    /\ IF pc[t].raising THEN Done(t) ELSE Go(t, "recording")
    /\ UNCHANGED <<store, engine, stale, claimed, crashes, ghosts>>

\* The rows are not written back, and the exception goes to the client.
RestoreRaises(t) ==
    /\ Faults
    /\ pc[t].step \in {"restoring", "putting back"}
    /\ LoseLedger(pc[t].ws)
    /\ Done(t)
    /\ UNCHANGED <<store, engine, stale, claimed, crashes, left>>

-----------------------------------------------------------------------------
(* The ledger.                                                             *)

\* append_ledger: a row per commit, once.
HasRow(w, a) == a \in ToSet(ledger[w])
AppendRow(w, a) ==
    /\ ledger' = [ledger EXCEPT ![w] = IF HasRow(w, a) THEN @ ELSE Append(@, a)]
    /\ recorded' = [recorded EXCEPT ![w] = @ \cup {a}]
    /\ UNCHANGED <<chain, files, held>>

\* The end of a run, in the reentrant lock of its workspace.
Record(t) ==
    /\ At(t, "recording")
    /\ AppendRow(pc[t].ws, pc[t].attempt)
    /\ Done(t)
    /\ UNCHANGED <<store, engine, stale, claimed, crashes, marks>>

\* The row is not written: the verdict stands, without it.
RecordRaises(t) ==
    /\ Faults
    /\ At(t, "recording")
    /\ Done(t)
    /\ UNCHANGED <<store, git, engine, stale, claimed, crashes, ghosts>>

\* The ledger tool of older clients, for an attempt whose commit they know.
AppendLedger(w, a) ==
    /\ engine = "serving"
    /\ GuardFree(w)
    /\ verdict[a] # "pending"
    /\ owner[a] = w
    /\ AppendRow(w, a)
    /\ UNCHANGED <<store, pc, engine, stale, claimed, crashes, marks>>

-----------------------------------------------------------------------------
(* The other writers of a workspace.                                       *)

\* write_file.
Write(w, c) ==
    /\ engine = "serving"
    /\ GuardFree(w)
    /\ c # files[w]
    /\ files' = [files EXCEPT ![w] = c]
    /\ UNCHANGED <<store, chain, ledger, held, pc, engine, stale, claimed, crashes, ghosts>>

Owned(w) == {a \in DOMAIN owner : owner[a] = w}
\* latest_attempt has no verdict to enforce: there is none, or it is pending.
Undecided(w) == \A a \in Owned(w) : (\A b \in Owned(w) : b <= a) => verdict[a] = "pending"

\* git_action "reset", its reading of the latest attempt: no lock is held yet.
ReadLatest(t, w) ==
    /\ LegacyReset
    /\ engine = "serving"
    /\ pc[t] = Idle
    /\ Undecided(w)
    /\ pc' = [pc EXCEPT ![t] = [step |-> "decided", ws |-> w]]
    /\ UNCHANGED <<store, git, engine, stale, claimed, crashes, ghosts>>

\* ... and its reset, under the workspace's lock.
ResetAsked(t) ==
    /\ At(t, "decided")
    /\ GuardFree(pc[t].ws)
    /\ RollBack(pc[t].ws)
    /\ Go(t, "putting back")
    /\ undone' = undone \cup {pc[t].ws}
    /\ UNCHANGED <<store, engine, stale, claimed, crashes, recorded, left, torn>>

PutBackAsked(t) ==
    /\ At(t, "putting back")
    /\ WriteLedgerBack(pc[t].ws)
    /\ Done(t)
    /\ UNCHANGED <<store, engine, stale, claimed, crashes, ghosts>>

-----------------------------------------------------------------------------
(* The engine's life.                                                      *)

\* The windows in which a death leaves a workspace as no restart repairs it.

\* An attempt started and not committed: recovery resets the commit before it.
StartCut(w) == \E t \in Thread : At(t, "started") /\ pc[t].ws = w
\* A verdict given and its reset not done, by the run or by recovery.
ResetCut(w) ==
    \/ \E t \in Thread : At(t, "resetting") /\ pc[t].ws = w
    \/ w \in stale /\ held[w] = NoBytes
\* Rows rolled back by git and not written back.
LedgerCut(w) == held[w] # NoBytes

Die ==
    /\ engine' = "down"
    /\ pc' = [t \in Thread |-> Idle]
    /\ held' = [w \in Workspace |-> NoBytes]
    /\ stale' = {}
    /\ claimed' = "no"
    /\ undone' = undone \cup {w \in Workspace : StartCut(w)}
    /\ left' = left \cup {w \in Workspace : ResetCut(w)}
    /\ torn' = torn \cup {w \in Workspace : LedgerCut(w)}
    /\ UNCHANGED <<store, chain, files, ledger, recorded>>

Crash ==
    /\ engine # "down"
    /\ crashes < MaxCrashes
    /\ crashes' = crashes + 1
    /\ Die

\* POST /admin/shutdown: _claim_idle_for_shutdown takes the run lock and keeps it
\* only when the store records no running attempt; but has_running_attempt answers
\* for a store that it cannot query as for one that has none.
ClaimableMutant == TRUE        \* mutant: only the store is asked
Claimable == RunLockFree
ClaimIdle ==
    /\ engine = "serving"
    /\ Claimable
    /\ \/ (\A a \in DOMAIN verdict : verdict[a] # "pending") /\ claimed' = "idle"
       \/ Faults /\ claimed' = "blind"
    /\ UNCHANGED <<store, git, pc, engine, stale, crashes, ghosts>>

ShutDown ==
    /\ claimed # "no"
    /\ Die
    /\ UNCHANGED crashes

\* initialize_store: the attempt left running is interrupted, and rejected.
Restart ==
    /\ engine = "down"
    /\ engine' = "recovering"
    /\ verdict' = [a \in DOMAIN verdict |->
                      IF verdict[a] = "pending" THEN "rejected" ELSE verdict[a]]
    /\ stale' = {w \in Workspace : Pending(w)}
    /\ UNCHANGED <<spent, owner, git, pc, claimed, crashes, ghosts>>

\* recover_interrupted_workspace, for one workspace after the other.
Recover(w) ==
    /\ w \in stale
    /\ held[w] = NoBytes
    /\ IF Len(chain[w]) > 1
       THEN RollBack(w) /\ UNCHANGED stale
       ELSE stale' = stale \ {w} /\ UNCHANGED git
    /\ UNCHANGED <<store, pc, engine, claimed, crashes, ghosts>>

Recovered(w) ==
    /\ w \in stale
    /\ held[w] # NoBytes
    /\ WriteLedgerBack(w)
    /\ stale' = stale \ {w}
    /\ UNCHANGED <<store, pc, engine, claimed, crashes, ghosts>>

\* It swallows the errors of git and of the ledger's file, and looks no further.
RecoverRaises(w) ==
    /\ Faults
    /\ w \in stale
    /\ stale' = stale \ {w}
    /\ IF held[w] = NoBytes
       THEN left' = left \cup {w} /\ GitRaises(w)
       ELSE UNCHANGED left /\ LoseLedger(w)
    /\ UNCHANGED <<store, pc, engine, claimed, crashes>>

Serve ==
    /\ engine = "recovering"
    /\ stale = {}
    /\ engine' = "serving"
    /\ UNCHANGED <<store, git, pc, stale, claimed, crashes, ghosts>>

-----------------------------------------------------------------------------
\* What a thread that holds the locks does next without being asked.
Proceed(t) ==
    \/ Refuse(t) /\ At(t, "admitted")
    \/ \E p \in DOMAIN spent : Start(t, p)
    \/ CommitTree(t)
    \/ Launch(t)
    \/ TimeOut(t)
    \/ \E v \in {"kept", "rejected"} : Finish(t, v)
    \/ Fail(t)
    \/ Reset(t)
    \/ Restore(t)
    \/ Record(t)
    \/ PutBackAsked(t)

Next ==
    \/ Propose
    \/ \E t \in Thread : Proceed(t)
    \/ \E t \in Thread : Refuse(t)
    \/ \E t \in Thread, w \in Workspace : \E token \in Tokens(w) : Admit(t, w, token)
    \/ \E t \in Thread, ok \in BOOLEAN : ProcessEnds(t, ok)
    \/ \E t \in Thread : \E p \in DOMAIN spent : StartRaises(t, p)
    \/ \E t \in Thread, v \in {"kept", "rejected"} : FinishRaises(t, v)
    \/ \E t \in Thread : Strand(t) \/ ResetRaises(t) \/ RestoreRaises(t) \/ RecordRaises(t)
    \/ \E w \in Workspace, c \in Content : Write(w, c)
    \/ \E w \in Workspace, a \in DOMAIN verdict : AppendLedger(w, a)
    \/ \E t \in Thread, w \in Workspace : ReadLatest(t, w)
    \/ \E t \in Thread : ResetAsked(t)
    \/ Crash
    \/ ClaimIdle
    \/ ShutDown
    \/ Restart
    \/ \E w \in Workspace : Recover(w) \/ Recovered(w) \/ RecoverRaises(w)
    \/ Serve

\* A thread that holds a lock goes on: the code between two steps neither waits
\* for another thread nor loops, and a program is killed when its budget is spent.
\* Assumed of git, for which _git sets no timeout: its commands end.
Fairness == \A t \in Thread : WF_vars(Proceed(t))

Spec == Init /\ [][Next]_vars /\ Fairness

-----------------------------------------------------------------------------
(* Properties.                                                             *)

\* Every table row, commit, ledger and thread has its declared shape, and a
\* repository never loses its first commit.
TypeOK ==
    /\ spent \in Seq(Nat)
    /\ verdict \in Seq({"pending", "kept", "rejected"})
    /\ owner \in Seq(Workspace)
    /\ Len(owner) = Len(verdict)
    /\ chain \in [Workspace -> Seq(Commit)]
    /\ \A w \in Workspace : chain[w] # <<>>
    /\ files \in [Workspace -> Content]
    /\ ledger \in [Workspace -> Seq(AttemptId)]
    /\ held \in [Workspace -> Seq(AttemptId) \cup {NoBytes}]
    /\ pc \in [Thread -> Call]
    /\ engine \in {"serving", "recovering", "down"}
    /\ stale \subseteq Workspace
    /\ claimed \in {"no", "idle", "blind"}
    /\ crashes \in 0..MaxCrashes
    /\ recorded \in [Workspace -> SUBSET AttemptId]
    /\ undone \subseteq Workspace /\ left \subseteq Workspace /\ torn \subseteq Workspace

Kept(w) == {a \in Owned(w) : verdict[a] = "kept"}
OnChain(w) == {chain[w][i].attempt : i \in 2..Len(chain[w])}
InOrder(w) == \A i, j \in DOMAIN chain[w] :
                 i < j => chain[w][i].attempt < chain[w][j].attempt

\* Between runs, a workspace's repository is its initial commit followed by its
\* kept attempts in order: "a strict improvement is kept; every other candidate is
\* reset" (workspaces.py, _execute_attempt and recover_interrupted_workspace).
\*   Kept candidates may be missing, and nothing else, where a legacy reset was asked,
\* or where an attempt was left running without its commit, because the engine died
\* or the store's calls raised between start_attempt and git commit: recovery then
\* resets the commit before it.
\*   Rejected candidates may be there, and nothing else, where the reset did not
\* follow the verdict: the engine died in between, or in recovery before its reset,
\* finish_attempt raised after its commit, or git reset failed, in recovery too.
HeadIsWinner ==
    \A w \in Workspace :
        engine = "serving" /\ GuardFree(w) /\ ~Pending(w) =>
            /\ InOrder(w)
            /\ w \notin undone => Kept(w) \subseteq OnChain(w)
            /\ w \notin left => OnChain(w) \subseteq Kept(w)

\* The TSV is append-only though git resets roll it back, legacy ones and recovery's
\* too: every row ever written is there once, or held by the reset under way
\* (_reset_preserving_ledger).  One exception is in the code, torn: a reset reads the
\* rows, lets git roll them back and writes them again, and they are lost if the engine
\* dies in between or if that write fails.
LedgerKeepsItsRows ==
    \A w \in Workspace \ torn :
        ToSet(Bytes(w)) = recorded[w] /\ IsInjective(Bytes(w))

\* A lease is burnt, and a candidate kept, only for exactly the tree its client had
\* approved, whatever writes, resets and ledger rows race with the run.
RunsTheApprovedTree ==
    [][/\ \A p \in DOMAIN spent : spent'[p] # spent[p] =>
            \E t \in Thread : At(t, "admitted") /\ pc[t].tree = TreeOf(pc[t].ws)
       /\ \A a \in DOMAIN verdict : verdict[a] = "pending" /\ verdict'[a] = "kept" =>
            \E t \in Thread :
                /\ At(t, "ended")
                /\ pc[t].attempt = a
                /\ Last(chain[owner[a]]) = [attempt |-> a, tree |-> pc[t].tree]]_vars

\* A shutdown never cuts a run: when it stops the engine, no thread is in a run, and
\* no attempt is pending (_claim_idle_for_shutdown).  One exception is in the code,
\* against "an unreadable store must not be stopped blind" (server.py): a query that
\* fails with an OperationalError counts as no attempt, and a stranded one may then
\* be pending.
ShutdownCutsNoRun ==
    [][ShutDown => /\ \A t \in Thread : pc[t].step \notin Running
                   /\ claimed = "idle" => \A a \in DOMAIN verdict : verdict[a] # "pending"]_vars

\* Every run and every reset ends and frees its workspace, also when the program
\* never ends by itself and whatever call fails (the budget, and finally).
WorkspacesComeFree == \A w \in Workspace : ~GuardFree(w) ~> GuardFree(w)

\* A strict improvement is kept: its commit stays in its workspace, which neither
\* a restart nor a legacy reset may undo: "the legacy keep, reset, and ledger tools
\* remain compatible but cannot override the engine's decision" (README.md).
KeptSurvives ==
    [][\A w \in Workspace :
          \A a \in Kept(w) : a \in OnChain(w) => a \in OnChain(w)']_vars
=============================================================================
