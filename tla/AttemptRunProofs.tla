-------------------------- MODULE AttemptRunProofs ---------------------------
(***************************************************************************)
(* What holds of an engine's attempts for any number of workspaces,        *)
(* threads, attempts and deaths: one run at a time, in its workspace's     *)
(* lock; HEAD is the winner or, while Dirty says so, the winner and one    *)
(* candidate on top, but for the marks undone and left; the ledger, or the *)
(* copy a reset holds of it, has the rows ever written, but where torn.    *)
(* One lemma per action shows that the invariant IInv survives it; the     *)
(* properties follow from it at the end.                                   *)
(***************************************************************************)
EXTENDS AttemptRun, TLAPS

(***************************************************************************)
(* The locks.                                                              *)
(***************************************************************************)
\* _RUN_LOCK, and the locks of the workspaces.
OneRun == \A t, u \in Thread : pc[t].step \in Running /\ pc[u].step \in Running => t = u
OneGuard == \A t, u \in Thread, w \in Workspace : Guards(t, w) /\ Guards(u, w) => t = u

\* No thread runs in an engine that does not serve, and only startup resets.
StoppedIsIdle ==
    /\ engine # "serving" => claimed = "no" /\ \A t \in Thread : pc[t] = Idle
    /\ IF engine = "recovering"
       THEN \A a \in DOMAIN verdict : verdict[a] # "pending"
       ELSE stale = {}

ClaimedIsQuiet ==
    /\ claimed # "no" => \A t \in Thread : pc[t].step \notin Running
    /\ claimed = "idle" => \A a \in DOMAIN verdict : verdict[a] # "pending"

\* A reset holds the ledger in memory from its two steps' first to its second.
Holds(t, w) == pc[t].step \in {"restoring", "putting back"} /\ pc[t].ws = w
HeldByAReset ==
    \A w \in Workspace :
        /\ held[w] # NoBytes => w \in stale \/ \E t \in Thread : Holds(t, w)
        /\ \A t \in Thread : Holds(t, w) => held[w] # NoBytes

Locks == OneRun /\ OneGuard /\ StoppedIsIdle /\ ClaimedIsQuiet /\ HeldByAReset

(***************************************************************************)
(* The attempt of a run, and its tree.                                     *)
(***************************************************************************)
Unjudged == {"started", "committed", "executing", "ended"}
InAttempt(t) == pc[t].step \in Unjudged \cup {"resetting", "restoring", "recording"}

\* Attempts are made one after the other.
PendingIsLast == \A a \in DOMAIN verdict : verdict[a] = "pending" => a = Len(verdict)

AttemptOf(t) ==
    /\ pc[t].attempt = Len(verdict)
    /\ pc[t].attempt \in DOMAIN verdict
    /\ owner[pc[t].attempt] = pc[t].ws
    /\ pc[t].step \in Unjudged <=> verdict[pc[t].attempt] = "pending"
    /\ pc[t].step \in {"resetting", "restoring"} => verdict[pc[t].attempt] = "rejected"

RunsTheLast == PendingIsLast /\ \A t \in Thread : InAttempt(t) => AttemptOf(t)

\* From the comparison on, the tree is the one approved: in the working tree, then
\* in the commit.
TreeIsApproved ==
    \A t \in Thread :
        /\ At(t, "admitted") => pc[t].tree = TreeOf(pc[t].ws)
        /\ pc[t].step \in {"committed", "executing", "ended"} =>
              Last(chain[pc[t].ws]).attempt = pc[t].attempt
        /\ pc[t].step \in {"executing", "ended"} =>
              Last(chain[pc[t].ws]).tree = pc[t].tree

(***************************************************************************)
(* The repository.                                                         *)
(***************************************************************************)
\* A workspace whose HEAD is a candidate, undecided or rejected.
Dirty(w) ==
    \/ \E t \in Thread : /\ pc[t].step \in {"committed", "executing", "ended", "resetting"}
                         /\ pc[t].ws = w
    \/ Pending(w) /\ ~\E t \in Thread : At(t, "started") /\ pc[t].ws = w
    \/ w \in stale /\ held[w] = NoBytes

\* Commits are in the order of their attempts, and the last attempt's is missing
\* while it is pending in a workspace that is not dirty.
Ordered(w) ==
    /\ InOrder(w) /\ chain[w][1].attempt = 0
    /\ \A i \in DOMAIN chain[w] :
          /\ chain[w][i].attempt <= Len(verdict)
          /\ Pending(w) /\ ~Dirty(w) => chain[w][i].attempt # Len(verdict)

\* No kept attempt is missing, and what the next reset takes off is not one.
HasTheKept(w) ==
    /\ Kept(w) \subseteq OnChain(w)
    /\ Dirty(w) => /\ Last(chain[w]).attempt = Len(verdict)
                   /\ Len(verdict) \in OnChain(w)
                   /\ Len(verdict) \notin Kept(w)

\* No other attempt is there, but for the candidate.
HasOnlyTheKept(w) == OnChain(w) \subseteq Kept(w) \cup (IF Dirty(w) THEN {Len(verdict)} ELSE {})

HeadOf(w) ==
    /\ Ordered(w)
    /\ w \notin undone => HasTheKept(w)
    /\ w \notin left => HasOnlyTheKept(w)

HeadIs == \A w \in Workspace : HeadOf(w)

(***************************************************************************)
(* The ledger.                                                             *)
(***************************************************************************)
RowsAreOnce ==
    \A w \in Workspace :
        /\ IsInjective(ledger[w])
        /\ held[w] # NoBytes => IsInjective(held[w])
        /\ \A i \in DOMAIN chain[w] : IsInjective(chain[w][i].tree.rows)

RowsAreRecorded ==
    \A w \in Workspace \ torn :
        ToSet(IF held[w] = NoBytes THEN ledger[w] ELSE held[w]) = recorded[w]

IInv ==
    /\ TypeOK
    /\ Locks
    /\ RunsTheLast
    /\ TreeIsApproved
    /\ HeadIs
    /\ RowsAreOnce
    /\ RowsAreRecorded

-----------------------------------------------------------------------------
(* Threads.                                                                *)

AttemptSteps == Unjudged \cup {"resetting", "restoring", "recording"}

\* What a thread carries at each step.
LEMMA Shapes ==
    ASSUME NEW p \in Call
    PROVE  /\ p.step = "idle" => p = Idle
           /\ p.step = "admitted" => p \in Admitted
           /\ p.step \in AttemptSteps => p \in Attempting
           /\ p.step \in {"decided", "putting back"} => p \in Resetting
           /\ p.step \in {"idle", "admitted", "decided", "putting back"} \cup AttemptSteps
<1> USE DEF AttemptSteps, Unjudged
<1>1. CASE p = Idle
  BY <1>1 DEF Idle
<1>2. CASE p \in Admitted
  BY <1>2 DEF Admitted
<1>3. CASE p \in Attempting
  BY <1>3 DEF Attempting
<1>4. CASE p \in Resetting
  BY <1>4 DEF Resetting
<1> QED
  BY <1>1, <1>2, <1>3, <1>4 DEF Call

\* The fields of the three shapes.
LEMMA Fields ==
    /\ \A p \in Admitted : p.ws \in Workspace /\ p.tree \in Tree
    /\ \A p \in Attempting : /\ p.ws \in Workspace /\ p.tree \in Tree
                             /\ p.attempt \in AttemptId
    /\ \A p \in Resetting : p.ws \in Workspace
  BY DEF Admitted, Attempting, Resetting

\* Thread t goes to step s, and Keeping says that it goes on with its run.
Moves(t, s) ==
    /\ pc' \in [Thread -> Call]
    /\ pc'[t].step = s
    /\ \A u \in Thread : u # t => pc'[u] = pc[u]

Keeping(t) ==
    /\ pc'[t].ws = pc[t].ws
    /\ pc'[t].tree = pc[t].tree
    /\ pc'[t].attempt = pc[t].attempt

\* A handler returns.
LEMMA Dones ==
    ASSUME TypeOK, NEW t \in Thread, Done(t)
    PROVE  Moves(t, "idle")
<1>1. Idle \in Call /\ Idle.step = "idle"
  BY DEF Idle, Call
<1> QED
  BY <1>1 DEF Done, TypeOK, Moves

\* A run goes on to its next step, with its workspace, tree and attempt.
LEMMA Goes ==
    ASSUME TypeOK, NEW t \in Thread, pc[t].step \in AttemptSteps, NEW s \in AttemptSteps,
           NEW ok \in BOOLEAN,
           \/ Go(t, s)
           \/ pc' = [pc EXCEPT ![t] = [@ EXCEPT !.step = s, !.ok = ok]]
           \/ pc' = [pc EXCEPT ![t] = [@ EXCEPT !.step = s, !.raising = ok]]
    PROVE  Moves(t, s) /\ Keeping(t)
<1>0. pc[t] \in Attempting
  BY Shapes DEF TypeOK
<1> DEFINE p == pc[t]
<1>1. CASE Go(t, s)
  <2>1. /\ [p EXCEPT !.step = s] \in Attempting
        /\ [p EXCEPT !.step = s].step = s
        /\ [p EXCEPT !.step = s].ws = p.ws
        /\ [p EXCEPT !.step = s].tree = p.tree
        /\ [p EXCEPT !.step = s].attempt = p.attempt
    BY <1>0 DEF Attempting, AttemptSteps, Unjudged
  <2> QED
    BY <1>1, <2>1 DEF Go, Moves, Keeping, TypeOK, Call
<1>2. CASE pc' = [pc EXCEPT ![t] = [@ EXCEPT !.step = s, !.ok = ok]]
  <2> DEFINE q == [p EXCEPT !.step = s, !.ok = ok]
  <2>1. /\ q \in Attempting
        /\ q.step = s
        /\ q.ws = p.ws
        /\ q.tree = p.tree
        /\ q.attempt = p.attempt
    BY <1>0 DEF Attempting, AttemptSteps, Unjudged
  <2>2. pc' = [pc EXCEPT ![t] = q]
    BY <1>2, Zenon
  <2> HIDE DEF q
  <2> QED
    BY <2>1, <2>2 DEF Moves, Keeping, TypeOK, Call
<1>3. CASE pc' = [pc EXCEPT ![t] = [@ EXCEPT !.step = s, !.raising = ok]]
  <2> DEFINE q == [p EXCEPT !.step = s, !.raising = ok]
  <2>1. /\ q \in Attempting
        /\ q.step = s
        /\ q.ws = p.ws
        /\ q.tree = p.tree
        /\ q.attempt = p.attempt
    BY <1>0 DEF Attempting, AttemptSteps, Unjudged
  <2>2. pc' = [pc EXCEPT ![t] = q]
    BY <1>3, Zenon
  <2> HIDE DEF q
  <2> QED
    BY <2>1, <2>2 DEF Moves, Keeping, TypeOK, Call
<1> QED
  BY <1>1, <1>2, <1>3

-----------------------------------------------------------------------------
(* What is left alone.                                                     *)

\* Locks of a step that begins and ends no reset.
LEMMA LocksKept ==
    ASSUME TypeOK, Locks, NEW t \in Thread, NEW s, Moves(t, s),
           engine' = engine, engine = "serving", claimed' = claimed, stale' = stale, held' = held,
           s \in Guarding => pc[t].step \in Guarding /\ pc'[t].ws = pc[t].ws,
           s \in Running => pc[t].step \in Running,
           s \notin {"restoring", "putting back"},
           pc[t].step \notin {"restoring", "putting back"},
           claimed = "idle" => \A a \in DOMAIN verdict' : verdict'[a] # "pending"
    PROVE  Locks'
<1> USE DEF Locks, Moves
<1>1. OneRun'
  BY DEF OneRun
<1>2. OneGuard'
  BY DEF OneGuard, Guards
<1>3. StoppedIsIdle'
  BY DEF StoppedIsIdle
<1>4. ClaimedIsQuiet'
  BY DEF ClaimedIsQuiet
<1>5. HeldByAReset'
  <2>1. \A u \in Thread, w \in Workspace : Holds(u, w)' <=> Holds(u, w)
    BY DEF Holds
  <2> QED
    BY <2>1 DEF HeldByAReset
<1> QED
  BY <1>1, <1>2, <1>3, <1>4, <1>5

\* A repository that a step leaves alone; marks only loosen what is known of it.
LEMMA HeadKept ==
    ASSUME NEW w \in Workspace, HeadOf(w), chain'[w] = chain[w], verdict' = verdict, owner' = owner,
           undone \subseteq undone', left \subseteq left',
           w \notin undone' => (Dirty(w)' => Dirty(w)),
           w \notin left' => (Dirty(w) => Dirty(w)'),
           Pending(w) => (Dirty(w) => Dirty(w)')
    PROVE  HeadOf(w)'
<1>1. (InOrder(w)' <=> InOrder(w)) /\ OnChain(w)' = OnChain(w)
  BY DEF InOrder, OnChain
<1>2. Kept(w)' = Kept(w) /\ (Pending(w)' <=> Pending(w))
  BY DEF Kept, Owned, Pending
<1>3. Last(chain'[w]) = Last(chain[w])
  BY DEF Last
<1>4. Ordered(w)'
  BY <1>1, <1>2 DEF HeadOf, Ordered
<1>5. w \notin undone' => HasTheKept(w)'
  BY <1>1, <1>2, <1>3 DEF HeadOf, HasTheKept
<1>6. w \notin left' => HasOnlyTheKept(w)'
  BY <1>1, <1>2 DEF HeadOf, HasOnlyTheKept
<1> QED
  BY <1>4, <1>5, <1>6 DEF HeadOf

\* Nothing but a thread's step changes.
LEMMA ThreadSteps ==
    ASSUME IInv, NEW t \in Thread, NEW s, Moves(t, s),
           UNCHANGED <<store, git, engine, stale, claimed, crashes, ghosts>>,
           engine = "serving",
           s \in Guarding => pc[t].step \in Guarding /\ pc'[t].ws = pc[t].ws,
           s \in Running => pc[t].step \in Running,
           s \notin {"restoring", "putting back"},
           pc[t].step \notin {"restoring", "putting back"},
           s \in AttemptSteps => Keeping(t) /\ pc[t].step \in AttemptSteps,
           s \in Unjudged <=> pc[t].step \in Unjudged,
           s \notin {"started", "resetting"},
           pc[t].step \notin {"started", "resetting"},
           s \in {"committed", "executing", "ended"}
               => Last(chain[pc[t].ws]).attempt = pc[t].attempt,
           s \in {"executing", "ended"} => Last(chain[pc[t].ws]).tree = pc[t].tree,
           s = "admitted" => pc[t].step = "admitted" /\ Keeping(t)
    PROVE  IInv'
<1> USE DEF store, git, ghosts, marks
<1>1. TypeOK'
  BY DEF IInv, TypeOK, Moves
<1>2. Locks'
  BY LocksKept DEF IInv, Locks, ClaimedIsQuiet
<1>3. RunsTheLast'
  <2>1. PendingIsLast'
    BY DEF IInv, RunsTheLast, PendingIsLast
  <2>2. ASSUME NEW u \in Thread, u # t, InAttempt(u)' PROVE AttemptOf(u)'
    <3>1. AttemptOf(u)
      BY <2>2 DEF IInv, RunsTheLast, InAttempt, Moves
    <3> QED
      BY <2>2, <3>1 DEF AttemptOf, Moves
  <2>3. ASSUME InAttempt(t)' PROVE AttemptOf(t)'
    <3>1. AttemptOf(t) /\ pc'[t].step = s /\ Keeping(t)
      BY <2>3 DEF IInv, RunsTheLast, InAttempt, Moves, AttemptSteps
    <3> QED
      BY <2>3, <3>1 DEF AttemptOf, Keeping
  <2> QED
    BY <2>1, <2>2, <2>3 DEF RunsTheLast
<1>4. TreeIsApproved'
  BY DEF IInv, TreeIsApproved, TreeOf, At, Moves, Keeping, AttemptSteps, Unjudged
<1>5. HeadIs'
  <2> SUFFICES ASSUME NEW w \in Workspace PROVE HeadOf(w)'
    BY DEF HeadIs
  <2>1. Dirty(w)' <=> Dirty(w)
    <3>1. Pending(w)' <=> Pending(w)
      BY DEF Pending
    <3>2. \A u \in Thread : At(u, "started")' /\ pc'[u].ws = w <=> At(u, "started") /\ pc[u].ws = w
      BY DEF Moves, At
    <3>3. \A u \in Thread :
             pc'[u].step \in {"committed", "executing", "ended", "resetting"} /\ pc'[u].ws = w
                <=> pc[u].step \in {"committed", "executing", "ended", "resetting"} /\ pc[u].ws = w
      BY DEF Moves, Keeping, AttemptSteps, Unjudged
    <3> QED
      BY <3>1, <3>2, <3>3 DEF Dirty
  <2> QED
    BY <2>1, HeadKept DEF HeadIs, IInv
<1>6. RowsAreOnce' /\ RowsAreRecorded'
  BY DEF IInv, RowsAreOnce, RowsAreRecorded
<1> QED
  BY <1>1, <1>2, <1>3, <1>4, <1>5, <1>6 DEF IInv

\* A thread that holds locks is in an engine that serves, and alone in its guards.
LEMMA Guarded ==
    ASSUME IInv, NEW t \in Thread, pc[t].step # "idle"
    PROVE  /\ engine = "serving" /\ stale = {}
           /\ pc[t].step \in Running => /\ claimed = "no"
                                       /\ \A u \in Thread : u # t => pc[u].step \notin Running
           /\ pc[t].step \in Guarding =>
                 /\ pc[t].ws \in Workspace
                 /\ \A u \in Thread : u # t => ~Guards(u, pc[t].ws)
           /\ pc[t].step \in Running \ {"restoring"} => held[pc[t].ws] = NoBytes
<1>1. engine = "serving" /\ stale = {}
  BY DEF IInv, Locks, StoppedIsIdle, Idle
<1>2. pc[t].step \in Running => claimed = "no" /\ \A u \in Thread : u # t => pc[u].step \notin Running
  BY DEF IInv, Locks, OneRun, ClaimedIsQuiet
<1>3. pc[t].step \in Guarding => pc[t].ws \in Workspace
  BY Shapes, Fields DEF IInv, TypeOK, Guarding, Running, AttemptSteps, Unjudged
<1>4. pc[t].step \in Guarding => \A u \in Thread : u # t => ~Guards(u, pc[t].ws)
  BY <1>3 DEF IInv, Locks, OneGuard, Guards
<1>5. pc[t].step \in Running \ {"restoring"} => held[pc[t].ws] = NoBytes
  <2> SUFFICES ASSUME pc[t].step \in Running, pc[t].step # "restoring", held[pc[t].ws] # NoBytes
               PROVE  FALSE
    OBVIOUS
  <2>1. pc[t].step \in Guarding
    BY DEF Guarding
  <2>2. PICK u \in Thread : Holds(u, pc[t].ws)
    BY <1>1, <1>3, <2>1 DEF IInv, Locks, HeldByAReset
  <2>3. Guards(u, pc[t].ws)
    BY <2>2 DEF Holds, Guards, Guarding, Running
  <2>4. u = t
    BY <1>4, <2>1, <2>3
  <2> QED
    BY <2>2, <2>4 DEF Holds, Running
<1> QED
  BY <1>1, <1>2, <1>3, <1>4, <1>5

\* A refusal gives the locks back.
LEMMA Refused == ASSUME IInv, NEW t \in Thread, Refuse(t) PROVE IInv'
<1>1. Moves(t, "idle")
  BY Dones DEF Refuse, IInv
<1> QED
  BY <1>1, ThreadSteps, Guarded DEF Refuse, Guarding, Running, AttemptSteps, Unjudged

\* The program starts from the commit, compared with the approved tree.
LEMMA Launched == ASSUME IInv, NEW t \in Thread, Launch(t) PROVE IInv'
<1>1. pc[t].step = "committed"
  BY DEF Launch, At
<1>2. Moves(t, "executing") /\ Keeping(t)
  BY <1>1, Goes DEF Launch, IInv, AttemptSteps, Unjudged
<1>3. Last(chain[pc[t].ws]).attempt = pc[t].attempt /\ Last(chain[pc[t].ws]).tree = pc[t].tree
  BY <1>1 DEF IInv, TreeIsApproved, Launch, Matches
<1> QED
  BY <1>1, <1>2, <1>3, ThreadSteps, Guarded
     DEF Launch, Keeping, Guarding, Running, AttemptSteps, Unjudged

\* The program ends, by itself or at the end of its budget.
LEMMA Ended ==
    ASSUME IInv, NEW t \in Thread, TimeOut(t) \/ \E ok \in BOOLEAN : ProcessEnds(t, ok)
    PROVE  IInv'
<1>1. /\ pc[t].step = "executing"
      /\ UNCHANGED <<store, git, engine, stale, claimed, crashes, ghosts>>
  BY DEF TimeOut, ProcessEnds, At
<1>2. Moves(t, "ended") /\ Keeping(t)
  BY <1>1, Goes DEF TimeOut, ProcessEnds, IInv, AttemptSteps, Unjudged
<1>3. Last(chain[pc[t].ws]).attempt = pc[t].attempt /\ Last(chain[pc[t].ws]).tree = pc[t].tree
  BY <1>1 DEF IInv, TreeIsApproved
<1> QED
  BY <1>1, <1>2, <1>3, ThreadSteps, Guarded
     DEF Keeping, Guarding, Running, AttemptSteps, Unjudged

\* A legacy reset reads the latest attempt, and holds nothing yet.
LEMMA LatestRead ==
    ASSUME IInv, NEW t \in Thread, NEW w \in Workspace, ReadLatest(t, w)
    PROVE  IInv'
<1>1. Moves(t, "decided")
  <2>1. [step |-> "decided", ws |-> w] \in Call
    BY DEF Call, Resetting
  <2> QED
    BY <2>1 DEF ReadLatest, Moves, IInv, TypeOK
<1>2. pc[t].step = "idle"
  BY DEF ReadLatest, Idle
<1> QED
  BY <1>1, <1>2, ThreadSteps DEF ReadLatest, Guarding, Running, AttemptSteps, Unjudged

\* run_experiment takes both locks and compares the tree.
LEMMA Admitting ==
    ASSUME IInv, NEW t \in Thread, NEW w \in Workspace, NEW token \in Tokens(w),
           Admit(t, w, token)
    PROVE  IInv'
<1>1. token = TreeOf(w) /\ TreeOf(w) \in Tree
  BY DEF Admit, Matches, IInv, TypeOK, TreeOf, Tree
<1> DEFINE X == [step |-> "admitted", ws |-> w, tree |-> token]
<1>2. X \in Call /\ X.step = "admitted" /\ X.ws = w /\ X.tree = token
  BY <1>1 DEF Call, Admitted
<1>3. pc' = [pc EXCEPT ![t] = X]
  BY DEF Admit
<1> HIDE DEF X
<1>4. Moves(t, "admitted") /\ pc'[t].ws = w /\ pc'[t].tree = token
  BY <1>2, <1>3 DEF Moves, IInv, TypeOK
<1>5. /\ pc[t].step = "idle" /\ engine = "serving" /\ claimed = "no"
      /\ \A u \in Thread : pc[u].step \notin Running /\ ~Guards(u, w)
      /\ UNCHANGED <<store, git, engine, stale, claimed, crashes, ghosts>>
  BY DEF Admit, RunLockFree, GuardFree, Idle
<1> USE DEF store, git, ghosts, marks
<1>6. TypeOK'
  BY <1>4, <1>5 DEF IInv, TypeOK, Moves
<1>7. Locks'
  <2>1. OneRun'
    BY <1>4, <1>5 DEF IInv, Locks, OneRun, Moves
  <2>2. OneGuard'
    <3>1. \A u \in Thread, x \in Workspace :
             Guards(u, x)' <=> IF u = t THEN x = w ELSE Guards(u, x)
      BY <1>4 DEF Guards, Moves, Guarding, Running
    <3> QED
      BY <1>5, <3>1 DEF IInv, Locks, OneGuard
  <2>3. StoppedIsIdle' /\ ClaimedIsQuiet'
    BY <1>5 DEF IInv, Locks, StoppedIsIdle, ClaimedIsQuiet
  <2>4. HeldByAReset'
    <3>1. \A u \in Thread, x \in Workspace : Holds(u, x)' <=> Holds(u, x)
      BY <1>4, <1>5 DEF Holds, Moves
    <3> QED
      BY <1>5, <3>1 DEF IInv, Locks, HeldByAReset
  <2> QED
    BY <2>1, <2>2, <2>3, <2>4 DEF Locks
<1>8. RunsTheLast'
  <2>1. PendingIsLast'
    BY <1>5 DEF IInv, RunsTheLast, PendingIsLast
  <2>2. ASSUME NEW u \in Thread, InAttempt(u)' PROVE AttemptOf(u)'
    <3>1. u # t /\ pc'[u] = pc[u]
      BY <1>4, <2>2 DEF InAttempt, Moves, Unjudged
    <3>2. AttemptOf(u)
      BY <2>2, <3>1 DEF IInv, RunsTheLast, InAttempt
    <3> QED
      BY <1>5, <3>1, <3>2 DEF AttemptOf
  <2> QED
    BY <2>1, <2>2 DEF RunsTheLast
<1>9. TreeIsApproved'
  BY <1>1, <1>4, <1>5 DEF IInv, TreeIsApproved, TreeOf, At, Moves
<1>10. HeadIs'
  <2> SUFFICES ASSUME NEW x \in Workspace PROVE HeadOf(x)'
    BY <1>5 DEF HeadIs
  <2>1. Pending(x)' <=> Pending(x)
    BY <1>5 DEF Pending
  <2>2. Dirty(x)' <=> Dirty(x)
    BY <1>4, <1>5, <2>1 DEF Dirty, Moves, At
  <2> QED
    BY <1>5, <2>2, HeadKept DEF HeadIs, IInv
<1>11. RowsAreOnce' /\ RowsAreRecorded'
  BY <1>5 DEF IInv, RowsAreOnce, RowsAreRecorded
<1> QED
  BY <1>6, <1>7, <1>8, <1>9, <1>10, <1>11 DEF IInv

\* Steps of no thread, that leave the repositories alone.
LEMMA ThreadsRest ==
    ASSUME IInv, UNCHANGED <<verdict, owner, git, pc, ghosts>>, stale' = stale,
           TypeOK', StoppedIsIdle', ClaimedIsQuiet'
    PROVE  IInv'
<1> USE DEF git, ghosts, marks
<1>1. Locks'
  BY DEF IInv, Locks, OneRun, OneGuard, Guards, HeldByAReset, Holds
<1>2. RunsTheLast'
  BY DEF IInv, RunsTheLast, PendingIsLast, InAttempt, AttemptOf
<1>3. TreeIsApproved'
  BY DEF IInv, TreeIsApproved, TreeOf, At
<1>4. HeadIs'
  <2> SUFFICES ASSUME NEW x \in Workspace PROVE HeadOf(x)'
    BY DEF HeadIs
  <2>1. Pending(x)' <=> Pending(x)
    BY DEF Pending
  <2>2. Dirty(x)' <=> Dirty(x)
    BY <2>1 DEF Dirty, At
  <2> QED
    BY <2>2, HeadKept DEF HeadIs, IInv
<1>5. RowsAreOnce' /\ RowsAreRecorded'
  BY DEF IInv, RowsAreOnce, RowsAreRecorded
<1> QED
  BY <1>1, <1>2, <1>3, <1>4, <1>5 DEF IInv

\* A lease is issued.
LEMMA Proposing == ASSUME IInv, Propose PROVE IInv'
<1>1. spent' \in Seq(Nat) /\ verdict' = verdict
  BY DEF Propose, Store!Issue, IInv, TypeOK
<1>2. TypeOK'
  BY <1>1 DEF Propose, git, ghosts, marks, IInv, TypeOK
<1> QED
  BY <1>1, <1>2, ThreadsRest DEF Propose, IInv, Locks, StoppedIsIdle, ClaimedIsQuiet

\* The shutdown keeps the run lock, and no attempt is pending.
LEMMA Claiming == ASSUME IInv, ClaimIdle PROVE IInv'
<1>1. TypeOK'
  BY DEF ClaimIdle, store, git, ghosts, marks, IInv, TypeOK
<1>2. StoppedIsIdle' /\ ClaimedIsQuiet'
  BY DEF ClaimIdle, store, Claimable, RunLockFree, IInv, Locks, StoppedIsIdle, ClaimedIsQuiet
<1> QED
  BY <1>1, <1>2, ThreadsRest DEF ClaimIdle, store

\* Startup is over, and every stale workspace reset.
LEMMA Serving == ASSUME IInv, Serve PROVE IInv'
<1>1. TypeOK'
  BY DEF Serve, store, git, ghosts, marks, IInv, TypeOK
<1>2. StoppedIsIdle' /\ ClaimedIsQuiet'
  BY DEF Serve, store, IInv, Locks, StoppedIsIdle, ClaimedIsQuiet
<1> QED
  BY <1>1, <1>2, ThreadsRest DEF Serve, store

-----------------------------------------------------------------------------
(* Verdicts.                                                               *)

\* What a thread in a run knows.
LEMMA Runner ==
    ASSUME IInv, NEW t \in Thread, pc[t].step \in Unjudged
    PROVE  /\ AttemptOf(t) /\ verdict[pc[t].attempt] = "pending"
           /\ \A a \in DOMAIN verdict : verdict[a] = "pending" => a = pc[t].attempt
           /\ \A u \in Thread : u # t => pc[u].step \notin Running
           /\ engine = "serving" /\ stale = {} /\ claimed = "no"
           /\ pc[t].ws \in Workspace
           /\ DOMAIN owner = DOMAIN verdict
<1>1. pc[t].step \in Running /\ pc[t].step # "idle" /\ pc[t].step \in Guarding
  BY DEF Unjudged, Running, Guarding
<1>2. AttemptOf(t)
  BY DEF IInv, RunsTheLast, InAttempt
<1>3. DOMAIN owner = DOMAIN verdict
  BY DEF IInv, TypeOK
<1> QED
  BY <1>1, <1>2, <1>3, Guarded DEF AttemptOf, IInv, RunsTheLast, PendingIsLast

\* A verdict on the one pending attempt.
LEMMA KeptAfter ==
    ASSUME IInv, NEW a \in DOMAIN verdict, verdict[a] = "pending", NEW v \in {"kept", "rejected"},
           verdict' = [verdict EXCEPT ![a] = v], owner' = owner, NEW w \in Workspace
    PROVE  /\ verdict' \in Seq({"pending", "kept", "rejected"})
           /\ Len(verdict') = Len(verdict) /\ DOMAIN verdict' = DOMAIN verdict
           /\ verdict'[a] = v /\ \A b \in DOMAIN verdict : b # a => verdict'[b] = verdict[b]
           /\ Kept(w)' = IF v = "kept" /\ owner[a] = w THEN Kept(w) \cup {a} ELSE Kept(w)
           /\ ~Pending(w)'
<1>1. /\ verdict' \in Seq({"pending", "kept", "rejected"})
      /\ Len(verdict') = Len(verdict) /\ DOMAIN verdict' = DOMAIN verdict
      /\ verdict'[a] = v /\ \A b \in DOMAIN verdict : b # a => verdict'[b] = verdict[b]
  BY DEF IInv, TypeOK
<1>2. DOMAIN owner = DOMAIN verdict
  BY DEF IInv, TypeOK
<1>3. \A b \in DOMAIN verdict : verdict[b] = "pending" => b = a
  BY DEF IInv, RunsTheLast, PendingIsLast
<1>4. Kept(w)' = IF v = "kept" /\ owner[a] = w THEN Kept(w) \cup {a} ELSE Kept(w)
  <2>1. Kept(w) = {b \in DOMAIN verdict : owner[b] = w /\ verdict[b] = "kept"}
    BY <1>2 DEF Kept, Owned
  <2>2. Kept(w)' = {b \in DOMAIN verdict : owner[b] = w /\ verdict'[b] = "kept"}
    BY <1>1, <1>2 DEF Kept, Owned
  <2> HIDE DEF Kept
  <2>3. CASE v = "kept" /\ owner[a] = w
    BY <1>1, <2>1, <2>2, <2>3
  <2>4. CASE ~(v = "kept" /\ owner[a] = w)
    BY <1>1, <2>1, <2>2, <2>4
  <2> QED
    BY <2>3, <2>4
<1>5. ~Pending(w)'
  BY <1>1, <1>3 DEF Pending
<1> QED
  BY <1>1, <1>4, <1>5

\* A thread decides its attempt and goes to step s.
LEMMA Deciding ==
    ASSUME IInv, NEW t \in Thread, pc[t].step \in Unjudged, NEW v \in {"kept", "rejected"},
           Store!Decide(pc[t].attempt, v), NEW s \in {"idle", "recording", "resetting"}, Moves(t, s),
           UNCHANGED <<owner, git, engine, stale, claimed, crashes, recorded, undone, torn>>,
           s # "idle" => Keeping(t),
           v = "kept" => pc[t].step # "started" /\ s # "resetting",
           s = "resetting" => pc[t].step # "started",
           s = "recording" => v = "kept",
           v = "rejected" /\ s = "idle" => pc[t].step = "started" \/ pc[t].ws \in left',
           left \subseteq left', left' \subseteq Workspace
    PROVE  IInv'
<1> USE DEF git
<1> DEFINE a == pc[t].attempt
<1>1. verdict' = [verdict EXCEPT ![a] = v] /\ spent' = spent
  BY DEF Store!Decide
<1>2. a \in DOMAIN verdict /\ verdict[a] = "pending"
  BY Runner DEF AttemptOf
<1>3. pc[t].step \in Guarding /\ pc[t].step \in Running
  BY DEF Guarding, Running, Unjudged
<1>4. /\ verdict' \in Seq({"pending", "kept", "rejected"})
      /\ Len(verdict') = Len(verdict) /\ DOMAIN verdict' = DOMAIN verdict
      /\ verdict'[a] = v /\ \A b \in DOMAIN verdict : b # a => verdict'[b] = verdict[b]
  BY <1>1, <1>2, KeptAfter, Runner
<1> HIDE DEF a
<1>5. TypeOK'
  BY <1>1, <1>4 DEF IInv, TypeOK, Moves
<1>6. Locks'
  BY <1>3, Runner, LocksKept DEF IInv, Keeping, Guarding, Running, Unjudged
<1>7. RunsTheLast'
  <2>1. PendingIsLast'
    BY <1>4 DEF IInv, RunsTheLast, PendingIsLast
  <2>2. ASSUME NEW u \in Thread, InAttempt(u)' PROVE AttemptOf(u)'
    <3>1. u = t
      BY <2>2, Runner DEF InAttempt, Moves, Running, Unjudged
    <3>2. s \in {"recording", "resetting"} /\ Keeping(t) /\ pc'[t].step = s
      BY <2>2, <3>1 DEF InAttempt, Moves, Unjudged
    <3> QED
      BY <1>4, <3>1, <3>2, Runner DEF AttemptOf, Keeping, Unjudged, a
  <2> QED
    BY <2>1, <2>2 DEF RunsTheLast
<1>8. TreeIsApproved'
  BY DEF IInv, TreeIsApproved, TreeOf, At, Moves
<1>9. ASSUME NEW w \in Workspace PROVE HeadOf(w)'
  <2>1. HeadOf(w)
    BY DEF IInv, HeadIs
  <2>2. (InOrder(w)' <=> InOrder(w)) /\ OnChain(w)' = OnChain(w) /\ Last(chain[w])' = Last(chain[w])
    BY DEF InOrder, OnChain, Last
  <2>3. /\ Kept(w)' = IF v = "kept" /\ owner[a] = w THEN Kept(w) \cup {a} ELSE Kept(w)
        /\ ~Pending(w)'
    BY <1>1, <1>2, KeptAfter, Runner
  <2>4. Dirty(w)' <=> s = "resetting" /\ pc[t].ws = w
    BY <2>3, Runner DEF Dirty, Moves, Keeping, Running, At
  <2>5. Ordered(w)'
    BY <1>4, <2>1, <2>2, <2>3 DEF HeadOf, Ordered
  <2>6. a = Len(verdict) /\ (owner[a] = w <=> pc[t].ws = w)
    BY Runner DEF AttemptOf, a
  <2>7. CASE pc[t].ws = w
    <3>1. Dirty(w) <=> pc[t].step # "started"
      <4>1. Pending(w)
        BY <1>2, <2>6, <2>7, Runner DEF Pending
      <4>2. \A u \in Thread : At(u, "started") => u = t
        BY Runner DEF At, Running
      <4>3. \A u \in Thread : pc[u].step \in {"committed", "executing", "ended", "resetting"} => u = t
        BY Runner DEF Running
      <4>4. CASE pc[t].step = "started"
        BY <2>7, <4>2, <4>3, <4>4, Runner DEF Dirty, At
      <4>5. CASE pc[t].step # "started"
        BY <2>7, <4>5 DEF Dirty, Unjudged
      <4> QED
        BY <4>4, <4>5
    <3>2. w \notin undone' => HasTheKept(w)'
      BY <1>4, <2>1, <2>2, <2>3, <2>4, <2>6, <2>7, <3>1 DEF HeadOf, HasTheKept
    <3>3. w \notin left' => HasOnlyTheKept(w)'
      BY <1>4, <2>1, <2>2, <2>3, <2>4, <2>6, <2>7, <3>1 DEF HeadOf, HasOnlyTheKept
    <3> QED
      BY <2>5, <3>2, <3>3 DEF HeadOf
  <2>8. CASE pc[t].ws # w
    <3>1. ~Dirty(w)
      <4>1. ~Pending(w)
        BY <2>8, Runner DEF Pending, AttemptOf
      <4> QED
        BY <2>8, <4>1, Runner DEF Dirty, Running
    <3>2. w \notin undone' => HasTheKept(w)'
      BY <2>1, <2>2, <2>3, <2>4, <2>6, <2>8, <3>1 DEF HeadOf, HasTheKept
    <3>3. w \notin left' => HasOnlyTheKept(w)'
      BY <2>1, <2>2, <2>3, <2>4, <2>6, <2>8, <3>1 DEF HeadOf, HasOnlyTheKept
    <3> QED
      BY <2>5, <3>2, <3>3 DEF HeadOf
  <2> QED
    BY <2>7, <2>8
<1>10. RowsAreOnce' /\ RowsAreRecorded'
  BY DEF IInv, RowsAreOnce, RowsAreRecorded
<1> QED
  BY <1>5, <1>6, <1>7, <1>8, <1>9, <1>10 DEF IInv, HeadIs

\* A thread leaves its attempt pending.
LEMMA Stranding ==
    ASSUME IInv, NEW t \in Thread, Strand(t)
    PROVE  IInv'
<1>0. /\ pc[t].step \in Unjudged /\ pc[t].ws \in Workspace
      /\ UNCHANGED <<store, git, engine, stale, claimed, crashes, recorded, left, torn>>
      /\ undone' = IF pc[t].step = "started" THEN undone \cup {pc[t].ws} ELSE undone
  BY Runner DEF Strand, At, Unjudged
<1>a. Moves(t, "idle")
  BY Dones DEF Strand, IInv
<1> USE <1>0, <1>a DEF git, store
<1>1. TypeOK'
  BY DEF IInv, TypeOK, Moves
<1>2. Locks'
  BY Runner, LocksKept DEF IInv, Guarding, Running, Unjudged, Locks, ClaimedIsQuiet
<1>3. RunsTheLast'
  <2>1. PendingIsLast'
    BY DEF IInv, RunsTheLast, PendingIsLast
  <2>2. ASSUME NEW u \in Thread, InAttempt(u)' PROVE AttemptOf(u)'
    BY <2>2, Runner DEF InAttempt, Moves, Running, Unjudged
  <2> QED
    BY <2>1, <2>2 DEF RunsTheLast
<1>4. TreeIsApproved'
  BY DEF IInv, TreeIsApproved, TreeOf, At, Moves
<1>5. HeadIs'
  <2> SUFFICES ASSUME NEW w \in Workspace PROVE HeadOf(w)'
    BY DEF HeadIs
  <2>1. Pending(w)' <=> Pending(w)
    BY DEF Pending
  <2>2. Pending(w) <=> pc[t].ws = w
    BY Runner DEF Pending, AttemptOf
  <2>3. Dirty(w)' <=> pc[t].ws = w
    BY <2>1, <2>2, Runner DEF Dirty, Moves, Running, At
  <2>4. Dirty(w) => pc[t].ws = w
    BY <2>2, Runner DEF Dirty, Running
  <2>5. pc[t].ws = w /\ pc[t].step # "started" => Dirty(w)
    BY <2>2, Runner DEF Dirty, Running, Unjudged
  <2> QED
    BY <2>3, <2>4, <2>5, HeadKept DEF HeadIs, IInv
<1>6. RowsAreOnce' /\ RowsAreRecorded'
  BY DEF IInv, RowsAreOnce, RowsAreRecorded
<1> QED
  BY <1>1, <1>2, <1>3, <1>4, <1>5, <1>6 DEF IInv

\* finish_attempt keeps the commit, or sends it to its reset.
LEMMA Finishing ==
    ASSUME IInv, NEW t \in Thread, NEW v \in {"kept", "rejected"}, Finish(t, v)
    PROVE  IInv'
<1>1. pc[t].step = "ended"
  BY DEF Finish, At
<1>2. Moves(t, AfterVerdict(v)) /\ Keeping(t)
  BY <1>1, Goes DEF Finish, IInv, AfterVerdict, AttemptSteps, Unjudged
<1>3. UNCHANGED <<recorded, undone, left, torn>> /\ left \subseteq Workspace
  BY DEF Finish, ghosts, marks, IInv, TypeOK
<1> QED
  BY <1>1, <1>2, <1>3, Deciding DEF Finish, AfterVerdict, Unjudged

\* A failed run rejects its attempt, and resets it if it was committed.
LEMMA Failing == ASSUME IInv, NEW t \in Thread, Fail(t) PROVE IInv'
<1>1. pc[t].step \in {"started", "committed", "ended"}
  BY DEF Fail
<1>2. UNCHANGED <<recorded, undone, left, torn>> /\ left \subseteq Workspace
  BY DEF Fail, ghosts, marks, IInv, TypeOK
<1>3. CASE pc[t].step = "started"
  <2>1. Moves(t, "idle")
    BY <1>3, Dones DEF Fail, StepAfterFailure, IInv
  <2> QED
    BY <1>2, <1>3, <2>1, Deciding DEF Fail, Unjudged
<1>4. CASE pc[t].step # "started"
  <2>1. pc' = [pc EXCEPT ![t] = [@ EXCEPT !.step = "resetting", !.raising = TRUE]]
    BY <1>1, <1>4, Zenon DEF Fail, StepAfterFailure
  <2>2. Moves(t, "resetting") /\ Keeping(t)
    BY <1>1, <2>1, Goes DEF IInv, AttemptSteps, Unjudged
  <2> QED
    BY <1>1, <1>2, <1>4, <2>2, Deciding DEF Fail, Unjudged
<1> QED
  BY <1>3, <1>4

\* finish_attempt raises after its verdict.
LEMMA Raising ==
    ASSUME IInv, NEW t \in Thread, NEW v \in {"kept", "rejected"}, FinishRaises(t, v)
    PROVE  IInv'
<1>1. /\ pc[t].step \in {"started", "committed", "ended"}
      /\ v = "kept" => pc[t].step = "ended"
      /\ left' = IF v = "kept" \/ pc[t].step = "started" THEN left ELSE left \cup {pc[t].ws}
      /\ UNCHANGED <<owner, git, engine, stale, claimed, crashes, recorded, undone, torn>>
      /\ Store!Decide(pc[t].attempt, v)
  BY DEF FinishRaises, At
<1>2. left \subseteq left' /\ left' \subseteq Workspace
  BY <1>1, Runner DEF IInv, TypeOK, Unjudged
<1>3. Moves(t, "idle")
  BY Dones DEF FinishRaises, IInv
<1> QED
  BY <1>1, <1>2, <1>3, Deciding DEF Unjudged

-----------------------------------------------------------------------------
(* The lease spent, and the commit.                                        *)

\* A workspace's commits.
LEMMA LastOf ==
    ASSUME TypeOK, NEW w \in Workspace
    PROVE  /\ chain[w] \in Seq(Commit) /\ Len(chain[w]) \in Nat \ {0}
           /\ DOMAIN chain[w] = 1..Len(chain[w])
           /\ Last(chain[w]) = chain[w][Len(chain[w])]
           /\ \A i \in DOMAIN chain[w] : chain[w][i] \in Commit /\ chain[w][i].tree \in Tree
                  /\ chain[w][i].attempt \in Nat
<1>1. chain[w] \in Seq(Commit) /\ chain[w] # <<>>
  BY DEF TypeOK
<1>2. \A c \in Commit : c.tree \in Tree /\ c.attempt \in Nat
  BY DEF Commit, AttemptId
<1> HIDE DEF Commit
<1> QED
  BY <1>1, <1>2 DEF Last

\* start_attempt: the new attempt is the last one, and has no commit.  Its thread goes
\* on with it, unless start_attempt raises.
LEMMA Spending ==
    ASSUME IInv, NEW t \in Thread, NEW p \in DOMAIN spent, pc[t].step = "admitted",
           Store!Spend(p), owner' = Append(owner, pc[t].ws),
           NEW s \in {"started", "idle"}, Moves(t, s),
           s = "started" => pc'[t].ws = pc[t].ws /\ pc'[t].attempt = Len(verdict) + 1,
           s = "idle" => pc[t].ws \in undone',
           undone \subseteq undone', undone' \subseteq Workspace,
           UNCHANGED <<git, engine, stale, claimed, crashes, recorded, left, torn>>
    PROVE  IInv'
<1> USE DEF git
<1> DEFINE n == Len(verdict) + 1
           w0 == pc[t].ws
<1>1. /\ w0 \in Workspace /\ engine = "serving" /\ stale = {} /\ claimed = "no"
      /\ \A u \in Thread : u # t => pc[u].step \notin Running
  BY Guarded DEF Running, Guarding
<1>2. /\ verdict' = Append(verdict, "pending") /\ owner' = Append(owner, w0)
      /\ spent' = [spent EXCEPT ![p] = n]
      /\ \A a \in DOMAIN verdict : verdict[a] # "pending"
  BY DEF Store!Spend, Store!Undecided
<1>3. /\ n \in Nat \ {0} /\ verdict \in Seq({"pending", "kept", "rejected"})
      /\ owner \in Seq(Workspace) /\ Len(owner) = Len(verdict) /\ spent \in Seq(Nat)
  BY DEF IInv, TypeOK
<1>4. /\ verdict' \in Seq({"pending", "kept", "rejected"}) /\ owner' \in Seq(Workspace)
      /\ Len(verdict') = n /\ Len(owner') = n
      /\ DOMAIN verdict' = 1..n /\ DOMAIN owner' = 1..n
      /\ DOMAIN verdict = 1..Len(verdict) /\ DOMAIN owner = 1..Len(verdict)
      /\ verdict'[n] = "pending" /\ owner'[n] = w0
      /\ \A a \in DOMAIN verdict : verdict'[a] = verdict[a] /\ owner'[a] = owner[a]
  BY <1>1, <1>2, <1>3
<1>7. s = "started" => pc'[t].ws = w0 /\ pc'[t].attempt = n
  OBVIOUS
<1>8. TypeOK'
  <2>1. spent' \in Seq(Nat)
    BY <1>2, <1>3
  <2> QED
    BY <1>2, <1>4, <1>7, <2>1 DEF IInv, TypeOK, Moves
<1>9. Locks'
  BY <1>1, <1>2, <1>7, LocksKept DEF IInv, Guarding, Running
<1>10. RunsTheLast'
  <2>1. PendingIsLast'
    BY <1>2, <1>3, <1>4 DEF PendingIsLast
  <2>2. ASSUME NEW u \in Thread, InAttempt(u)' PROVE AttemptOf(u)'
    <3>1. u = t /\ s = "started"
      BY <1>1, <2>2 DEF InAttempt, Moves, Running, Unjudged
    <3> QED
      BY <1>3, <1>4, <1>7, <3>1 DEF AttemptOf, Moves, Unjudged
  <2> QED
    BY <2>1, <2>2 DEF RunsTheLast
<1>11. TreeIsApproved'
  BY <1>2, <1>7 DEF IInv, TreeIsApproved, TreeOf, At, Moves
<1>12. HeadIs'
  <2> SUFFICES ASSUME NEW w \in Workspace PROVE HeadOf(w)'
    BY DEF HeadIs
  <2>1. HeadOf(w)
    BY DEF IInv, HeadIs
  <2>2. (InOrder(w)' <=> InOrder(w)) /\ OnChain(w)' = OnChain(w)
    BY DEF InOrder, OnChain
  <2>3. Kept(w)' = Kept(w)
    <3>1. Kept(w) = {b \in 1..Len(verdict) : owner[b] = w /\ verdict[b] = "kept"}
      BY <1>4 DEF Kept, Owned
    <3>2. Kept(w)' = {b \in 1..n : owner'[b] = w /\ verdict'[b] = "kept"}
      BY <1>4 DEF Kept, Owned
    <3>3. 1..n = 1..Len(verdict) \cup {n}
      BY <1>3
    <3> HIDE DEF n
    <3> QED
      BY <1>4, <3>1, <3>2, <3>3
  <2>4. ~Dirty(w)
    BY <1>1, <1>2 DEF Dirty, Pending, Running
  <2>5. Dirty(w)' => w = w0 /\ w \in undone'
    <3>1. Pending(w)' => w = w0
      BY <1>2, <1>4 DEF Pending
    <3> QED
      BY <1>1, <1>7, <3>1 DEF Dirty, Moves, Running, At
  <2>6. Ordered(w)'
    <3>1. \A i \in DOMAIN chain[w] : chain[w][i].attempt < n
      BY <1>3, <2>1, LastOf DEF HeadOf, Ordered, IInv
    <3>2. \A i \in DOMAIN chain'[w] :
             chain'[w][i].attempt <= Len(verdict') /\ chain'[w][i].attempt # Len(verdict')
      BY <1>3, <1>4, <3>1, LastOf DEF IInv
    <3> QED
      BY <2>1, <2>2, <3>2 DEF HeadOf, Ordered
  <2>7. w \notin undone' => HasTheKept(w)'
    BY <2>1, <2>2, <2>3, <2>5 DEF HeadOf, HasTheKept
  <2>8. w \notin left' => HasOnlyTheKept(w)'
    BY <2>1, <2>2, <2>3, <2>4 DEF HeadOf, HasOnlyTheKept
  <2> QED
    BY <2>6, <2>7, <2>8 DEF HeadOf
<1>13. RowsAreOnce' /\ RowsAreRecorded'
  BY <1>2 DEF IInv, RowsAreOnce, RowsAreRecorded
<1> QED
  BY <1>8, <1>9, <1>10, <1>11, <1>12, <1>13 DEF IInv

\* start_attempt returns, and the run goes on.
LEMMA Starting ==
    ASSUME IInv, NEW t \in Thread, NEW p \in DOMAIN spent, Start(t, p)
    PROVE  IInv'
<1> DEFINE X == [step |-> "started", ws |-> pc[t].ws, tree |-> pc[t].tree,
                 attempt |-> Len(verdict) + 1, ok |-> FALSE, raising |-> FALSE]
<1>1. /\ pc[t].step = "admitted" /\ pc[t].ws \in Workspace /\ pc[t].tree \in Tree
  BY Shapes, Fields DEF Start, At, IInv, TypeOK
<1>2. /\ X \in Call /\ X.step = "started" /\ X.ws = pc[t].ws /\ X.attempt = Len(verdict) + 1
  BY <1>1 DEF Call, Attempting, AttemptId, IInv, TypeOK
<1>3. pc' = [pc EXCEPT ![t] = X]
  BY DEF Start
<1> HIDE DEF X
<1>4. Moves(t, "started") /\ pc'[t].ws = pc[t].ws /\ pc'[t].attempt = Len(verdict) + 1
  BY <1>2, <1>3 DEF Moves, IInv, TypeOK
<1>5. UNCHANGED <<recorded, undone, left, torn>> /\ undone \subseteq Workspace
  BY DEF Start, ghosts, marks, IInv, TypeOK
<1> QED
  BY <1>1, <1>4, <1>5, Spending DEF Start

\* start_attempt raises after its commit: the attempt is pending, without a thread.
LEMMA StartRaised ==
    ASSUME IInv, NEW t \in Thread, NEW p \in DOMAIN spent, StartRaises(t, p)
    PROVE  IInv'
<1>1. /\ pc[t].step = "admitted" /\ pc[t].ws \in Workspace
  BY Shapes, Fields DEF StartRaises, At, IInv, TypeOK
<1>2. Moves(t, "idle")
  BY Dones DEF StartRaises, IInv
<1>3. undone' = undone \cup {pc[t].ws} /\ undone \subseteq Workspace
  BY DEF StartRaises, IInv, TypeOK
<1> QED
  BY <1>1, <1>2, <1>3, Spending DEF StartRaises

\* git commit puts the candidate, with the approved tree, on top of the winner.
LEMMA Committing == ASSUME IInv, NEW t \in Thread, CommitTree(t) PROVE IInv'
<1> DEFINE w0 == pc[t].ws
           c == [attempt |-> pc[t].attempt, tree |-> TreeOf(w0)]
<1>1. /\ pc[t].step = "started" /\ pc[t].step \in Unjudged /\ pc[t].step \in AttemptSteps
      /\ chain' = [chain EXCEPT ![w0] = Append(@, c)]
      /\ UNCHANGED <<store, files, ledger, held, engine, stale, claimed, crashes, ghosts>>
      /\ w0 \in Workspace
  BY Runner DEF CommitTree, At, Unjudged, AttemptSteps
<1>2. Moves(t, "committed") /\ Keeping(t)
  BY <1>1, Goes DEF CommitTree, IInv, AttemptSteps, Unjudged
<1>3. c \in Commit /\ c.attempt = pc[t].attempt /\ c.tree = TreeOf(w0)
  <2>1. TreeOf(w0) \in Tree
    BY <1>1 DEF IInv, TypeOK, TreeOf, Tree
  <2>2. pc[t].attempt \in AttemptId
    BY <1>1, Shapes, Fields DEF IInv, TypeOK
  <2> QED
    BY <2>1, <2>2 DEF Commit
<1>4. c.tree.rows = ledger[w0]
  BY <1>3 DEF TreeOf
<1> HIDE DEF c, w0
<1> USE DEF store, ghosts, marks
<1>5. /\ \A w \in Workspace : w # w0 => chain'[w] = chain[w]
      /\ chain' \in [Workspace -> Seq(Commit)]
      /\ chain[w0] \in Seq(Commit) /\ Len(chain[w0]) \in Nat
      /\ chain'[w0] = Append(chain[w0], c)
      /\ Len(chain'[w0]) = Len(chain[w0]) + 1
      /\ DOMAIN chain'[w0] = 1..(Len(chain[w0]) + 1)
      /\ DOMAIN chain[w0] = 1..Len(chain[w0])
      /\ chain'[w0][Len(chain[w0]) + 1] = c
      /\ \A i \in 1..Len(chain[w0]) : chain'[w0][i] = chain[w0][i]
      /\ chain'[w0] # <<>>
      /\ Last(chain'[w0]) = c
  <2>1. chain \in [Workspace -> Seq(Commit)]
    BY DEF IInv, TypeOK
  <2> QED
    BY <1>1, <1>3, <2>1 DEF Last
<1>6. TypeOK'
  BY <1>1, <1>2, <1>5 DEF IInv, TypeOK, Moves
<1>7. Locks'
  BY <1>1, <1>2, Runner, LocksKept DEF IInv, Keeping, Guarding, Running
<1>8. RunsTheLast'
  <2>1. PendingIsLast'
    BY <1>1 DEF IInv, RunsTheLast, PendingIsLast
  <2>2. ASSUME NEW u \in Thread, InAttempt(u)' PROVE AttemptOf(u)'
    <3>1. u = t
      BY <1>1, <1>2, <2>2, Runner DEF InAttempt, Moves, Running, Unjudged
    <3> QED
      BY <1>1, <1>2, <3>1, Runner DEF AttemptOf, Moves, Keeping, Unjudged
  <2> QED
    BY <2>1, <2>2 DEF RunsTheLast
<1>9. TreeIsApproved'
  <2>1. \A u \in Thread : u # t => pc'[u].step \notin Running
    BY <1>1, <1>2, Runner DEF Moves
  <2> QED
    BY <1>1, <1>2, <1>3, <1>5, <2>1 DEF TreeIsApproved, At, Moves, Keeping, Running, w0
<1>10. HeadIs'
  <2> SUFFICES ASSUME NEW w \in Workspace PROVE HeadOf(w)'
    BY DEF HeadIs
  <2>1. HeadOf(w)
    BY DEF IInv, HeadIs
  <2>2. Kept(w)' = Kept(w)
    BY <1>1 DEF Kept, Owned
  <2>3. Pending(w)' <=> Pending(w)
    BY <1>1 DEF Pending
  <2>4. Pending(w) <=> w = w0
    BY <1>1, Runner DEF Pending, AttemptOf, w0
  <2>5. ~Dirty(w)
    BY <1>1, <2>4, Runner DEF Dirty, Running, At, w0
  <2>6. Dirty(w)' <=> w = w0
    BY <1>1, <1>2, <2>3, <2>4, Runner DEF Dirty, Moves, Keeping, Running, At, w0
  <2>7. CASE w # w0
    BY <1>1, <1>5, <2>1, <2>5, <2>6, <2>7, HeadKept
  <2>8. CASE w = w0
    <3> DEFINE n == Len(chain[w])
               m == Len(verdict)
    <3>1. /\ c.attempt = m /\ m \in Nat \ {0} /\ verdict[m] = "pending" /\ m \notin Kept(w)
      <4>1. c.attempt = m /\ m \in DOMAIN verdict /\ verdict[m] = "pending"
        BY <1>1, <1>3, Runner DEF AttemptOf
      <4>2. verdict \in Seq({"pending", "kept", "rejected"})
        BY DEF IInv, TypeOK
      <4>3. m \in Nat \ {0}
        BY <4>1, <4>2
      <4> QED
        BY <4>1, <4>3 DEF Kept
    <3>2. \A i \in 1..n : chain[w][i].attempt \in Nat /\ chain[w][i].attempt < m
      BY <1>5, <2>1, <2>4, <2>5, <2>8, <3>1, LastOf DEF HeadOf, Ordered, IInv
    <3>3. /\ \A i, j \in 1..n : i < j => chain[w][i].attempt < chain[w][j].attempt
          /\ chain[w][1].attempt = 0 /\ n \in Nat /\ n >= 1
      <4>1. DOMAIN chain[w] = 1..n /\ n \in Nat /\ n >= 1
        BY LastOf DEF IInv
      <4> HIDE DEF n
      <4> QED
        BY <2>1, <4>1 DEF HeadOf, Ordered, InOrder
    <3>4. /\ DOMAIN chain'[w] = 1..(n + 1) /\ Len(chain'[w]) = n + 1
          /\ \A i \in 1..n : chain'[w][i] = chain[w][i]
          /\ chain'[w][n + 1].attempt = m /\ Last(chain'[w]).attempt = m
      BY <1>5, <2>8, <3>1
    <3>5. OnChain(w) = {chain[w][i].attempt : i \in 2..n}
      BY DEF OnChain
    <3>6. verdict' = verdict
      BY <1>1
    <3> HIDE DEF n, m
    <3>7. \A i \in 1..(n + 1) : i \in 1..n \/ i = n + 1
      BY <3>3
    <3>8. Ordered(w)'
      <4>1. InOrder(w)'
        <5> SUFFICES ASSUME NEW i \in 1..(n + 1), NEW j \in 1..(n + 1), i < j
                     PROVE  chain'[w][i].attempt < chain'[w][j].attempt
          BY <3>4 DEF InOrder
        <5>1. i \in 1..n /\ (j \in 1..n \/ j = n + 1)
          BY <3>3
        <5> QED
          BY <3>2, <3>3, <3>4, <5>1
      <4>2. \A i \in 1..(n + 1) : chain'[w][i].attempt <= m
        BY <3>1, <3>2, <3>4, <3>7
      <4>3. chain'[w][1].attempt = 0
        BY <3>3, <3>4
      <4> QED
        BY <2>6, <2>8, <3>4, <3>6, <4>1, <4>2, <4>3 DEF Ordered, m
    <3>9. OnChain(w)' = OnChain(w) \cup {m}
      <4>1. /\ \A i \in 2..(n + 1) : i \in 2..n \/ i = n + 1
            /\ \A i \in 2..n : i \in 1..n /\ i \in 2..(n + 1)
            /\ n + 1 \in 2..(n + 1)
        BY <3>3
      <4>2. OnChain(w)' = {chain'[w][i].attempt : i \in 2..(n + 1)}
        BY <3>4 DEF OnChain
      <4> QED
        BY <3>4, <3>5, <4>1, <4>2
    <3>10. w \notin undone' => HasTheKept(w)'
      BY <1>1, <2>1, <2>2, <3>1, <3>4, <3>6, <3>9 DEF HeadOf, HasTheKept, m
    <3>11. w \notin left' => HasOnlyTheKept(w)'
      BY <1>1, <2>1, <2>2, <2>5, <2>6, <2>8, <3>6, <3>9 DEF HeadOf, HasOnlyTheKept, m
    <3> QED
      BY <3>8, <3>10, <3>11 DEF HeadOf
  <2> QED
    BY <2>7, <2>8
<1>11. RowsAreOnce' /\ RowsAreRecorded'
  <2>1. RowsAreRecorded'
    BY <1>1 DEF IInv, RowsAreRecorded
  <2>2. ASSUME NEW w \in Workspace
        PROVE  /\ IsInjective(ledger[w])'
               /\ (held[w] # NoBytes => IsInjective(held[w]))'
               /\ \A i \in DOMAIN chain'[w] : IsInjective(chain'[w][i].tree.rows)
    <3>1. /\ IsInjective(ledger[w]) /\ (held[w] # NoBytes => IsInjective(held[w]))
          /\ \A i \in DOMAIN chain[w] : IsInjective(chain[w][i].tree.rows)
      BY DEF IInv, RowsAreOnce
    <3>2. CASE w # w0
      BY <1>1, <1>5, <3>1, <3>2
    <3>3. CASE w = w0
      BY <1>1, <1>4, <1>5, <3>1, <3>3
    <3> QED
      BY <3>2, <3>3
  <2> QED
    BY <2>1, <2>2 DEF RowsAreOnce
<1> QED
  BY <1>6, <1>7, <1>8, <1>9, <1>10, <1>11 DEF IInv

-----------------------------------------------------------------------------
(* Resets.                                                                 *)

\* No ledger is the absence of one.
LEMMA RowsAreBytes == \A rows \in Seq(AttemptId) : rows # NoBytes
<1>1. Seq(AttemptId) \subseteq Seq(Nat)
  BY DEF AttemptId
<1> QED
  BY <1>1, RunAssumption

\* A repository without its last commit.
LEMMA FrontOf ==
    ASSUME NEW S, NEW seq \in Seq(S), Len(seq) > 1
    PROVE  /\ Front(seq) \in Seq(S) /\ Front(seq) # <<>> /\ Len(Front(seq)) = Len(seq) - 1
           /\ DOMAIN Front(seq) = 1..(Len(seq) - 1)
           /\ \A i \in 1..(Len(seq) - 1) : Front(seq)[i] = seq[i]
<1> DEFINE n == Len(seq) - 1
<1>1. n \in Nat /\ n >= 1 /\ \A i \in 1..n : seq[i] \in S
  OBVIOUS
<1>2. Front(seq) = SubSeq(seq, 1, n)
  BY DEF Front
<1> HIDE DEF n
<1>3. /\ SubSeq(seq, 1, n) \in Seq(S)
      /\ Len(SubSeq(seq, 1, n)) = n
      /\ \A i \in 1..n : SubSeq(seq, 1, n)[i] = seq[i]
  BY <1>1
<1>4. DOMAIN SubSeq(seq, 1, n) = 1..n /\ SubSeq(seq, 1, n) # <<>>
  BY <1>1, <1>3
<1> QED
  BY <1>2, <1>3, <1>4 DEF n

\* What git reset --hard HEAD~1 changes.
LEMMA RolledBack ==
    ASSUME IInv, NEW w \in Workspace, RollBack(w)
    PROVE  /\ chain' \in [Workspace -> Seq(Commit)] /\ files' \in [Workspace -> Content]
           /\ ledger' \in [Workspace -> Seq(AttemptId)]
           /\ held' \in [Workspace -> Seq(AttemptId) \cup {NoBytes}]
           /\ \A x \in Workspace : x # w => /\ chain'[x] = chain[x] /\ files'[x] = files[x]
                                           /\ ledger'[x] = ledger[x] /\ held'[x] = held[x]
           /\ \A x \in Workspace : chain'[x] # <<>>
           /\ held'[w] = ledger[w] /\ held'[w] # NoBytes
           /\ Len(chain[w]) \in Nat /\ Len(chain[w]) > 1
           /\ Len(chain'[w]) = Len(chain[w]) - 1
           /\ DOMAIN chain'[w] = 1..(Len(chain[w]) - 1) /\ DOMAIN chain[w] = 1..Len(chain[w])
           /\ \A i \in 1..(Len(chain[w]) - 1) : chain'[w][i] = chain[w][i]
           /\ ledger'[w] = chain[w][Len(chain[w]) - 1].tree.rows
<1> DEFINE n == Len(chain[w])
           front == Front(chain[w])
<1>1. /\ chain \in [Workspace -> Seq(Commit)] /\ files \in [Workspace -> Content]
      /\ ledger \in [Workspace -> Seq(AttemptId)]
      /\ held \in [Workspace -> Seq(AttemptId) \cup {NoBytes}]
      /\ \A x \in Workspace : chain[x] # <<>>
  BY DEF IInv, TypeOK
<1>2. /\ n > 1 /\ chain' = [chain EXCEPT ![w] = front]
      /\ files' = [files EXCEPT ![w] = Last(front).tree.content]
      /\ ledger' = [ledger EXCEPT ![w] = Last(front).tree.rows]
      /\ held' = [held EXCEPT ![w] = ledger[w]]
  BY DEF RollBack
<1>3. n \in Nat /\ chain[w] \in Seq(Commit) /\ DOMAIN chain[w] = 1..n
  BY <1>1
<1>4. /\ front \in Seq(Commit) /\ Len(front) = n - 1 /\ front # <<>>
      /\ DOMAIN front = 1..(n - 1)
      /\ \A i \in 1..(n - 1) : front[i] = chain[w][i]
  BY <1>2, <1>3, FrontOf
<1>5. Last(front) = chain[w][n - 1] /\ chain[w][n - 1] \in Commit
  BY <1>2, <1>3, <1>4 DEF Last
<1>6. Last(front).tree.content \in Content /\ Last(front).tree.rows \in Seq(AttemptId)
  BY <1>5 DEF Commit, Tree
<1> HIDE DEF n, front
<1>7. /\ chain' \in [Workspace -> Seq(Commit)] /\ files' \in [Workspace -> Content]
      /\ ledger' \in [Workspace -> Seq(AttemptId)]
      /\ held' \in [Workspace -> Seq(AttemptId) \cup {NoBytes}]
  BY <1>1, <1>2, <1>4, <1>6
<1>8. \A x \in Workspace : x # w => /\ chain'[x] = chain[x] /\ files'[x] = files[x]
                                    /\ ledger'[x] = ledger[x] /\ held'[x] = held[x]
  BY <1>1, <1>2
<1>9. chain'[w] = front /\ ledger'[w] = Last(front).tree.rows /\ held'[w] = ledger[w]
  BY <1>1, <1>2
<1>10. \A x \in Workspace : chain'[x] # <<>>
  BY <1>1, <1>4, <1>8, <1>9
<1>11. held'[w] # NoBytes
  BY <1>1, <1>9, RowsAreBytes
<1> QED
  BY <1>2, <1>3, <1>4, <1>5, <1>7, <1>8, <1>9, <1>10, <1>11 DEF n

\* A reset leaves the other commits as they are.
LEMMA ChainRolledBack ==
    ASSUME IInv, NEW w \in Workspace, HeadOf(w), RollBack(w), verdict' = verdict, owner' = owner
    PROVE  /\ Kept(w)' = Kept(w) /\ (Pending(w)' <=> Pending(w))
           /\ OnChain(w)' \subseteq OnChain(w)
           /\ OnChain(w) = OnChain(w)' \cup {Last(chain[w]).attempt}
           /\ \A a \in OnChain(w)' : a < Last(chain[w]).attempt
           /\ \A a \in OnChain(w) : a <= Len(verdict)
           /\ (Dirty(w) => Dirty(w)') \/ ~Pending(w) => Ordered(w)'
<1> DEFINE n == Len(chain[w])
<1>1. /\ n \in Nat /\ n > 1 /\ Len(chain'[w]) = n - 1
      /\ DOMAIN chain'[w] = 1..(n - 1) /\ DOMAIN chain[w] = 1..n
      /\ \A i \in 1..(n - 1) : chain'[w][i] = chain[w][i]
  BY RolledBack
<1>2. /\ \A i, j \in 1..n : i < j => chain[w][i].attempt < chain[w][j].attempt
      /\ chain[w][1].attempt = 0
      /\ \A i \in 1..n : /\ chain[w][i].attempt <= Len(verdict)
                         /\ Pending(w) /\ ~Dirty(w) => chain[w][i].attempt # Len(verdict)
  BY <1>1 DEF HeadOf, Ordered, InOrder
<1>3. Last(chain[w]).attempt = chain[w][n].attempt
  BY DEF Last
<1>4. OnChain(w) = {chain[w][i].attempt : i \in 2..n}
  BY DEF OnChain
<1>5. Kept(w)' = Kept(w) /\ (Pending(w)' <=> Pending(w))
  BY DEF Kept, Owned, Pending
<1>6. OnChain(w)' = {chain'[w][i].attempt : i \in 2..(n - 1)}
  BY <1>1 DEF OnChain
<1> HIDE DEF n
<1>7. /\ \A i \in 2..(n - 1) : i \in 2..n /\ i \in 1..(n - 1) /\ i \in 1..n /\ i < n
      /\ \A i \in 2..n : i \in 2..(n - 1) \/ i = n
      /\ \A i \in 2..n : i \in 1..n
      /\ \A i \in 1..(n - 1) : i \in 1..n
      /\ n \in 2..n /\ n \in 1..n
  BY <1>1
<1>8. OnChain(w)' = {chain[w][i].attempt : i \in 2..(n - 1)}
  BY <1>1, <1>6, <1>7
<1>9. OnChain(w) = OnChain(w)' \cup {chain[w][n].attempt}
  BY <1>4, <1>7, <1>8
<1>10. \A a \in OnChain(w)' : a < chain[w][n].attempt
  BY <1>2, <1>7, <1>8
<1>11. \A a \in OnChain(w) : a <= Len(verdict)
  BY <1>2, <1>4, <1>7
<1>12. InOrder(w)' /\ chain'[w][1].attempt = 0
  BY <1>1, <1>2, <1>7 DEF InOrder
<1>13. ASSUME (Dirty(w) => Dirty(w)') \/ ~Pending(w) PROVE Ordered(w)'
  BY <1>1, <1>2, <1>5, <1>7, <1>12, <1>13 DEF Ordered
<1> QED
  BY <1>3, <1>5, <1>9, <1>10, <1>11, <1>13

\* The reset of a candidate takes it off, and nothing else.
LEMMA CandidateGone ==
    ASSUME IInv, NEW w \in Workspace, HeadOf(w), Dirty(w), RollBack(w),
           verdict' = verdict, owner' = owner, undone' = undone, left' = left,
           ~Pending(w), ~Dirty(w)'
    PROVE  HeadOf(w)'
<1> DEFINE m == Len(verdict)
           l == Last(chain[w]).attempt
<1>1. /\ Kept(w)' = Kept(w) /\ Ordered(w)'
      /\ OnChain(w) = OnChain(w)' \cup {l}
      /\ \A a \in OnChain(w)' : a < l
      /\ \A a \in OnChain(w) : a <= m
  BY ChainRolledBack
<1>2. m \in Nat /\ l \in Nat
  <2>1. m \in Nat
    BY DEF IInv, TypeOK
  <2>2. Len(chain[w]) \in DOMAIN chain[w] /\ l = chain[w][Len(chain[w])].attempt
    BY LastOf DEF IInv
  <2>3. l \in Nat
    BY <2>2, LastOf DEF IInv
  <2> QED
    BY <2>1, <2>3
<1> HIDE DEF m, l
<1>3. m \notin OnChain(w)'
  <2> SUFFICES ASSUME m \in OnChain(w)' PROVE FALSE
    OBVIOUS
  <2>1. m < l /\ l <= m
    BY <1>1
  <2> QED
    BY <1>2, <2>1
<1>4. w \notin undone => HasTheKept(w)'
  BY <1>1 DEF HeadOf, HasTheKept, m, l
<1>5. w \notin left => HasOnlyTheKept(w)'
  BY <1>1, <1>3 DEF HeadOf, HasOnlyTheKept, m
<1> QED
  BY <1>1, <1>4, <1>5 DEF HeadOf

\* What writing the held ledger back changes.
LEMMA WrittenBack ==
    ASSUME IInv, NEW w \in Workspace, WriteLedgerBack(w), held[w] # NoBytes
    PROVE  /\ ledger' \in [Workspace -> Seq(AttemptId)]
           /\ held' \in [Workspace -> Seq(AttemptId) \cup {NoBytes}]
           /\ ledger'[w] = held[w] /\ held'[w] = NoBytes
           /\ \A x \in Workspace : x # w => ledger'[x] = ledger[x] /\ held'[x] = held[x]
           /\ chain' = chain /\ files' = files
<1>1. /\ ledger \in [Workspace -> Seq(AttemptId)]
      /\ held \in [Workspace -> Seq(AttemptId) \cup {NoBytes}]
  BY DEF IInv, TypeOK
<1>2. /\ ledger' = [ledger EXCEPT ![w] = held[w]] /\ held' = [held EXCEPT ![w] = NoBytes]
      /\ chain' = chain /\ files' = files
  BY DEF WriteLedgerBack, PutBack
<1> QED
  BY <1>1, <1>2

\* What append_ledger changes.
LEMMA RowAppended ==
    ASSUME IInv, NEW w \in Workspace, NEW a \in AttemptId, AppendRow(w, a)
    PROVE  /\ ledger' \in [Workspace -> Seq(AttemptId)]
           /\ recorded' \in [Workspace -> SUBSET AttemptId]
           /\ \A x \in Workspace : x # w => ledger'[x] = ledger[x] /\ recorded'[x] = recorded[x]
           /\ ToSet(ledger'[w]) = ToSet(ledger[w]) \cup {a} /\ recorded'[w] = recorded[w] \cup {a}
           /\ IsInjective(ledger[w]) => IsInjective(ledger'[w])
           /\ chain' = chain /\ files' = files /\ held' = held
<1> DEFINE rows == ledger[w]
<1>1. /\ ledger \in [Workspace -> Seq(AttemptId)] /\ recorded \in [Workspace -> SUBSET AttemptId]
      /\ rows \in Seq(AttemptId)
  BY DEF IInv, TypeOK
<1>2. /\ ledger' = [ledger EXCEPT ![w] = IF HasRow(w, a) THEN @ ELSE Append(@, a)]
      /\ recorded' = [recorded EXCEPT ![w] = @ \cup {a}]
      /\ chain' = chain /\ files' = files /\ held' = held
  BY DEF AppendRow
<1>3. ledger'[w] = IF HasRow(w, a) THEN rows ELSE Append(rows, a)
  BY <1>1, <1>2
<1>4. ledger' \in [Workspace -> Seq(AttemptId)] /\ recorded' \in [Workspace -> SUBSET AttemptId]
  BY <1>1, <1>2
<1>5. \A x \in Workspace : x # w => ledger'[x] = ledger[x] /\ recorded'[x] = recorded[x]
  BY <1>1, <1>2
<1>6. recorded'[w] = recorded[w] \cup {a}
  BY <1>1, <1>2
<1>7. /\ ToSet(ledger'[w]) = ToSet(rows) \cup {a}
      /\ IsInjective(rows) => IsInjective(ledger'[w])
  <2>1. CASE HasRow(w, a)
    BY <1>3, <2>1 DEF HasRow
  <2>2. CASE ~HasRow(w, a)
    <3> DEFINE n == Len(rows)
               longer == Append(rows, a)
    <3>1. /\ n \in Nat /\ DOMAIN rows = 1..n /\ DOMAIN longer = 1..(n + 1)
          /\ \A i \in 1..n : longer[i] = rows[i]
          /\ longer[n + 1] = a
      BY <1>1
    <3>2. \A i \in 1..n : rows[i] # a
      BY <2>2, <3>1 DEF HasRow, ToSet
    <3> HIDE DEF rows, longer, n
    <3>3. \A i \in 1..(n + 1) : i \in 1..n \/ i = n + 1
      BY <3>1
    <3>4. ToSet(longer) = ToSet(rows) \cup {a}
      <4>1. \A i \in 1..n : i \in 1..(n + 1)
        BY <3>1
      <4>2. n + 1 \in 1..(n + 1)
        BY <3>1
      <4> QED
        BY <3>1, <3>3, <4>1, <4>2 DEF ToSet
    <3>5. IsInjective(rows) => IsInjective(longer)
      BY <3>1, <3>2, <3>3 DEF IsInjective
    <3> QED
      BY <1>3, <2>2, <3>4, <3>5 DEF longer
  <2> QED
    BY <2>1, <2>2
<1> QED
  BY <1>2, <1>4, <1>5, <1>6, <1>7

\* What a step that touches one workspace leaves alone.
LEMMA RunsKept ==
    ASSUME IInv, NEW t \in Thread, NEW s, Moves(t, s), verdict' = verdict, owner' = owner,
           s \in AttemptSteps => /\ Keeping(t) /\ pc[t].step \in AttemptSteps
                                 /\ s \in Unjudged <=> pc[t].step \in Unjudged,
           s \in {"resetting", "restoring"} => pc[t].step \in {"resetting", "restoring"}
    PROVE  RunsTheLast'
<1>1. PendingIsLast'
  BY DEF IInv, RunsTheLast, PendingIsLast
<1>2. ASSUME NEW u \in Thread, u # t, InAttempt(u)' PROVE AttemptOf(u)'
  <2>1. AttemptOf(u)
    BY <1>2 DEF IInv, RunsTheLast, InAttempt, Moves
  <2> QED
    BY <1>2, <2>1 DEF AttemptOf, Moves
<1>3. ASSUME InAttempt(t)' PROVE AttemptOf(t)'
  <2>1. AttemptOf(t) /\ pc'[t].step = s /\ Keeping(t) /\ (s \in Unjudged <=> pc[t].step \in Unjudged)
    BY <1>3 DEF IInv, RunsTheLast, InAttempt, Moves, AttemptSteps
  <2> QED
    BY <1>3, <2>1 DEF AttemptOf, Keeping
<1> QED
  BY <1>1, <1>2, <1>3 DEF RunsTheLast

\* A step in one workspace leaves the trees of the others' runs.
LEMMA TreesKept ==
    ASSUME IInv, NEW w \in Workspace,
           \A u \in Thread : pc'[u].step \in {"admitted", "committed", "executing", "ended"}
               => pc'[u] = pc[u] /\ pc[u].ws \in Workspace /\ pc[u].ws # w,
           \A x \in Workspace : x # w => /\ chain'[x] = chain[x] /\ files'[x] = files[x]
                                        /\ ledger'[x] = ledger[x]
    PROVE  TreeIsApproved'
<1> SUFFICES ASSUME NEW u \in Thread,
                    pc'[u].step \in {"admitted", "committed", "executing", "ended"}
             PROVE  /\ At(u, "admitted")' => pc'[u].tree = TreeOf(pc[u].ws)'
                    /\ pc'[u].step \in {"committed", "executing", "ended"} =>
                          Last(chain'[pc[u].ws]).attempt = pc'[u].attempt
                    /\ pc'[u].step \in {"executing", "ended"} =>
                          Last(chain'[pc[u].ws]).tree = pc'[u].tree
  BY DEF TreeIsApproved, At, TreeOf
<1>1. pc'[u] = pc[u] /\ pc[u].ws \in Workspace /\ pc[u].ws # w
  OBVIOUS
<1>2. /\ chain'[pc[u].ws] = chain[pc[u].ws] /\ files'[pc[u].ws] = files[pc[u].ws]
      /\ ledger'[pc[u].ws] = ledger[pc[u].ws]
  BY <1>1
<1> QED
  BY <1>1, <1>2 DEF IInv, TreeIsApproved, At, TreeOf

\* A thread at the end of its run.
LEMMA Closer ==
    ASSUME IInv, NEW t \in Thread, pc[t].step \in {"resetting", "restoring", "recording"}
    PROVE  /\ AttemptOf(t) /\ pc[t].step \in Running /\ pc[t].step \in Guarding
           /\ \A u \in Thread : u # t => pc[u].step \notin Running /\ ~Guards(u, pc[t].ws)
           /\ engine = "serving" /\ stale = {} /\ claimed = "no"
           /\ pc[t].ws \in Workspace
           /\ \A w \in Workspace : ~Pending(w)
           /\ pc[t].step # "restoring" => held[pc[t].ws] = NoBytes
<1>1. pc[t].step \in Running /\ pc[t].step # "idle" /\ pc[t].step \in Guarding
  BY DEF Running, Guarding
<1>2. AttemptOf(t)
  BY DEF IInv, RunsTheLast, InAttempt
<1>3. \A a \in DOMAIN verdict : verdict[a] # "pending"
  BY <1>2 DEF IInv, RunsTheLast, PendingIsLast, AttemptOf, Unjudged
<1> QED
  BY <1>1, <1>2, <1>3, Guarded DEF Pending

\* git reset rolls the ledger back, and its rows are in memory.
LEMMA RowsRolledBack ==
    ASSUME IInv, NEW w \in Workspace, RollBack(w), held[w] = NoBytes, recorded' = recorded,
           torn' = torn
    PROVE  RowsAreOnce' /\ RowsAreRecorded'
<1> DEFINE n == Len(chain[w])
<1>1. /\ \A x \in Workspace : x # w => /\ chain'[x] = chain[x] /\ ledger'[x] = ledger[x]
                                      /\ held'[x] = held[x]
      /\ held'[w] = ledger[w] /\ held'[w] # NoBytes
      /\ n \in Nat /\ n > 1
      /\ DOMAIN chain'[w] = 1..(n - 1) /\ DOMAIN chain[w] = 1..n
      /\ \A i \in 1..(n - 1) : chain'[w][i] = chain[w][i]
      /\ ledger'[w] = chain[w][n - 1].tree.rows
  BY RolledBack
<1> HIDE DEF n
<1>2. RowsAreOnce'
  <2> SUFFICES ASSUME NEW x \in Workspace
               PROVE  /\ IsInjective(ledger'[x])
                      /\ held'[x] # NoBytes => IsInjective(held'[x])
                      /\ \A i \in DOMAIN chain'[x] : IsInjective(chain'[x][i].tree.rows)
    BY DEF RowsAreOnce
  <2>1. /\ IsInjective(ledger[x]) /\ (held[x] # NoBytes => IsInjective(held[x]))
        /\ \A i \in DOMAIN chain[x] : IsInjective(chain[x][i].tree.rows)
    BY DEF IInv, RowsAreOnce
  <2>2. CASE x # w
    BY <1>1, <2>1, <2>2
  <2>3. CASE x = w
    <3>1. n - 1 \in 1..n /\ \A i \in 1..(n - 1) : i \in 1..n
      BY <1>1
    <3> QED
      BY <1>1, <2>1, <2>3, <3>1
  <2> QED
    BY <2>2, <2>3
<1>3. RowsAreRecorded'
  <2> SUFFICES ASSUME NEW x \in Workspace \ torn'
               PROVE  ToSet(IF held'[x] = NoBytes THEN ledger'[x] ELSE held'[x]) = recorded[x]
    BY DEF RowsAreRecorded
  <2>1. ToSet(IF held[x] = NoBytes THEN ledger[x] ELSE held[x]) = recorded[x]
    BY DEF IInv, RowsAreRecorded
  <2>2. (IF held'[x] = NoBytes THEN ledger'[x] ELSE held'[x])
           = (IF held[x] = NoBytes THEN ledger[x] ELSE held[x])
    BY <1>1
  <2> QED
    BY <2>1, <2>2
<1> QED
  BY <1>2, <1>3

\* Locks of a step that may begin or end a reset.
LEMMA LocksHeld ==
    ASSUME TypeOK, Locks, NEW t \in Thread, NEW s, Moves(t, s),
           engine' = engine, engine = "serving", claimed' = claimed, stale' = stale,
           verdict' = verdict,
           s \in Guarding => /\ pc'[t].ws = pc[t].ws
                             /\ \A u \in Thread : u # t => ~Guards(u, pc[t].ws),
           s \in Running => pc[t].step \in Running,
           HeldByAReset'
    PROVE  Locks'
<1> USE DEF Locks, Moves
<1>1. OneRun'
  BY DEF OneRun
<1>2. OneGuard'
  BY DEF OneGuard, Guards
<1>3. StoppedIsIdle'
  BY DEF StoppedIsIdle
<1>4. ClaimedIsQuiet'
  BY DEF ClaimedIsQuiet
<1> QED
  BY <1>1, <1>2, <1>3, <1>4

\* A run's git reset.
LEMMA Resets ==
    ASSUME IInv, NEW t \in Thread, Reset(t)
    PROVE  IInv'
<1> DEFINE w0 == pc[t].ws
<1> USE DEF store, ghosts, marks
<1>1. /\ pc[t].step = "resetting" /\ RollBack(w0) /\ w0 \in Workspace
      /\ UNCHANGED <<store, engine, stale, claimed, crashes, ghosts>>
  BY Closer DEF Reset, At
<1>2. Moves(t, "restoring") /\ Keeping(t)
  BY <1>1, Goes DEF Reset, IInv, AttemptSteps, Unjudged
<1>3. TypeOK'
  BY <1>1, <1>2, RolledBack DEF IInv, TypeOK, Moves
<1>4. Locks'
  <2>1. \A u \in Thread, x \in Workspace :
           Holds(u, x)' <=> IF u = t THEN x = w0 ELSE Holds(u, x)
    BY <1>2 DEF Holds, Moves, Keeping
  <2>2. \A u \in Thread : u # t => ~Holds(u, w0)
    BY <1>1, Closer DEF Holds, Guards, Guarding, Running
  <2>3. HeldByAReset'
    <3> HIDE DEF w0
    <3> SUFFICES ASSUME NEW x \in Workspace
                 PROVE  /\ held'[x] # NoBytes => x \in stale' \/ \E u \in Thread : Holds(u, x)'
                        /\ \A u \in Thread : Holds(u, x)' => held'[x] # NoBytes
      BY DEF HeldByAReset
    <3>1. CASE x = w0
      BY <1>1, <2>1, <2>2, <3>1, RolledBack
    <3>2. CASE x # w0
      <4>1. held'[x] = held[x] /\ stale' = stale
        BY <1>1, <3>2, RolledBack
      <4>2. \A u \in Thread : Holds(u, x)' => Holds(u, x)
        BY <2>1, <3>2
      <4>3. \A u \in Thread : Holds(u, x) => Holds(u, x)'
        BY <1>1, <2>1, <3>2 DEF Holds
      <4> QED
        BY <4>1, <4>2, <4>3 DEF IInv, Locks, HeldByAReset
    <3> QED
      BY <3>1, <3>2
  <2> QED
    BY <1>1, <1>2, <2>3, Closer, LocksHeld DEF IInv, Keeping, Running
<1>5. RunsTheLast'
  BY <1>1, <1>2, RunsKept DEF AttemptSteps, Unjudged
<1>6. TreeIsApproved'
  <2>1. \A u \in Thread : pc'[u].step \notin {"admitted", "committed", "executing", "ended"}
    BY <1>1, <1>2, Closer DEF Moves, Running
  <2> QED
    BY <2>1 DEF TreeIsApproved, At
<1>7. HeadIs'
  <2> SUFFICES ASSUME NEW w \in Workspace PROVE HeadOf(w)'
    BY <1>1 DEF HeadIs
  <2>1. HeadOf(w)
    BY DEF IInv, HeadIs
  <2>2. ~Dirty(w)'
    <3>1. ~Pending(w)'
      BY <1>1, Closer DEF Pending
    <3>2. \A u \in Thread : pc'[u].step \notin {"committed", "executing", "ended", "resetting"}
      BY <1>1, <1>2, Closer DEF Moves, Running
    <3>3. stale' = {}
      BY <1>1, Closer
    <3> QED
      BY <3>1, <3>2, <3>3 DEF Dirty
  <2>3. CASE w = w0
    <3>1. Dirty(w)
      BY <1>1, <2>3 DEF Dirty
    <3> QED
      BY <1>1, <2>1, <2>2, <2>3, <3>1, Closer, CandidateGone
  <2>4. CASE w # w0
    <3>1. ~Dirty(w)
      BY <1>1, <2>4, Closer DEF Dirty, Running
    <3>2. chain'[w] = chain[w]
      BY <1>1, <2>4, RolledBack
    <3> QED
      BY <1>1, <2>1, <2>2, <3>1, <3>2, HeadKept
  <2> QED
    BY <2>3, <2>4
<1>8. RowsAreOnce' /\ RowsAreRecorded'
  BY <1>1, RowsRolledBack, Closer
<1> QED
  BY <1>3, <1>4, <1>5, <1>6, <1>7, <1>8 DEF IInv

\* A reset of w is over: what it held is in the ledger again, or torn.
LEMMA RowsBack ==
    ASSUME IInv, NEW w \in Workspace, held'[w] = NoBytes,
           \A x \in Workspace : x # w => ledger'[x] = ledger[x] /\ held'[x] = held[x],
           ledger'[w] = Bytes(w) \/ (IsInjective(ledger'[w]) /\ w \in torn'),
           chain' = chain, recorded' = recorded, torn \subseteq torn'
    PROVE  RowsAreOnce' /\ RowsAreRecorded'
<1>1. ASSUME NEW x \in Workspace
      PROVE  /\ IsInjective(ledger'[x])
             /\ held'[x] # NoBytes => IsInjective(held'[x])
             /\ \A i \in DOMAIN chain'[x] : IsInjective(chain'[x][i].tree.rows)
  <2>1. /\ IsInjective(ledger[x]) /\ (held[x] # NoBytes => IsInjective(held[x]))
        /\ \A i \in DOMAIN chain[x] : IsInjective(chain[x][i].tree.rows)
    BY DEF IInv, RowsAreOnce
  <2>2. CASE x = w
    BY <2>1, <2>2 DEF Bytes
  <2>3. CASE x # w
    BY <2>1, <2>3
  <2> QED
    BY <2>2, <2>3
<1>2. RowsAreOnce'
  BY <1>1 DEF RowsAreOnce
<1>3. RowsAreRecorded'
  <2> SUFFICES ASSUME NEW x \in Workspace \ torn'
               PROVE  ToSet(IF held'[x] = NoBytes THEN ledger'[x] ELSE held'[x]) = recorded[x]
    BY DEF RowsAreRecorded
  <2>1. ToSet(IF held[x] = NoBytes THEN ledger[x] ELSE held[x]) = recorded[x]
    BY DEF IInv, RowsAreRecorded
  <2>2. CASE x = w
    BY <2>1, <2>2 DEF Bytes
  <2>3. CASE x # w
    BY <2>1, <2>3
  <2> QED
    BY <2>2, <2>3
<1> QED
  BY <1>2, <1>3

\* What a failed write of the ledger leaves: rows of a prefix, each once.
LEMMA LedgerLost ==
    ASSUME IInv, NEW w \in Workspace, LoseLedger(w)
    PROVE  /\ ledger' \in [Workspace -> Seq(AttemptId)]
           /\ held' \in [Workspace -> Seq(AttemptId) \cup {NoBytes}]
           /\ IsInjective(ledger'[w]) /\ held'[w] = NoBytes
           /\ \A x \in Workspace : x # w => ledger'[x] = ledger[x] /\ held'[x] = held[x]
           /\ torn' = torn \cup {w}
           /\ UNCHANGED <<chain, files, recorded, undone>>
<1>1. /\ ledger \in [Workspace -> Seq(AttemptId)]
      /\ held \in [Workspace -> Seq(AttemptId) \cup {NoBytes}]
      /\ IsInjective(ledger[w]) /\ (held[w] # NoBytes => IsInjective(held[w]))
  BY DEF IInv, TypeOK, RowsAreOnce
<1>2. /\ held' = [held EXCEPT ![w] = NoBytes] /\ torn' = torn \cup {w}
      /\ UNCHANGED <<chain, files, recorded, undone>>
  BY DEF LoseLedger
<1> DEFINE rows == Bytes(w)
<1>3. rows \in Seq(AttemptId) /\ IsInjective(rows)
  BY <1>1 DEF Bytes
<1>4. PICK n \in 0..Len(rows) : ledger' \in {ledger, [ledger EXCEPT ![w] = SubSeq(rows, 1, n)]}
  BY DEF LoseLedger
<1> DEFINE part == SubSeq(rows, 1, n)
<1>5. /\ part \in Seq(AttemptId) /\ DOMAIN part = 1..n /\ DOMAIN rows = 1..Len(rows)
      /\ \A i \in 1..n : part[i] = rows[i] /\ i \in 1..Len(rows)
  BY <1>3, <1>4
<1> HIDE DEF part, rows
<1>6. IsInjective(part)
  BY <1>3, <1>5 DEF IsInjective
<1>7. /\ ledger' \in [Workspace -> Seq(AttemptId)] /\ IsInjective(ledger'[w])
      /\ \A x \in Workspace : x # w => ledger'[x] = ledger[x]
  <2>1. ledger' = ledger \/ ledger' = [ledger EXCEPT ![w] = part]
    BY <1>4 DEF part
  <2>2. CASE ledger' = ledger
    BY <1>1, <2>2
  <2>3. CASE ledger' = [ledger EXCEPT ![w] = part]
    BY <1>1, <1>5, <1>6, <2>3
  <2> QED
    BY <2>1, <2>2, <2>3
<1> QED
  BY <1>1, <1>2, <1>7

\* What a git that fails leaves of a ledger that nobody holds.
LEMMA GitRaised ==
    ASSUME IInv, NEW w \in Workspace, GitRaises(w), held[w] = NoBytes
    PROVE  /\ ledger' \in [Workspace -> Seq(AttemptId)]
           /\ held' \in [Workspace -> Seq(AttemptId) \cup {NoBytes}]
           /\ held' = held /\ held'[w] = NoBytes
           /\ \A x \in Workspace : x # w => ledger'[x] = ledger[x] /\ held'[x] = held[x]
           /\ torn' \subseteq Workspace
           /\ UNCHANGED <<chain, files, recorded, undone>>
           /\ RowsAreOnce' /\ RowsAreRecorded'
<1>1. /\ ledger \in [Workspace -> Seq(AttemptId)]
      /\ held \in [Workspace -> Seq(AttemptId) \cup {NoBytes}]
      /\ torn \subseteq Workspace
  BY DEF IInv, TypeOK
<1>2. CASE UNCHANGED <<git, recorded, undone, torn>>
  <2>1. UNCHANGED <<chain, files, ledger, held, recorded, undone, torn>>
    BY <1>2 DEF git
  <2>2. RowsAreOnce' /\ RowsAreRecorded'
    BY <2>1 DEF IInv, RowsAreOnce, RowsAreRecorded
  <2> QED
    BY <1>1, <2>1, <2>2
<1>3. CASE LoseLedger(w)
  <2>1. held' = held
    BY <1>1, <1>3 DEF LoseLedger
  <2>2. RowsAreOnce' /\ RowsAreRecorded'
    BY <1>3, LedgerLost, RowsBack
  <2> QED
    BY <1>1, <1>3, <2>1, <2>2, LedgerLost
<1> QED
  BY <1>2, <1>3 DEF GitRaises

\* git fails, and the candidate stays.
LEMMA ResetRaised ==
    ASSUME IInv, NEW t \in Thread, ResetRaises(t), pc[t].step = "resetting"
    PROVE  IInv'
<1> DEFINE w0 == pc[t].ws
<1> USE DEF store
<1>1. /\ w0 \in Workspace /\ held[w0] = NoBytes /\ GitRaises(w0)
      /\ left' = left \cup {w0} /\ UNCHANGED <<store, engine, stale, claimed, crashes>>
  BY Closer DEF ResetRaises, At
<1>2. Moves(t, "idle")
  BY Dones DEF ResetRaises, IInv
<1>3. /\ ledger' \in [Workspace -> Seq(AttemptId)] /\ held' = held
      /\ \A x \in Workspace : x # w0 => ledger'[x] = ledger[x]
      /\ torn' \subseteq Workspace
      /\ UNCHANGED <<chain, files, recorded, undone>>
      /\ RowsAreOnce' /\ RowsAreRecorded'
  BY <1>1, GitRaised
<1>4. TypeOK'
  BY <1>1, <1>2, <1>3 DEF IInv, TypeOK, Moves
<1>5. Locks'
  BY <1>1, <1>2, <1>3, Closer, LocksKept DEF IInv, Guarding, Running
<1>6. RunsTheLast'
  BY <1>1, <1>2, RunsKept DEF AttemptSteps, Unjudged
<1>7. TreeIsApproved'
  <2>1. \A u \in Thread : pc'[u].step \in {"admitted", "committed", "executing", "ended"} =>
            pc'[u] = pc[u] /\ pc[u].ws \in Workspace /\ pc[u].ws # w0
    BY <1>2, Closer DEF Moves, Running
  <2> HIDE DEF w0
  <2> QED
    BY <1>1, <1>3, <2>1, TreesKept
<1>8. HeadIs'
  <2> SUFFICES ASSUME NEW w \in Workspace PROVE HeadOf(w)'
    BY DEF HeadIs
  <2>1. HeadOf(w)
    BY DEF IInv, HeadIs
  <2>2. ~Pending(w)' /\ ~Pending(w)
    BY <1>1, Closer DEF Pending
  <2>3. ~Dirty(w)' /\ (Dirty(w) => w = w0)
    BY <1>1, <1>2, <2>2, Closer DEF Dirty, Moves, Running
  <2> QED
    BY <1>1, <1>3, <2>1, <2>2, <2>3, HeadKept
<1> QED
  BY <1>3, <1>4, <1>5, <1>6, <1>7, <1>8 DEF IInv

\* The second half of a run's reset, or of a legacy one.
LEMMA ResetEnds ==
    ASSUME IInv, NEW t \in Thread, pc[t].step \in {"restoring", "putting back"},
           NEW s \in {"idle", "recording"}, Moves(t, s),
           s = "recording" => pc[t].step = "restoring" /\ Keeping(t),
           UNCHANGED <<store, engine, stale, claimed, crashes, chain, files, recorded, undone, left>>,
           torn \subseteq torn', torn' \subseteq Workspace,
           ledger' \in [Workspace -> Seq(AttemptId)],
           held' \in [Workspace -> Seq(AttemptId) \cup {NoBytes}],
           held'[pc[t].ws] = NoBytes,
           \A x \in Workspace : x # pc[t].ws => ledger'[x] = ledger[x] /\ held'[x] = held[x],
           ledger'[pc[t].ws] = held[pc[t].ws]
              \/ (IsInjective(ledger'[pc[t].ws]) /\ pc[t].ws \in torn')
    PROVE  IInv'
<1> DEFINE w0 == pc[t].ws
<1> USE DEF store
<1>1. /\ w0 \in Workspace /\ engine = "serving" /\ stale = {} /\ held[w0] # NoBytes
      /\ \A u \in Thread : u # t => ~Guards(u, w0)
  <2>1. pc[t].step # "idle" /\ pc[t].step \in Guarding
    BY DEF Guarding, Running
  <2>2. w0 \in Workspace /\ engine = "serving" /\ stale = {} /\ \A u \in Thread : u # t => ~Guards(u, w0)
    BY <2>1, Guarded
  <2> QED
    BY <2>2 DEF IInv, Locks, HeldByAReset, Holds
<1>2. TypeOK'
  BY DEF IInv, TypeOK, Moves
<1>3. Locks'
  <2>1. \A u \in Thread, x \in Workspace : Holds(u, x)' <=> u # t /\ Holds(u, x)
    BY DEF Holds, Moves
  <2>2. \A u \in Thread : u # t => ~Holds(u, w0)
    BY <1>1 DEF Holds, Guards, Guarding, Running
  <2>3. \A x \in Workspace : Holds(t, x) => x = w0
    BY DEF Holds
  <2>4. HeldByAReset'
    <3> SUFFICES ASSUME NEW x \in Workspace
                 PROVE  /\ held'[x] # NoBytes => x \in stale' \/ \E u \in Thread : Holds(u, x)'
                        /\ \A u \in Thread : Holds(u, x)' => held'[x] # NoBytes
      BY DEF HeldByAReset
    <3>1. CASE x = w0
      BY <2>1, <2>2, <3>1
    <3>2. CASE x # w0
      <4>1. held'[x] = held[x] /\ stale' = stale
        BY <3>2
      <4>2. \A u \in Thread : Holds(u, x)' <=> Holds(u, x)
        BY <2>1, <2>3, <3>2
      <4> QED
        BY <4>1, <4>2 DEF IInv, Locks, HeldByAReset
    <3> QED
      BY <3>1, <3>2
  <2> QED
    BY <1>1, <2>4, LocksHeld DEF IInv, Keeping, Running, Guarding
<1>4. RunsTheLast'
  BY RunsKept DEF AttemptSteps, Unjudged
<1>5. TreeIsApproved'
  <2>1. \A u \in Thread : pc'[u].step \in {"admitted", "committed", "executing", "ended"} =>
            pc'[u] = pc[u] /\ pc[u].ws \in Workspace /\ pc[u].ws # w0
    <3> SUFFICES ASSUME NEW u \in Thread,
                        pc'[u].step \in {"admitted", "committed", "executing", "ended"}
                 PROVE  pc'[u] = pc[u] /\ pc[u].ws \in Workspace /\ pc[u].ws # w0
      OBVIOUS
    <3>1. u # t /\ pc'[u] = pc[u] /\ pc[u].step \in Guarding /\ pc[u].step # "idle"
      BY DEF Moves, Guarding, Running
    <3>2. ~Guards(u, w0)
      BY <1>1, <3>1
    <3> QED
      BY <3>1, <3>2, Guarded DEF Guards
  <2> QED
    BY <1>1, <2>1, TreesKept
<1>6. HeadIs'
  <2> SUFFICES ASSUME NEW w \in Workspace PROVE HeadOf(w)'
    BY DEF HeadIs
  <2>1. HeadOf(w)
    BY DEF IInv, HeadIs
  <2>2. Pending(w)' <=> Pending(w)
    BY DEF Pending
  <2>3. Dirty(w)' <=> Dirty(w)
    <3>1. \A u \in Thread : At(u, "started")' /\ pc'[u].ws = w <=> At(u, "started") /\ pc[u].ws = w
      BY DEF Moves, At
    <3>2. \A u \in Thread :
             pc'[u].step \in {"committed", "executing", "ended", "resetting"} /\ pc'[u].ws = w
                <=> pc[u].step \in {"committed", "executing", "ended", "resetting"} /\ pc[u].ws = w
      BY DEF Moves
    <3> QED
      BY <1>1, <2>2, <3>1, <3>2 DEF Dirty
  <2> QED
    BY <2>1, <2>3, HeadKept
<1>7. RowsAreOnce' /\ RowsAreRecorded'
  <2> HIDE DEF w0
  <2>1. /\ held'[w0] = NoBytes
        /\ \A x \in Workspace : x # w0 => ledger'[x] = ledger[x] /\ held'[x] = held[x]
        /\ ledger'[w0] = held[w0] \/ (IsInjective(ledger'[w0]) /\ w0 \in torn')
    BY DEF w0
  <2> QED
    BY <1>1, <2>1, RowsBack DEF Bytes
<1> QED
  BY <1>2, <1>3, <1>4, <1>5, <1>6, <1>7 DEF IInv

\* What a thread in the second half of a reset holds.
LEMMA Holder ==
    ASSUME IInv, NEW t \in Thread, pc[t].step \in {"restoring", "putting back"}
    PROVE  pc[t].ws \in Workspace /\ held[pc[t].ws] # NoBytes
<1>1. pc[t].step # "idle" /\ pc[t].step \in Guarding
  BY DEF Guarding, Running
<1>2. pc[t].ws \in Workspace
  BY <1>1, Guarded
<1> QED
  BY <1>2 DEF IInv, Locks, HeldByAReset, Holds

\* A run writes its workspace's ledger back.
LEMMA Restores == ASSUME IInv, NEW t \in Thread, Restore(t) PROVE IInv'
<1> DEFINE s == IF pc[t].raising THEN "idle" ELSE "recording"
<1>1. /\ pc[t].step = "restoring" /\ WriteLedgerBack(pc[t].ws)
      /\ UNCHANGED <<store, engine, stale, claimed, crashes, recorded, undone, left, torn>>
  BY DEF Restore, At, ghosts, marks
<1>2. Moves(t, s) /\ (s = "recording" => Keeping(t)) /\ s \in {"idle", "recording"}
  <2>1. CASE pc[t].raising
    BY <2>1, Dones DEF Restore, IInv
  <2>2. CASE ~pc[t].raising
    BY <1>1, <2>2, Goes DEF Restore, IInv, AttemptSteps, Unjudged
  <2> QED
    BY <2>1, <2>2
<1> HIDE DEF s
<1>3. torn' = torn /\ torn \subseteq Workspace
  BY <1>1 DEF IInv, TypeOK
<1> QED
  BY <1>1, <1>2, <1>3, Holder, WrittenBack, ResetEnds

\* The rows of a reset are not written back.
LEMMA RestoreRaised == ASSUME IInv, NEW t \in Thread, RestoreRaises(t) PROVE IInv'
<1>1. /\ pc[t].step \in {"restoring", "putting back"} /\ LoseLedger(pc[t].ws)
      /\ UNCHANGED <<store, engine, stale, claimed, crashes, left>>
  BY DEF RestoreRaises
<1>2. Moves(t, "idle")
  BY Dones DEF RestoreRaises, IInv
<1>3. torn \subseteq Workspace
  BY DEF IInv, TypeOK
<1> QED
  BY <1>1, <1>2, <1>3, Holder, LedgerLost, ResetEnds

\* A row is not written.
LEMMA RecordRaised == ASSUME IInv, NEW t \in Thread, RecordRaises(t) PROVE IInv'
<1>1. Moves(t, "idle") /\ pc[t].step = "recording"
  BY Dones DEF RecordRaises, IInv, At
<1> QED
  BY <1>1, ThreadSteps, Guarded DEF RecordRaises, Guarding, Running, AttemptSteps, Unjudged

\* A row is written, once.
LEMMA RowsAppended ==
    ASSUME IInv, NEW w \in Workspace, NEW a \in AttemptId, AppendRow(w, a), held[w] = NoBytes,
           torn' = torn
    PROVE  RowsAreOnce' /\ RowsAreRecorded'
<1>1. /\ \A x \in Workspace : x # w => ledger'[x] = ledger[x] /\ recorded'[x] = recorded[x]
      /\ ToSet(ledger'[w]) = ToSet(ledger[w]) \cup {a} /\ recorded'[w] = recorded[w] \cup {a}
      /\ IsInjective(ledger[w]) => IsInjective(ledger'[w])
      /\ chain' = chain /\ held' = held
  BY RowAppended
<1>2. RowsAreOnce'
  <2> SUFFICES ASSUME NEW x \in Workspace
               PROVE  /\ IsInjective(ledger'[x])
                      /\ held'[x] # NoBytes => IsInjective(held'[x])
                      /\ \A i \in DOMAIN chain'[x] : IsInjective(chain'[x][i].tree.rows)
    BY DEF RowsAreOnce
  <2> QED
    BY <1>1 DEF IInv, RowsAreOnce
<1>3. RowsAreRecorded'
  <2> SUFFICES ASSUME NEW x \in Workspace \ torn
               PROVE  ToSet(IF held'[x] = NoBytes THEN ledger'[x] ELSE held'[x]) = recorded'[x]
    BY DEF RowsAreRecorded
  <2>1. ToSet(IF held[x] = NoBytes THEN ledger[x] ELSE held[x]) = recorded[x]
    BY DEF IInv, RowsAreRecorded
  <2>2. CASE x = w
    BY <1>1, <2>1, <2>2
  <2>3. CASE x # w
    BY <1>1, <2>1, <2>3
  <2> QED
    BY <2>2, <2>3
<1> QED
  BY <1>2, <1>3

\* A run ends with its row.
LEMMA Records == ASSUME IInv, NEW t \in Thread, Record(t) PROVE IInv'
<1> DEFINE w0 == pc[t].ws
           a == pc[t].attempt
<1> USE DEF store
<1>1. /\ pc[t].step = "recording" /\ AppendRow(w0, a) /\ w0 \in Workspace
      /\ UNCHANGED <<store, engine, stale, claimed, crashes, undone, left, torn>> /\ held[w0] = NoBytes
  BY Closer DEF Record, At, marks
<1>2. Moves(t, "idle")
  BY Dones DEF Record, IInv
<1>3. a \in AttemptId
  BY <1>1, Shapes, Fields DEF IInv, TypeOK, AttemptSteps
<1>4. /\ ledger' \in [Workspace -> Seq(AttemptId)] /\ recorded' \in [Workspace -> SUBSET AttemptId]
      /\ chain' = chain /\ files' = files /\ held' = held
  BY <1>1, <1>3, RowAppended
<1>5. TypeOK'
  BY <1>1, <1>2, <1>4 DEF IInv, TypeOK, Moves
<1>6. Locks'
  BY <1>1, <1>2, <1>4, Closer, LocksKept DEF IInv, Guarding, Running
<1>7. RunsTheLast'
  BY <1>1, <1>2, RunsKept DEF AttemptSteps, Unjudged
<1>8. TreeIsApproved'
  <2>1. \A u \in Thread : pc'[u].step \notin {"admitted", "committed", "executing", "ended"}
    BY <1>1, <1>2, Closer DEF Moves, Running
  <2> QED
    BY <2>1 DEF TreeIsApproved, At
<1>9. HeadIs'
  <2> SUFFICES ASSUME NEW w \in Workspace PROVE HeadOf(w)'
    BY <1>1 DEF HeadIs
  <2>1. HeadOf(w)
    BY DEF IInv, HeadIs
  <2>2. ~Pending(w)' /\ ~Pending(w)
    BY <1>1, Closer DEF Pending
  <2>3. ~Dirty(w)' /\ ~Dirty(w)
    BY <1>1, <1>2, <2>2, Closer DEF Dirty, Moves, Running
  <2> QED
    BY <1>1, <1>4, <2>1, <2>3, HeadKept
<1>10. RowsAreOnce' /\ RowsAreRecorded'
  BY <1>1, <1>3, RowsAppended
<1> QED
  BY <1>5, <1>6, <1>7, <1>8, <1>9, <1>10 DEF IInv

-----------------------------------------------------------------------------
(* The other writers.                                                      *)

\* Nobody holds a ledger of a workspace that nobody guards, and a run in another
\* workspace is none of its business.
LEMMA Unguarded ==
    ASSUME IInv, NEW w \in Workspace, engine = "serving", GuardFree(w)
    PROVE  /\ held[w] = NoBytes
           /\ \A u \in Thread : pc[u].step \in {"admitted", "committed", "executing", "ended"} =>
                 pc[u].ws \in Workspace /\ pc[u].ws # w
<1>1. \A u \in Thread : ~Holds(u, w)
  BY DEF GuardFree, Guards, Holds, Guarding, Running
<1>2. held[w] = NoBytes
  BY <1>1 DEF IInv, Locks, HeldByAReset, StoppedIsIdle
<1>3. \A u \in Thread : pc[u].step \in {"admitted", "committed", "executing", "ended"} =>
         pc[u].ws \in Workspace /\ pc[u].ws # w
  <2> SUFFICES ASSUME NEW u \in Thread, pc[u].step \in {"admitted", "committed", "executing", "ended"}
               PROVE  pc[u].ws \in Workspace /\ pc[u].ws # w
    OBVIOUS
  <2>1. pc[u].step \in Guarding /\ pc[u].step # "idle"
    BY DEF Guarding, Running
  <2> QED
    BY <2>1, Guarded DEF GuardFree, Guards
<1> QED
  BY <1>2, <1>3

\* write_file, outside runs: no approved tree changes under its run.
LEMMA Writing ==
    ASSUME IInv, NEW w \in Workspace, NEW c \in Content, Write(w, c)
    PROVE  IInv'
<1> USE DEF store, ghosts, marks
<1>1. /\ engine = "serving" /\ GuardFree(w) /\ files' = [files EXCEPT ![w] = c]
      /\ UNCHANGED <<store, chain, ledger, held, pc, engine, stale, claimed, crashes, ghosts>>
  BY DEF Write
<1>2. TypeOK'
  BY <1>1 DEF IInv, TypeOK
<1>3. Locks'
  BY <1>1 DEF IInv, Locks, OneRun, OneGuard, Guards, StoppedIsIdle, ClaimedIsQuiet, HeldByAReset, Holds
<1>4. RunsTheLast'
  BY <1>1 DEF IInv, RunsTheLast, PendingIsLast, InAttempt, AttemptOf
<1>5. TreeIsApproved'
  <2>1. \A x \in Workspace : x # w => files'[x] = files[x]
    BY <1>1 DEF IInv, TypeOK
  <2> QED
    BY <1>1, <2>1, Unguarded, TreesKept
<1>6. HeadIs'
  <2> SUFFICES ASSUME NEW x \in Workspace PROVE HeadOf(x)'
    BY <1>1 DEF HeadIs
  <2>1. Pending(x)' <=> Pending(x)
    BY <1>1 DEF Pending
  <2>2. Dirty(x)' <=> Dirty(x)
    BY <1>1, <2>1 DEF Dirty, At
  <2> QED
    BY <1>1, <2>2, HeadKept DEF HeadIs, IInv
<1>7. RowsAreOnce' /\ RowsAreRecorded'
  BY <1>1 DEF IInv, RowsAreOnce, RowsAreRecorded
<1> QED
  BY <1>2, <1>3, <1>4, <1>5, <1>6, <1>7 DEF IInv

\* The ledger tool of older clients.
LEMMA Appending ==
    ASSUME IInv, NEW w \in Workspace, NEW a \in DOMAIN verdict, AppendLedger(w, a)
    PROVE  IInv'
<1> USE DEF store
<1>1. /\ engine = "serving" /\ GuardFree(w) /\ AppendRow(w, a)
      /\ UNCHANGED <<store, pc, engine, stale, claimed, crashes, undone, left, torn>>
  BY DEF AppendLedger, marks
<1>2. a \in AttemptId
  BY DEF IInv, TypeOK, AttemptId
<1>3. held[w] = NoBytes
  BY <1>1, Unguarded
<1>4. /\ ledger' \in [Workspace -> Seq(AttemptId)] /\ recorded' \in [Workspace -> SUBSET AttemptId]
      /\ chain' = chain /\ files' = files /\ held' = held
      /\ \A x \in Workspace : x # w => ledger'[x] = ledger[x]
  BY <1>1, <1>2, RowAppended
<1>5. TypeOK'
  BY <1>1, <1>4 DEF IInv, TypeOK
<1>6. Locks'
  BY <1>1, <1>4
     DEF IInv, Locks, OneRun, OneGuard, Guards, StoppedIsIdle, ClaimedIsQuiet, HeldByAReset, Holds
<1>7. RunsTheLast'
  BY <1>1 DEF IInv, RunsTheLast, PendingIsLast, InAttempt, AttemptOf
<1>8. TreeIsApproved'
  BY <1>1, <1>4, Unguarded, TreesKept
<1>9. HeadIs'
  <2> SUFFICES ASSUME NEW x \in Workspace PROVE HeadOf(x)'
    BY <1>1 DEF HeadIs
  <2>1. Pending(x)' <=> Pending(x)
    BY <1>1 DEF Pending
  <2>2. Dirty(x)' <=> Dirty(x)
    BY <1>1, <1>4, <2>1 DEF Dirty, At
  <2> QED
    BY <1>1, <1>4, <2>2, HeadKept DEF HeadIs, IInv
<1>10. RowsAreOnce' /\ RowsAreRecorded'
  BY <1>1, <1>2, <1>3, RowsAppended
<1> QED
  BY <1>5, <1>6, <1>7, <1>8, <1>9, <1>10 DEF IInv

\* A thread in a legacy reset.
LEMMA SteppingAside ==
    ASSUME IInv, NEW t \in Thread, pc[t].step \in {"decided", "putting back"}
    PROVE  /\ pc[t] \in Resetting /\ pc[t].ws \in Workspace
           /\ pc[t].step \notin Running /\ pc[t].step # "idle"
           /\ engine = "serving" /\ stale = {}
<1>1. pc[t].step # "idle"
  OBVIOUS
<1> QED
  BY <1>1, Shapes, Fields, Guarded DEF IInv, TypeOK, Running

\* A legacy reset, which may undo any commit.
LEMMA AskedReset == ASSUME IInv, NEW t \in Thread, ResetAsked(t) PROVE IInv'
<1> DEFINE w0 == pc[t].ws
<1> USE DEF store
<1>1. /\ pc[t].step = "decided" /\ GuardFree(w0) /\ RollBack(w0) /\ Go(t, "putting back")
      /\ undone' = undone \cup {w0} /\ w0 \in Workspace /\ engine = "serving" /\ stale = {}
      /\ UNCHANGED <<store, engine, stale, claimed, crashes, recorded, left, torn>>
      /\ held[w0] = NoBytes /\ pc[t] \in Resetting
  BY SteppingAside, Unguarded DEF ResetAsked, At
<1>2. Moves(t, "putting back") /\ pc'[t].ws = w0
  <2> DEFINE q == [pc[t] EXCEPT !.step = "putting back"]
  <2>1. q \in Resetting /\ q.step = "putting back" /\ q.ws = w0
    BY <1>1 DEF Resetting
  <2>2. pc' = [pc EXCEPT ![t] = q]
    BY <1>1 DEF Go
  <2> HIDE DEF q
  <2> QED
    BY <2>1, <2>2 DEF Moves, Call, IInv, TypeOK
<1>3. TypeOK'
  BY <1>1, <1>2, RolledBack DEF IInv, TypeOK, Moves
<1>4. Locks'
  <2>1. \A u \in Thread, x \in Workspace :
           Holds(u, x)' <=> IF u = t THEN x = w0 ELSE Holds(u, x)
    BY <1>2 DEF Holds, Moves
  <2>2. \A x \in Workspace : ~Holds(t, x)
    BY <1>1 DEF Holds
  <2>3. HeldByAReset'
    <3> HIDE DEF w0
    <3> SUFFICES ASSUME NEW x \in Workspace
                 PROVE  /\ held'[x] # NoBytes => x \in stale' \/ \E u \in Thread : Holds(u, x)'
                        /\ \A u \in Thread : Holds(u, x)' => held'[x] # NoBytes
      BY DEF HeldByAReset
    <3>1. CASE x = w0
      BY <1>1, <2>1, <3>1, RolledBack
    <3>2. CASE x # w0
      <4>1. held'[x] = held[x] /\ stale' = stale
        BY <1>1, <3>2, RolledBack
      <4>2. \A u \in Thread : Holds(u, x)' <=> Holds(u, x)
        BY <2>1, <2>2, <3>2
      <4> QED
        BY <4>1, <4>2 DEF IInv, Locks, HeldByAReset
    <3> QED
      BY <3>1, <3>2
  <2> QED
    BY <1>1, <1>2, <2>3, LocksHeld DEF IInv, GuardFree, Running
<1>5. RunsTheLast'
  BY <1>1, <1>2, RunsKept DEF AttemptSteps, Unjudged
<1>6. TreeIsApproved'
  <2>1. \A u \in Thread : pc'[u].step \in {"admitted", "committed", "executing", "ended"} =>
            pc'[u] = pc[u] /\ pc[u].ws \in Workspace /\ pc[u].ws # w0
    BY <1>1, <1>2, Unguarded DEF Moves
  <2>2. \A x \in Workspace : x # w0 => /\ chain'[x] = chain[x] /\ files'[x] = files[x]
                                     /\ ledger'[x] = ledger[x]
    BY <1>1, RolledBack
  <2> HIDE DEF w0
  <2> QED
    BY <1>1, <2>1, <2>2, TreesKept
<1>7. HeadIs'
  <2> HIDE DEF w0
  <2> SUFFICES ASSUME NEW w \in Workspace PROVE HeadOf(w)'
    BY DEF HeadIs
  <2>1. HeadOf(w)
    BY DEF IInv, HeadIs
  <2>2. Pending(w)' <=> Pending(w)
    BY <1>1 DEF Pending
  <2>3. Dirty(w)' <=> Dirty(w)
    BY <1>1, <1>2, <2>2 DEF Dirty, Moves, At
  <2>4. CASE w = w0
    <3>1. /\ Ordered(w)' /\ Kept(w)' = Kept(w)
          /\ OnChain(w)' \subseteq OnChain(w)
      BY <1>1, <2>1, <2>3, <2>4, ChainRolledBack
    <3>2. w \notin left => HasOnlyTheKept(w)'
      BY <1>1, <2>1, <2>3, <3>1 DEF HeadOf, HasOnlyTheKept
    <3> QED
      BY <1>1, <2>4, <3>1, <3>2 DEF HeadOf
  <2>5. CASE w # w0
    BY <1>1, <2>1, <2>3, <2>5, RolledBack, HeadKept
  <2> QED
    BY <2>4, <2>5
<1>8. RowsAreOnce' /\ RowsAreRecorded'
  BY <1>1, RowsRolledBack
<1> QED
  BY <1>3, <1>4, <1>5, <1>6, <1>7, <1>8 DEF IInv

\* git fails a legacy reset.
LEMMA AskRaised ==
    ASSUME IInv, NEW t \in Thread, ResetRaises(t), pc[t].step = "decided"
    PROVE  IInv'
<1> DEFINE w0 == pc[t].ws
<1> USE DEF store
<1>1. /\ w0 \in Workspace /\ engine = "serving" /\ stale = {} /\ held[w0] = NoBytes
      /\ GitRaises(w0) /\ GuardFree(w0)
      /\ UNCHANGED <<store, engine, stale, claimed, crashes, left>>
  BY SteppingAside, Unguarded DEF ResetRaises, At
<1>2. Moves(t, "idle")
  BY Dones DEF ResetRaises, IInv
<1>3. /\ ledger' \in [Workspace -> Seq(AttemptId)] /\ held' = held
      /\ \A x \in Workspace : x # w0 => ledger'[x] = ledger[x]
      /\ torn' \subseteq Workspace
      /\ UNCHANGED <<chain, files, recorded, undone>>
      /\ RowsAreOnce' /\ RowsAreRecorded'
  BY <1>1, GitRaised
<1>4. TypeOK'
  BY <1>1, <1>2, <1>3 DEF IInv, TypeOK, Moves
<1>5. Locks'
  BY <1>1, <1>2, <1>3, LocksKept DEF IInv, Locks, ClaimedIsQuiet, Guarding, Running
<1>6. RunsTheLast'
  BY <1>1, <1>2, RunsKept DEF AttemptSteps, Unjudged
<1>7. TreeIsApproved'
  <2>1. \A u \in Thread : pc'[u].step \in {"admitted", "committed", "executing", "ended"} =>
            pc'[u] = pc[u] /\ pc[u].ws \in Workspace /\ pc[u].ws # w0
    BY <1>1, <1>2, Unguarded DEF Moves
  <2> HIDE DEF w0
  <2> QED
    BY <1>1, <1>3, <2>1, TreesKept
<1>8. HeadIs'
  <2> SUFFICES ASSUME NEW w \in Workspace PROVE HeadOf(w)'
    BY DEF HeadIs
  <2>1. HeadOf(w)
    BY DEF IInv, HeadIs
  <2>2. Pending(w)' <=> Pending(w)
    BY <1>1 DEF Pending
  <2>3. Dirty(w)' <=> Dirty(w)
    BY <1>1, <1>2, <2>2 DEF Dirty, Moves, At
  <2> QED
    BY <1>1, <1>3, <2>1, <2>2, <2>3, HeadKept
<1> QED
  BY <1>3, <1>4, <1>5, <1>6, <1>7, <1>8 DEF IInv

\* ... and its ledger written back.
LEMMA AskedPutBack == ASSUME IInv, NEW t \in Thread, PutBackAsked(t) PROVE IInv'
<1>1. /\ pc[t].step = "putting back" /\ WriteLedgerBack(pc[t].ws)
      /\ UNCHANGED <<store, engine, stale, claimed, crashes, recorded, undone, left, torn>>
  BY DEF PutBackAsked, At, ghosts, marks
<1>2. Moves(t, "idle")
  BY Dones DEF PutBackAsked, IInv
<1>3. torn' = torn /\ torn \subseteq Workspace
  BY <1>1 DEF IInv, TypeOK
<1> QED
  BY <1>1, <1>2, <1>3, Holder, WrittenBack, ResetEnds

-----------------------------------------------------------------------------
(* Deaths and restarts.                                                    *)

\* A thread that does nothing.
LEMMA IdleThreads ==
    ASSUME NEW p, p = Idle
    PROVE  p.step = "idle" /\ p \in Call
  BY DEF Idle, Call

\* Nothing happens in an engine that does not serve.
LEMMA Stopped ==
    ASSUME IInv, engine # "serving"
    PROVE  /\ claimed = "no" /\ \A t \in Thread : pc[t] = Idle /\ pc[t].step = "idle"
           /\ engine = "down" => stale = {} /\ \A w \in Workspace : held[w] = NoBytes
           /\ engine = "recovering" => \A w \in Workspace : ~Pending(w)
<1>1. claimed = "no" /\ \A t \in Thread : pc[t] = Idle
  BY DEF IInv, Locks, StoppedIsIdle
<1>2. \A t \in Thread : pc[t].step = "idle"
  BY <1>1, IdleThreads
<1>3. engine = "down" => stale = {} /\ \A w \in Workspace : held[w] = NoBytes
  BY <1>2 DEF IInv, Locks, StoppedIsIdle, HeldByAReset, Holds
<1>4. engine = "recovering" => \A w \in Workspace : ~Pending(w)
  BY DEF IInv, Locks, StoppedIsIdle, Pending
<1> QED
  BY <1>1, <1>2, <1>3, <1>4

\* The engine dies: what no restart repairs is marked.
LEMMA Dying ==
    ASSUME IInv, Die, crashes' \in 0..MaxCrashes
    PROVE  IInv'
<1> USE DEF store
<1>1. /\ engine' = "down" /\ pc' = [t \in Thread |-> Idle] /\ held' = [w \in Workspace |-> NoBytes]
      /\ stale' = {} /\ claimed' = "no"
      /\ undone' = undone \cup {w \in Workspace : StartCut(w)}
      /\ left' = left \cup {w \in Workspace : ResetCut(w)}
      /\ torn' = torn \cup {w \in Workspace : LedgerCut(w)}
      /\ UNCHANGED <<store, chain, files, ledger, recorded>>
  BY DEF Die
<1>2. \A t \in Thread : pc'[t] = Idle /\ pc'[t].step = "idle" /\ pc'[t] \in Call
  BY <1>1, IdleThreads
<1>3. TypeOK'
  BY <1>1, <1>2 DEF IInv, TypeOK
<1>4. Locks'
  BY <1>1, <1>2
     DEF Locks, OneRun, OneGuard, Guards, Guarding, StoppedIsIdle, ClaimedIsQuiet, HeldByAReset,
         Holds, Running
<1>5. RunsTheLast'
  <2>1. PendingIsLast'
    BY <1>1 DEF IInv, RunsTheLast, PendingIsLast
  <2>2. \A t \in Thread : ~InAttempt(t)'
    BY <1>2 DEF InAttempt, Unjudged
  <2> QED
    BY <2>1, <2>2 DEF RunsTheLast
<1>6. TreeIsApproved'
  BY <1>2 DEF TreeIsApproved, At
<1>7. HeadIs'
  <2> SUFFICES ASSUME NEW w \in Workspace PROVE HeadOf(w)'
    BY DEF HeadIs
  <2>1. HeadOf(w)
    BY DEF IInv, HeadIs
  <2>2. Pending(w)' <=> Pending(w)
    BY <1>1 DEF Pending
  <2>3. Dirty(w)' <=> Pending(w)
    BY <1>1, <1>2, <2>2 DEF Dirty, At
  <2>4. Pending(w) => Dirty(w) \/ StartCut(w)
    BY DEF Dirty, StartCut
  <2>5. Dirty(w) => Pending(w) \/ ResetCut(w)
    <3>1. ASSUME NEW t \in Thread, pc[t].step \in {"committed", "executing", "ended"}, pc[t].ws = w
          PROVE  Pending(w)
      BY <3>1, Runner DEF AttemptOf, Pending, Unjudged
    <3> QED
      BY <3>1 DEF Dirty, ResetCut, At
  <2> QED
    BY <1>1, <2>1, <2>3, <2>4, <2>5, HeadKept
<1>8. RowsAreOnce'
  BY <1>1 DEF IInv, RowsAreOnce
<1>9. RowsAreRecorded'
  <2> SUFFICES ASSUME NEW w \in Workspace \ torn'
               PROVE  ToSet(IF held'[w] = NoBytes THEN ledger'[w] ELSE held'[w]) = recorded'[w]
    BY DEF RowsAreRecorded
  <2>1. w \notin torn /\ held[w] = NoBytes
    BY <1>1 DEF LedgerCut
  <2> QED
    BY <1>1, <2>1 DEF IInv, RowsAreRecorded
<1> QED
  BY <1>3, <1>4, <1>5, <1>6, <1>7, <1>8, <1>9 DEF IInv

\* Startup interrupts the attempt left running, and its workspace is stale.
LEMMA Restarting == ASSUME IInv, Restart PROVE IInv'
<1> DEFINE n == Len(verdict)
<1> USE DEF git, ghosts, marks
<1>1. /\ engine = "down" /\ engine' = "recovering"
      /\ verdict' = [a \in DOMAIN verdict |->
                        IF verdict[a] = "pending" THEN "rejected" ELSE verdict[a]]
      /\ stale' = {w \in Workspace : Pending(w)}
      /\ UNCHANGED <<spent, owner, git, pc, claimed, crashes, ghosts>>
  BY DEF Restart
<1>2. /\ claimed = "no" /\ stale = {} /\ \A w \in Workspace : held[w] = NoBytes
      /\ \A t \in Thread : pc[t] = Idle /\ pc[t].step = "idle"
  BY <1>1, Stopped
<1>3. /\ verdict \in Seq({"pending", "kept", "rejected"}) /\ n \in Nat /\ DOMAIN verdict = 1..n
      /\ DOMAIN owner = 1..n
  BY DEF IInv, TypeOK
<1>4. /\ verdict' \in Seq({"pending", "kept", "rejected"}) /\ Len(verdict') = n
      /\ DOMAIN verdict' = DOMAIN verdict
  BY <1>1, <1>3
<1>5. /\ \A a \in DOMAIN verdict : verdict'[a] # "pending"
      /\ \A a \in DOMAIN verdict : verdict'[a] = "kept" <=> verdict[a] = "kept"
  BY <1>1
<1> HIDE DEF n
<1>6. TypeOK'
  BY <1>1, <1>3, <1>4 DEF IInv, TypeOK, n
<1>7. Locks'
  BY <1>1, <1>2, <1>4, <1>5
     DEF IInv, Locks, OneRun, OneGuard, Guards, StoppedIsIdle, ClaimedIsQuiet, HeldByAReset, Holds
<1>8. RunsTheLast'
  <2>1. PendingIsLast'
    BY <1>4, <1>5 DEF PendingIsLast
  <2>2. \A t \in Thread : ~InAttempt(t)'
    BY <1>1, <1>2 DEF InAttempt, Unjudged
  <2> QED
    BY <2>1, <2>2 DEF RunsTheLast
<1>9. TreeIsApproved'
  BY <1>1, <1>2 DEF TreeIsApproved, At
<1>10. HeadIs'
  <2> SUFFICES ASSUME NEW w \in Workspace PROVE HeadOf(w)'
    BY DEF HeadIs
  <2>1. HeadOf(w)
    BY DEF IInv, HeadIs
  <2>2. /\ (InOrder(w)' <=> InOrder(w)) /\ OnChain(w)' = OnChain(w)
        /\ Last(chain[w])' = Last(chain[w])
    BY <1>1 DEF InOrder, OnChain, Last
  <2>3. Kept(w)' = Kept(w)
    <3>1. Kept(w)' = {b \in 1..n : owner[b] = w /\ verdict'[b] = "kept"}
      BY <1>1, <1>3 DEF Kept, Owned
    <3>2. Kept(w) = {b \in 1..n : owner[b] = w /\ verdict[b] = "kept"}
      BY <1>3 DEF Kept, Owned
    <3> QED
      BY <1>3, <1>5, <3>1, <3>2
  <2>4. ~Pending(w)' /\ Len(verdict') = Len(verdict)
    BY <1>4, <1>5 DEF Pending, n
  <2>5. (Dirty(w)' <=> Pending(w)) /\ (Dirty(w) <=> Pending(w))
    BY <1>1, <1>2, <2>4 DEF Dirty, At
  <2>6. Ordered(w)'
    BY <1>1, <2>1, <2>2, <2>4 DEF HeadOf, Ordered
  <2>7. w \notin undone => HasTheKept(w)'
    BY <1>1, <2>1, <2>2, <2>3, <2>4, <2>5 DEF HeadOf, HasTheKept
  <2>8. w \notin left => HasOnlyTheKept(w)'
    BY <1>1, <2>1, <2>2, <2>3, <2>4, <2>5 DEF HeadOf, HasOnlyTheKept
  <2> QED
    BY <1>1, <2>6, <2>7, <2>8 DEF HeadOf
<1>11. RowsAreOnce' /\ RowsAreRecorded'
  BY <1>1 DEF IInv, RowsAreOnce, RowsAreRecorded
<1> QED
  BY <1>6, <1>7, <1>8, <1>9, <1>10, <1>11 DEF IInv

\* Startup is done with a workspace.
LEMMA RecoveryEnds ==
    ASSUME IInv, NEW w0 \in Workspace, w0 \in stale, stale' = stale \ {w0},
           UNCHANGED <<store, pc, engine, claimed, crashes, chain, files, recorded, undone>>,
           left \subseteq left', left' \subseteq Workspace, torn' \subseteq Workspace,
           ledger' \in [Workspace -> Seq(AttemptId)],
           held' \in [Workspace -> Seq(AttemptId) \cup {NoBytes}],
           held'[w0] = NoBytes,
           \A x \in Workspace : x # w0 => ledger'[x] = ledger[x] /\ held'[x] = held[x],
           held[w0] = NoBytes => w0 \in left' \/ ~(Len(chain[w0]) > 1),
           RowsAreOnce', RowsAreRecorded'
    PROVE  IInv'
<1> USE DEF store
<1>1. /\ engine = "recovering" /\ claimed = "no" /\ stale \subseteq Workspace
      /\ \A t \in Thread : pc[t] = Idle /\ pc[t].step = "idle"
      /\ \A w \in Workspace : ~Pending(w)
  <2>1. engine = "recovering"
    BY DEF IInv, Locks, StoppedIsIdle
  <2> QED
    BY <2>1, Stopped DEF IInv, TypeOK
<1>2. TypeOK'
  BY DEF IInv, TypeOK
<1>3. OneRun' /\ OneGuard' /\ StoppedIsIdle' /\ ClaimedIsQuiet'
  BY <1>1 DEF IInv, Locks, OneRun, OneGuard, Guards, StoppedIsIdle, ClaimedIsQuiet
<1>4. HeldByAReset'
  <2>1. \A u \in Thread, x \in Workspace : ~Holds(u, x)' /\ ~Holds(u, x)
    BY <1>1 DEF Holds
  <2> SUFFICES ASSUME NEW x \in Workspace, held'[x] # NoBytes PROVE x \in stale'
    BY <2>1 DEF HeldByAReset
  <2> QED
    BY <2>1 DEF IInv, Locks, HeldByAReset
<1>5. RunsTheLast'
  <2>1. PendingIsLast'
    BY DEF IInv, RunsTheLast, PendingIsLast
  <2>2. \A t \in Thread : ~InAttempt(t)'
    BY <1>1 DEF InAttempt, Unjudged
  <2> QED
    BY <2>1, <2>2 DEF RunsTheLast
<1>6. TreeIsApproved'
  BY <1>1 DEF TreeIsApproved, At
<1>7. HeadIs'
  <2> SUFFICES ASSUME NEW w \in Workspace PROVE HeadOf(w)'
    BY DEF HeadIs
  <2>1. HeadOf(w)
    BY DEF IInv, HeadIs
  <2>2. ~Pending(w)' /\ ~Pending(w)
    BY <1>1 DEF Pending
  <2>3. /\ Dirty(w) <=> w \in stale /\ held[w] = NoBytes
        /\ Dirty(w)' <=> w \in stale' /\ held'[w] = NoBytes
    BY <1>1, <2>2 DEF Dirty
  <2>4. CASE w # w0
    BY <2>1, <2>3, <2>4, HeadKept
  <2>5. CASE w = w0 /\ (held[w] # NoBytes \/ w \in left')
    BY <2>1, <2>2, <2>3, <2>5, HeadKept
  <2>6. CASE w = w0 /\ ~(Len(chain[w]) > 1)
    <3>1. OnChain(w)' = OnChain(w) /\ OnChain(w) = {}
      <4>1. 2..Len(chain[w]) = {}
        BY <2>6, LastOf DEF IInv
      <4> QED
        BY <4>1 DEF OnChain
    <3>2. (InOrder(w)' <=> InOrder(w)) /\ Kept(w)' = Kept(w)
      BY DEF InOrder, Kept, Owned
    <3>3. Ordered(w)'
      BY <2>1, <2>2, <3>2 DEF HeadOf, Ordered
    <3>4. w \notin undone => HasTheKept(w)'
      BY <2>1, <2>3, <2>6, <3>1, <3>2 DEF HeadOf, HasTheKept
    <3>5. HasOnlyTheKept(w)'
      BY <3>1 DEF HasOnlyTheKept
    <3> QED
      BY <3>3, <3>4, <3>5 DEF HeadOf
  <2> QED
    BY <2>4, <2>5, <2>6
<1> QED
  BY <1>2, <1>3, <1>4, <1>5, <1>6, <1>7 DEF IInv, Locks

\* Startup resets a workspace: git reset --hard HEAD~1.
LEMMA Recovering == ASSUME IInv, NEW w0 \in Workspace, Recover(w0) PROVE IInv'
<1> USE DEF store
<1>1. /\ w0 \in stale /\ held[w0] = NoBytes
      /\ IF Len(chain[w0]) > 1
         THEN RollBack(w0) /\ UNCHANGED stale
         ELSE stale' = stale \ {w0} /\ UNCHANGED git
      /\ UNCHANGED <<store, pc, engine, claimed, crashes, recorded, undone, left, torn>>
  BY DEF Recover, ghosts, marks
<1>2. /\ engine = "recovering" /\ claimed = "no" /\ stale \subseteq Workspace
      /\ \A t \in Thread : pc[t] = Idle /\ pc[t].step = "idle"
      /\ \A w \in Workspace : ~Pending(w)
  <2>1. engine = "recovering"
    BY <1>1 DEF IInv, Locks, StoppedIsIdle
  <2> QED
    BY <2>1, Stopped DEF IInv, TypeOK
<1>3. CASE Len(chain[w0]) > 1
  <2>1. RollBack(w0) /\ stale' = stale
    BY <1>1, <1>3
  <2>2. TypeOK'
    BY <1>1, <2>1, RolledBack DEF IInv, TypeOK
  <2>3. OneRun' /\ OneGuard' /\ StoppedIsIdle' /\ ClaimedIsQuiet'
    BY <1>1, <1>2, <2>1
       DEF IInv, Locks, OneRun, OneGuard, Guards, StoppedIsIdle, ClaimedIsQuiet
  <2>4. HeldByAReset'
    <3> SUFFICES ASSUME NEW x \in Workspace
                 PROVE  /\ held'[x] # NoBytes => x \in stale' \/ \E u \in Thread : Holds(u, x)'
                        /\ \A u \in Thread : Holds(u, x)' => held'[x] # NoBytes
      BY DEF HeldByAReset
    <3>1. \A u \in Thread : ~Holds(u, x)' /\ ~Holds(u, x)
      BY <1>1, <1>2 DEF Holds
    <3>2. CASE x = w0
      BY <1>1, <2>1, <3>1, <3>2
    <3>3. CASE x # w0
      BY <2>1, <3>1, <3>3, RolledBack DEF IInv, Locks, HeldByAReset
    <3> QED
      BY <3>2, <3>3
  <2>5. RunsTheLast'
    <3>1. PendingIsLast'
      BY <1>1 DEF IInv, RunsTheLast, PendingIsLast
    <3>2. \A t \in Thread : ~InAttempt(t)'
      BY <1>1, <1>2 DEF InAttempt, Unjudged
    <3> QED
      BY <3>1, <3>2 DEF RunsTheLast
  <2>6. TreeIsApproved'
    BY <1>1, <1>2 DEF TreeIsApproved, At
  <2>7. HeadIs'
    <3> SUFFICES ASSUME NEW w \in Workspace PROVE HeadOf(w)'
      BY DEF HeadIs
    <3>1. HeadOf(w) /\ ~Pending(w)
      BY <1>2 DEF IInv, HeadIs
    <3>2. ~Pending(w)'
      BY <1>1, <1>2 DEF Pending
    <3>3. /\ Dirty(w) <=> w \in stale /\ held[w] = NoBytes
          /\ Dirty(w)' <=> w \in stale' /\ held'[w] = NoBytes
      BY <1>1, <1>2, <3>1, <3>2 DEF Dirty
    <3>4. CASE w = w0
      <4>1. Dirty(w) /\ ~Dirty(w)'
        BY <1>1, <2>1, <3>3, <3>4, RolledBack
      <4> QED
        BY <1>1, <2>1, <3>1, <3>4, <4>1, CandidateGone
    <3>5. CASE w # w0
      <4>1. chain'[w] = chain[w] /\ held'[w] = held[w]
        BY <2>1, <3>5, RolledBack
      <4>2. Dirty(w)' <=> Dirty(w)
        BY <2>1, <3>3, <4>1
      <4> QED
        BY <1>1, <3>1, <4>1, <4>2, HeadKept
    <3> QED
      BY <3>4, <3>5
  <2>8. RowsAreOnce' /\ RowsAreRecorded'
    BY <1>1, <2>1, RowsRolledBack
  <2> QED
    BY <2>2, <2>3, <2>4, <2>5, <2>6, <2>7, <2>8 DEF IInv, Locks
<1>4. CASE ~(Len(chain[w0]) > 1)
  <2>1. stale' = stale \ {w0} /\ UNCHANGED <<chain, files, ledger, held>>
    BY <1>1, <1>4 DEF git
  <2>2. RowsAreOnce' /\ RowsAreRecorded'
    BY <1>1, <2>1 DEF IInv, RowsAreOnce, RowsAreRecorded
  <2>3. /\ ledger' \in [Workspace -> Seq(AttemptId)]
        /\ held' \in [Workspace -> Seq(AttemptId) \cup {NoBytes}]
        /\ left' \subseteq Workspace /\ torn' \subseteq Workspace
    BY <1>1, <2>1 DEF IInv, TypeOK
  <2> QED
    BY <1>1, <1>4, <2>1, <2>2, <2>3, RecoveryEnds
<1> QED
  BY <1>3, <1>4

\* ... and writes its ledger back.
LEMMA Recovers == ASSUME IInv, NEW w0 \in Workspace, Recovered(w0) PROVE IInv'
<1>1. /\ w0 \in stale /\ held[w0] # NoBytes /\ WriteLedgerBack(w0) /\ stale' = stale \ {w0}
      /\ UNCHANGED <<store, pc, engine, claimed, crashes, recorded, undone, left, torn>>
  BY DEF Recovered, ghosts, marks
<1>2. left' \subseteq Workspace /\ torn' \subseteq Workspace
  BY <1>1 DEF IInv, TypeOK
<1>3. /\ ledger' \in [Workspace -> Seq(AttemptId)]
      /\ held' \in [Workspace -> Seq(AttemptId) \cup {NoBytes}]
      /\ ledger'[w0] = held[w0] /\ held'[w0] = NoBytes /\ chain' = chain /\ files' = files
      /\ \A x \in Workspace : x # w0 => ledger'[x] = ledger[x] /\ held'[x] = held[x]
  BY <1>1, WrittenBack
<1>4. RowsAreOnce' /\ RowsAreRecorded'
  BY <1>1, <1>3, RowsBack DEF Bytes
<1> QED
  BY <1>1, <1>2, <1>3, <1>4, RecoveryEnds

\* ... or gives the workspace up, which fails nobody.
LEMMA RecoverRaised == ASSUME IInv, NEW w0 \in Workspace, RecoverRaises(w0) PROVE IInv'
<1>1. /\ w0 \in stale /\ stale' = stale \ {w0}
      /\ UNCHANGED <<store, pc, engine, claimed, crashes>>
  BY DEF RecoverRaises
<1>2. left \subseteq Workspace /\ torn \subseteq Workspace
  BY DEF IInv, TypeOK
<1>3. CASE held[w0] = NoBytes
  <2>1. left' = left \cup {w0} /\ GitRaises(w0)
    BY <1>3 DEF RecoverRaises
  <2>2. w0 \in Workspace /\ w0 \in left' /\ left \subseteq left' /\ left' \subseteq Workspace
    BY <1>2, <2>1
  <2> QED
    BY <1>1, <1>3, <2>1, <2>2, GitRaised, RecoveryEnds
<1>4. CASE held[w0] # NoBytes
  <2>1. LoseLedger(w0) /\ UNCHANGED left
    BY <1>4 DEF RecoverRaises
  <2>2. RowsAreOnce' /\ RowsAreRecorded'
    BY <2>1, LedgerLost, RowsBack
  <2> QED
    BY <1>1, <1>2, <1>4, <2>1, <2>2, LedgerLost, RecoveryEnds
<1> QED
  BY <1>3, <1>4

-----------------------------------------------------------------------------
(* The invariant.                                                          *)

\* Fresh repositories, and an engine that has run nothing.
LEMMA InitHolds == Init => IInv
<1> SUFFICES ASSUME Init PROVE IInv
  OBVIOUS
<1> USE DEF Init, Store!Init
<1>1. PICK c \in Content : /\ files = [w \in Workspace |-> c]
                           /\ chain = [w \in Workspace |-> <<InitialCommit(c)>>]
  OBVIOUS
<1>2. InitialCommit(c) \in Commit /\ InitialCommit(c).attempt = 0 /\ InitialCommit(c).tree.rows = <<>>
  BY DEF InitialCommit, Commit, Tree
<1>3. \A t \in Thread : pc[t] = Idle /\ pc[t].step = "idle" /\ pc[t] \in Call
  BY IdleThreads
<1>4. TypeOK
  <2> HIDE DEF Init
  <2>1. <<InitialCommit(c)>> \in Seq(Commit) /\ <<InitialCommit(c)>> # <<>>
    BY <1>2
  <2>2. chain \in [Workspace -> Seq(Commit)] /\ \A w \in Workspace : chain[w] # <<>>
    BY <1>1, <2>1
  <2>3. files \in [Workspace -> Content]
    BY <1>1
  <2>4. /\ ledger \in [Workspace -> Seq(AttemptId)]
        /\ held \in [Workspace -> Seq(AttemptId) \cup {NoBytes}]
        /\ recorded \in [Workspace -> SUBSET AttemptId]
    BY DEF Init
  <2>5. pc \in [Thread -> Call]
    BY <1>3 DEF Init
  <2>6. /\ spent \in Seq(Nat) /\ verdict \in Seq({"pending", "kept", "rejected"})
        /\ owner \in Seq(Workspace) /\ Len(owner) = Len(verdict)
    BY DEF Init
  <2>7. /\ engine \in {"serving", "recovering", "down"} /\ stale \subseteq Workspace
        /\ claimed \in {"no", "idle", "blind"} /\ crashes \in 0..MaxCrashes
        /\ undone \subseteq Workspace /\ left \subseteq Workspace /\ torn \subseteq Workspace
    <3>1. 0 \in 0..MaxCrashes
      BY RunAssumption
    <3> QED
      BY <3>1 DEF Init
  <2> QED
    BY <2>2, <2>3, <2>4, <2>5, <2>6, <2>7 DEF TypeOK
<1>5. Locks
  BY <1>3
     DEF Locks, OneRun, OneGuard, Guards, Guarding, Running, StoppedIsIdle, ClaimedIsQuiet,
         HeldByAReset, Holds
<1>6. RunsTheLast
  BY <1>3 DEF RunsTheLast, PendingIsLast, InAttempt, Unjudged
<1>7. TreeIsApproved
  BY <1>3 DEF TreeIsApproved, At
<1>8. \A w \in Workspace : chain[w] = <<InitialCommit(c)>> /\ Len(chain[w]) = 1
                           /\ DOMAIN chain[w] = {1} /\ chain[w][1] = InitialCommit(c)
  BY <1>1
<1>9. HeadIs
  <2> SUFFICES ASSUME NEW w \in Workspace PROVE HeadOf(w)
    BY DEF HeadIs
  <2>1. ~Dirty(w) /\ ~Pending(w)
    BY <1>3 DEF Dirty, Pending
  <2>2. InOrder(w)
    BY <1>8 DEF InOrder
  <2>3. OnChain(w) = {}
    BY <1>8 DEF OnChain
  <2>4. Kept(w) = {}
    BY DEF Kept, Owned
  <2>5. Ordered(w)
    BY <1>2, <1>8, <2>1, <2>2 DEF Ordered
  <2> QED
    BY <2>1, <2>3, <2>4, <2>5 DEF HeadOf, HasTheKept, HasOnlyTheKept
<1>10. RowsAreOnce
  BY <1>2, <1>8 DEF RowsAreOnce, IsInjective
<1>11. RowsAreRecorded
  BY DEF RowsAreRecorded, ToSet
<1> QED
  BY <1>4, <1>5, <1>6, <1>7, <1>9, <1>10, <1>11 DEF IInv

\* Nothing changes.
LEMMA Stuttering == IInv /\ UNCHANGED vars => IInv'
<1> SUFFICES ASSUME IInv, UNCHANGED vars PROVE IInv'
  OBVIOUS
<1> USE DEF vars
<1>1. TypeOK' /\ TreeIsApproved' /\ RowsAreOnce' /\ RowsAreRecorded'
  BY DEF IInv, TypeOK, TreeIsApproved, TreeOf, At, RowsAreOnce, RowsAreRecorded
<1>2. Locks'
  BY DEF IInv, Locks, OneRun, OneGuard, Guards, StoppedIsIdle, ClaimedIsQuiet, HeldByAReset, Holds
<1>3. RunsTheLast'
  BY DEF IInv, RunsTheLast, PendingIsLast, InAttempt, AttemptOf
<1>4. HeadIs'
  <2> SUFFICES ASSUME NEW w \in Workspace PROVE HeadOf(w)'
    BY DEF HeadIs
  <2>1. Dirty(w)' <=> Dirty(w)
    BY DEF Dirty, Pending, At
  <2> QED
    BY <2>1, HeadKept DEF IInv, HeadIs
<1> QED
  BY <1>1, <1>2, <1>3, <1>4 DEF IInv

\* A step of a thread that holds locks.
LEMMA Proceeding == ASSUME IInv, NEW t \in Thread, Proceed(t) PROVE IInv'
<1>1. CASE Refuse(t)
  BY <1>1, Refused
<1>2. CASE \E p \in DOMAIN spent : Start(t, p)
  BY <1>2, Starting
<1>3. CASE CommitTree(t)
  BY <1>3, Committing
<1>4. CASE Launch(t)
  BY <1>4, Launched
<1>5. CASE TimeOut(t)
  BY <1>5, Ended
<1>6. CASE \E v \in {"kept", "rejected"} : Finish(t, v)
  BY <1>6, Finishing
<1>7. CASE Fail(t)
  BY <1>7, Failing
<1>8. CASE Reset(t)
  BY <1>8, Resets
<1>9. CASE Restore(t)
  BY <1>9, Restores
<1>10. CASE Record(t)
  BY <1>10, Records
<1>11. CASE PutBackAsked(t)
  BY <1>11, AskedPutBack
<1> QED
  BY <1>1, <1>2, <1>3, <1>4, <1>5, <1>6, <1>7, <1>8, <1>9, <1>10, <1>11 DEF Proceed

\* The invariant survives every step.
LEMMA StepHolds == IInv /\ [Next]_vars => IInv'
<1> SUFFICES ASSUME IInv, [Next]_vars PROVE IInv'
  OBVIOUS
<1>1. CASE Propose
  BY <1>1, Proposing
<1>2. CASE \E t \in Thread : Proceed(t) \/ Refuse(t) \/ ResetAsked(t)
  BY <1>2, Proceeding, Refused, AskedReset
<1>a. CASE \E t \in Thread, p \in DOMAIN spent : StartRaises(t, p)
  BY <1>a, StartRaised
<1>b. CASE \E t \in Thread : Strand(t) \/ ResetRaises(t) \/ RestoreRaises(t) \/ RecordRaises(t)
  <2>1. CASE \E t \in Thread : ResetRaises(t)
    <3>1. PICK t \in Thread : ResetRaises(t)
      BY <2>1
    <3>2. At(t, "resetting") \/ At(t, "decided")
      BY <3>1 DEF ResetRaises, At
    <3> QED
      BY <3>1, <3>2, ResetRaised, AskRaised DEF At
  <2>2. CASE \E t \in Thread : Strand(t) \/ RestoreRaises(t) \/ RecordRaises(t)
    BY <2>2, Stranding, RestoreRaised, RecordRaised
  <2> QED
    BY <1>b, <2>1, <2>2
<1>3. CASE \E t \in Thread, w \in Workspace : \E token \in Tokens(w) : Admit(t, w, token)
  BY <1>3, Admitting
<1>4. CASE \E t \in Thread, ok \in BOOLEAN : ProcessEnds(t, ok)
  BY <1>4, Ended
<1>5. CASE \E t \in Thread, v \in {"kept", "rejected"} : FinishRaises(t, v)
  BY <1>5, Raising
<1>6. CASE \E w \in Workspace, c \in Content : Write(w, c)
  BY <1>6, Writing
<1>7. CASE \E w \in Workspace, a \in DOMAIN verdict : AppendLedger(w, a)
  BY <1>7, Appending
<1>8. CASE \E t \in Thread, w \in Workspace : ReadLatest(t, w)
  BY <1>8, LatestRead
<1>9. CASE Crash
  <2>1. Die /\ crashes' \in 0..MaxCrashes
    BY <1>9, RunAssumption DEF Crash, IInv, TypeOK
  <2> QED
    BY <2>1, Dying
<1>10. CASE ClaimIdle
  BY <1>10, Claiming
<1>11. CASE ShutDown
  <2>1. Die /\ crashes' \in 0..MaxCrashes
    BY <1>11 DEF ShutDown, IInv, TypeOK
  <2> QED
    BY <2>1, Dying
<1>12. CASE Restart
  BY <1>12, Restarting
<1>13. CASE \E w \in Workspace : Recover(w) \/ Recovered(w) \/ RecoverRaises(w)
  BY <1>13, Recovering, Recovers, RecoverRaised
<1>14. CASE Serve
  BY <1>14, Serving
<1>15. CASE UNCHANGED vars
  BY <1>15, Stuttering
<1> QED
  BY <1>1, <1>2, <1>3, <1>4, <1>5, <1>6, <1>7, <1>8, <1>9, <1>10, <1>11, <1>12, <1>13,
     <1>14, <1>15, <1>a, <1>b
     DEF Next

-----------------------------------------------------------------------------
(* The properties.                                                         *)

\* Locks, attempts, trees, repositories and ledgers stay in step through every run,
\* reset, failure, death and recovery.
THEOREM RunnerInvariant == Spec => []IInv
  BY InitHolds, StepHolds, PTL DEF Spec

\* Rows, commits and threads keep their shape, and no reset takes the first commit.
THEOREM RunnerTypes == Spec => []TypeOK
  BY RunnerInvariant, PTL DEF IInv

\* Between runs a workspace's repository is its initial commit and its kept attempts
\* in order: _execute_attempt and startup's recovery reset every other candidate.
\* Kept ones may be missing only where an attempt was left without its commit or a
\* legacy reset was asked (undone), and rejected ones stay only where no reset
\* followed the verdict (left).
THEOREM HeadsAreWinners == Spec => []HeadIsWinner
<1>1. IInv => HeadIsWinner
  <2> SUFFICES ASSUME IInv, NEW w \in Workspace, engine = "serving", GuardFree(w), ~Pending(w)
               PROVE  /\ InOrder(w)
                      /\ w \notin undone => Kept(w) \subseteq OnChain(w)
                      /\ w \notin left => OnChain(w) \subseteq Kept(w)
    BY DEF HeadIsWinner
  <2>1. HeadOf(w) /\ stale = {}
    BY DEF IInv, HeadIs, Locks, StoppedIsIdle
  <2>2. ~Dirty(w)
    BY <2>1 DEF Dirty, GuardFree, Guards, Guarding, Running
  <2> QED
    BY <2>1, <2>2 DEF HeadOf, Ordered, HasTheKept, HasOnlyTheKept
<1> QED
  BY <1>1, RunnerInvariant, PTL

\* _reset_preserving_ledger and append_ledger lose no row and write none twice, in
\* legacy resets too, but for the rows in memory when the engine dies or their write
\* fails (torn).
THEOREM LedgersKeepTheirRows == Spec => []LedgerKeepsItsRows
<1>1. IInv => LedgerKeepsItsRows
  BY DEF IInv, RowsAreOnce, RowsAreRecorded, LedgerKeepsItsRows, Bytes
<1> QED
  BY <1>1, RunnerInvariant, PTL

\* A lease is spent and a candidate kept only for the tree its client approved: the
\* workspace's lock keeps it as run_experiment compared it, then the commit does.
THEOREM RunsWhatWasApproved == Spec => RunsTheApprovedTree
<1> DEFINE Spends == \A p \in DOMAIN spent : spent'[p] # spent[p] =>
                        \E t \in Thread : At(t, "admitted") /\ pc[t].tree = TreeOf(pc[t].ws)
           Keeps == \A a \in DOMAIN verdict : verdict[a] = "pending" /\ verdict'[a] = "kept" =>
                       \E t \in Thread :
                          /\ At(t, "ended")
                          /\ pc[t].attempt = a
                          /\ Last(chain[owner[a]]) = [attempt |-> a, tree |-> pc[t].tree]
<1>1. IInv /\ [Next]_vars => [Spends /\ Keeps]_vars
  <2> SUFFICES ASSUME IInv, [Next]_vars PROVE Spends /\ Keeps
    OBVIOUS
  <2>1. spent \in Seq(Nat) /\ verdict \in Seq({"pending", "kept", "rejected"})
    BY DEF IInv, TypeOK
  <2>2. ASSUME NEW t \in Thread, NEW q \in DOMAIN spent, Start(t, q) \/ StartRaises(t, q)
        PROVE  Spends /\ Keeps
    <3>1. Spends
      BY <2>2 DEF Start, StartRaises, IInv, TreeIsApproved
    <3>2. verdict' = Append(verdict, "pending")
      BY <2>2 DEF Start, StartRaises, Store!Spend
    <3>3. \A a \in DOMAIN verdict : verdict'[a] = verdict[a]
      BY <2>1, <3>2
    <3> QED
      BY <3>1, <3>3
  <2>3. ASSUME NEW t \in Thread, NEW v \in {"kept", "rejected"},
               pc[t].step \in Unjudged, v = "kept" => At(t, "ended"),
               Store!Decide(pc[t].attempt, v)
        PROVE  Spends /\ Keeps
    <3> DEFINE b == pc[t].attempt
    <3>1. spent' = spent /\ verdict' = [verdict EXCEPT ![b] = v]
      BY <2>3 DEF Store!Decide
    <3>2. \A a \in DOMAIN verdict : verdict[a] # verdict'[a] => a = b /\ verdict'[a] = v
      BY <2>1, <3>1
    <3>3. ASSUME v = "kept"
          PROVE  At(t, "ended") /\ Last(chain[owner[b]]) = [attempt |-> b, tree |-> pc[t].tree]
      <4>1. At(t, "ended") /\ owner[b] = pc[t].ws /\ pc[t].ws \in Workspace
        BY <2>3, <3>3, Runner DEF AttemptOf
      <4>2. Last(chain[owner[b]]).attempt = b /\ Last(chain[owner[b]]).tree = pc[t].tree
        BY <4>1 DEF IInv, TreeIsApproved, At
      <4>3. Last(chain[owner[b]]) \in Commit
        BY <4>1, LastOf DEF IInv
      <4> QED
        BY <4>1, <4>2, <4>3 DEF Commit
    <3> HIDE DEF b
    <3>4. Keeps
      BY <3>2, <3>3 DEF b
    <3> QED
      BY <3>1, <3>4
  <2>4. ASSUME spent' = spent \/ spent' = Append(spent, 0),
               \A a \in DOMAIN verdict : verdict'[a] = "kept" => verdict[a] = "kept"
        PROVE  Spends /\ Keeps
    <3>1. \A p \in DOMAIN spent : Append(spent, 0)[p] = spent[p]
      BY <2>1
    <3>2. Spends
      BY <2>4, <3>1
    <3>3. \A a \in DOMAIN verdict : verdict[a] = "pending" => verdict'[a] # "kept"
      BY <2>4
    <3> QED
      BY <3>2, <3>3
  <2>5. CASE \E t \in Thread, q \in DOMAIN spent : Start(t, q) \/ StartRaises(t, q)
    BY <2>2, <2>5
  <2>6. CASE \E t \in Thread, v \in {"kept", "rejected"} : Finish(t, v) \/ FinishRaises(t, v)
    <3>1. PICK t \in Thread, v \in {"kept", "rejected"} : Finish(t, v) \/ FinishRaises(t, v)
      BY <2>6
    <3>2. /\ pc[t].step \in Unjudged /\ (v = "kept" => At(t, "ended"))
          /\ Store!Decide(pc[t].attempt, v)
      BY <3>1 DEF Finish, FinishRaises, At, Unjudged
    <3> QED
      BY <2>3, <3>2
  <2>7. CASE \E t \in Thread : Fail(t)
    BY <2>3, <2>7 DEF Fail, Unjudged
  <2>8. CASE Propose
    BY <2>4, <2>8 DEF Propose, Store!Issue
  <2>9. CASE Restart
    <3>1. spent' = spent
      BY <2>9 DEF Restart
    <3>2. \A a \in DOMAIN verdict : verdict'[a] = "kept" => verdict[a] = "kept"
      BY <2>9 DEF Restart
    <3> QED
      BY <2>4, <3>1, <3>2
  <2>10. CASE UNCHANGED <<spent, verdict>>
    BY <2>4, <2>10
  <2>11. \/ \E t \in Thread, q \in DOMAIN spent : Start(t, q) \/ StartRaises(t, q)
         \/ \E t \in Thread, v \in {"kept", "rejected"} : Finish(t, v) \/ FinishRaises(t, v)
         \/ \E t \in Thread : Fail(t)
         \/ Propose
         \/ Restart
         \/ UNCHANGED <<spent, verdict>>
    <3>1. CASE \E t \in Thread : Proceed(t)
      BY <3>1
         DEF Proceed, Refuse, CommitTree, Launch, TimeOut, Reset, Restore, Record, PutBackAsked,
             store
    <3>2. CASE \E t \in Thread : \/ Refuse(t) \/ Strand(t) \/ ResetRaises(t) \/ RestoreRaises(t)
                                \/ RecordRaises(t) \/ ResetAsked(t)
      BY <3>2 DEF Refuse, Strand, ResetRaises, RestoreRaises, RecordRaises, ResetAsked, store
    <3>3. CASE \E t \in Thread, w \in Workspace :
                  ReadLatest(t, w) \/ \E token \in Tokens(w) : Admit(t, w, token)
      BY <3>3 DEF ReadLatest, Admit, store
    <3>4. CASE \/ \E w \in Workspace, c \in Content : Write(w, c)
               \/ \E w \in Workspace, a \in DOMAIN verdict : AppendLedger(w, a)
               \/ \E t \in Thread, ok \in BOOLEAN : ProcessEnds(t, ok)
      BY <3>4 DEF Write, AppendLedger, ProcessEnds, store
    <3>5. CASE Crash \/ ShutDown \/ ClaimIdle \/ Serve
      BY <3>5 DEF Crash, ShutDown, ClaimIdle, Serve, Die, store
    <3>6. CASE \E w \in Workspace : Recover(w) \/ Recovered(w) \/ RecoverRaises(w)
      BY <3>6 DEF Recover, Recovered, RecoverRaises, store
    <3> QED
      BY <3>1, <3>2, <3>3, <3>4, <3>5, <3>6 DEF Next, vars
  <2> HIDE DEF Spends, Keeps
  <2> QED
    BY <2>5, <2>6, <2>7, <2>8, <2>9, <2>10, <2>11
<1> QED
  BY <1>1, RunnerInvariant, PTL DEF RunsTheApprovedTree, Spec

\* _claim_idle_for_shutdown holds _RUN_LOCK from its check of the store to the end
\* of the engine, so the engine never stops under a run, nor with an attempt pending
\* unless the check could not query the store.
THEOREM ShutdownsCutNoRun == Spec => ShutdownCutsNoRun
<1>1. IInv => (ShutDown => /\ \A t \in Thread : pc[t].step \notin Running
                           /\ claimed = "idle" => \A a \in DOMAIN verdict : verdict[a] # "pending")
  BY DEF IInv, Locks, ClaimedIsQuiet, ShutDown
<1> QED
  BY <1>1, RunnerInvariant, PTL DEF ShutdownCutsNoRun
=============================================================================
