------------------------------ MODULE RowLocks -------------------------------
(* PostgreSQL's row-level locks, as the repository's SQL takes them.  A lock is
   a function from processes to the level each holds on the row; the levels are
   numbered so that two of them conflict exactly when they add up to more than
   Update.
     KeyShare     the foreign-key check of an INSERT that references the row
     Share        SELECT ... FOR SHARE
     NoKeyUpdate  UPDATE that leaves the key alone
     Update       DELETE, SELECT ... FOR UPDATE, and an INSERT not committed yet
   Requests for a compatible level never queue behind a waiting stronger one. *)
EXTENDS Naturals

Unlocked    == 0
KeyShare    == 1
Share       == 2
NoKeyUpdate == 3
Update      == 4

LockLevels == Unlocked .. Update

Conflicts(m, n) == m + n > Update

\* The documented conflict table, row by row: what each level waits for.
ASSUME ConflictTable ==
    /\ {n \in LockLevels : Conflicts(Unlocked, n)}    = {}
    /\ {n \in LockLevels : Conflicts(KeyShare, n)}    = {Update}
    /\ {n \in LockLevels : Conflicts(Share, n)}       = {NoKeyUpdate, Update}
    /\ {n \in LockLevels : Conflicts(NoKeyUpdate, n)} = {Share, NoKeyUpdate, Update}
    /\ {n \in LockLevels : Conflicts(Update, n)}      = LockLevels \ {Unlocked}

\* The other processes whose locks make p wait for level m.
Blockers(lock, p, m) == {q \in DOMAIN lock \ {p} : Conflicts(m, lock[q])}

\* Mutant: a second lock of one transaction adds up with the first.
GrantedStacked(lock, p, m) == [lock EXCEPT ![p] = @ + m]

\* The row after p was granted level m: a transaction never weakens its lock.
Granted(lock, p, m) == [lock EXCEPT ![p] = IF m > @ THEN m ELSE @]

\* The row after p's transaction ended.
Released(lock, p) == [lock EXCEPT ![p] = Unlocked]
=============================================================================
