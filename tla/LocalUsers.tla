----------------------------- MODULE LocalUsers -----------------------------
(***************************************************************************)
(* The copy of the shared table of users in this application's database    *)
(* (model.py, LocalUser, update_local_tables) for one interest.  The pages *)
(* take for granted that a user has one row of it.                         *)
(*                                                                         *)
(* An earlier release of the library looked for rows to update among the   *)
(* active ones only, and added a row whenever it found none.  A migration  *)
(* (c144e7fbb0d0) removes such rows before the workers start; since then   *)
(* an update looks at all rows, and holds a lock file, because the workers *)
(* update the table when they start and after edits of users.              *)
(***************************************************************************)
EXTENDS Naturals, Functions

CONSTANTS
    People,         \* users with the interest (User)
    Workers,        \* gunicorn workers
    MaxRow,         \* bound: ids of rows
    MaxEdits        \* bound: edits of users

ASSUME LocalAssumption == MaxRow \in Nat /\ MaxEdits \in Nat

VARIABLES
    account,        \* User: user -> active
    localuser,      \* LocalUser: id -> [user, active]
    referenced,     \* ids that other tables refer to
    release,        \* "old", "upgrading", "new"
    upgraded,       \* alembic_version: the migration is done
    worker,         \* worker -> what it does
    ambiguous,      \* history: users whose rows the migration left alone
    due,            \* history: users who changed since an update that ended had begun
    numEdits

localVars == <<account, localuser, referenced, release, upgraded, worker, ambiguous, due, numEdits>>

-----------------------------------------------------------------------------
RowOf(table, u) == {i \in DOMAIN table : table[i].user = u}
RowsOf(u) == RowOf(localuser, u)
Referenced(u) == RowsOf(u) \intersect referenced
Active(u) == {i \in RowsOf(u) : localuser[i].active}

RowIds == 1 .. MaxRow

(* The ids a row may get that is inserted; transactions that are rolled back leave gaps. *)
FreshIds == {i \in RowIds : \A j \in DOMAIN localuser : i > j}

(* The table with rows for the users of new, a function to fresh ids. *)
WithRows(table, new, active) ==
    [i \in DOMAIN table \union Range(new) |->
       IF i \in DOMAIN table THEN table[i]
       ELSE LET u == CHOOSE u \in DOMAIN new : new[u] = i IN [user |-> u, active |-> active[u]]]

(* The table with the rows I as active as their users. *)
Refreshed(table, I, active) ==
    [i \in DOMAIN table |-> IF i \in I THEN [table[i] EXCEPT !.active = active[table[i].user]] ELSE table[i]]

(* Row i is kept rather than row j. *)
Ranked(i, j) ==
    \/ i \in referenced /\ j \notin referenced
    \/ (i \in referenced <=> j \in referenced) /\ localuser[i].active /\ ~localuser[j].active
    \/ (i \in referenced <=> j \in referenced) /\ localuser[i].active = localuser[j].active /\ i < j

Several(I) == \E i, j \in I : i # j

Unclear(u) == Several(Referenced(u)) \/ Several(Active(u))

ToDelete == {i \in DOMAIN localuser :
               /\ ~Unclear(localuser[i].user)
               /\ \E j \in RowsOf(localuser[i].user) \ {i} : Ranked(j, i)}

-----------------------------------------------------------------------------
LocalInit ==
    /\ account \in [People -> BOOLEAN]
    /\ localuser = [i \in {} |-> {}] /\ referenced = {}
    /\ release = "old" /\ upgraded = FALSE /\ worker = [w \in Workers |-> [stage |-> "down"]]
    /\ ambiguous = {} /\ due = People /\ numEdits = 0

(* Someone is made active or inactive, here or in another application. *)
EditUser(u) ==
    /\ numEdits < MaxEdits /\ numEdits' = numEdits + 1
    /\ account' = [account EXCEPT ![u] = ~@]
    /\ due' = due \union {u}
    /\ worker' = [w \in Workers |-> IF worker[w].stage = "updating"
                                    THEN [worker[w] EXCEPT !.late = @ \union {u}] ELSE worker[w]]
    /\ UNCHANGED <<localuser, referenced, release, upgraded, ambiguous>>

(* A position, a task, a meeting is given to an active user. *)
Refer(i) ==
    /\ release # "upgrading" /\ localuser[i].active
    /\ referenced' = referenced \union {i}
    /\ UNCHANGED <<account, localuser, release, upgraded, worker, ambiguous, due, numEdits>>

(* The update of the earlier release. *)
UpdateOld(u) ==
    /\ release = "old"
    /\ IF Active(u) = {}
       THEN \E i \in FreshIds : localuser' = WithRows(localuser, [v \in {u} |-> i], account)
       ELSE localuser' = Refreshed(localuser, Active(u), account)
    /\ UNCHANGED <<account, referenced, release, upgraded, worker, ambiguous, due, numEdits>>

(* The containers stop, of this release or the one before it. *)
StopAll ==
    /\ release # "upgrading" /\ release' = "upgrading"
    /\ worker' = [w \in Workers |-> [stage |-> "down"]]
    /\ UNCHANGED <<account, localuser, referenced, upgraded, ambiguous, due, numEdits>>

(* flask db upgrade: the migration, the first time; the workers start after *)
(* it, even if it failed.                                                   *)
Dedup ==
    /\ release = "upgrading" /\ release' = "new"
    /\ ~upgraded /\ upgraded' = TRUE
    /\ localuser' = Restrict(localuser, DOMAIN localuser \ ToDelete)
    /\ ambiguous' = {u \in People : Unclear(u)}
    /\ due' = People
    /\ UNCHANGED <<account, referenced, worker, numEdits>>

StartAnyway ==
    /\ release = "upgrading" /\ release' = "new"
    /\ UNCHANGED <<account, localuser, referenced, upgraded, worker, ambiguous, due, numEdits>>

(* A worker starts, or a page has edited users: it waits for the lock file. *)
AskForUpdate(w) ==
    /\ release = "new" /\ worker[w].stage \in {"down", "up"}
    /\ worker' = [worker EXCEPT ![w] = [stage |-> "waiting"]]
    /\ UNCHANGED <<account, localuser, referenced, release, upgraded, ambiguous, due, numEdits>>

(* Mutation: the lock file is not taken. *)
LockAnyway(w) == worker[w].stage = "waiting"

LockFree(w) == worker[w].stage = "waiting" /\ \A v \in Workers : worker[v].stage # "updating"

StartUpdate(w) ==
    /\ LockFree(w)
    /\ worker' = [worker EXCEPT ![w] = [stage |-> "updating", users |-> account,
                                        rows |-> localuser, late |-> {}]]
    /\ UNCHANGED <<account, localuser, referenced, release, upgraded, ambiguous, due, numEdits>>

(* The users who have a row in a table, and the one that an update finds for each. *)
Found(table) == {u \in People : RowOf(table, u) # {}}

Latest(table) == {CHOOSE i \in RowOf(table, u) : \A j \in RowOf(table, u) : j <= i : u \in Found(table)}

(* Who had a row when the update began has it updated, the others get one. *)
CommitUpdate(w) ==
    /\ worker[w].stage = "updating"
    /\ \E new \in [People \ Found(worker[w].rows) -> FreshIds] :
         /\ IsInjective(new)
         /\ localuser' = WithRows(Refreshed(localuser, Latest(worker[w].rows), worker[w].users),
                                 new, worker[w].users)
    /\ due' = worker[w].late
    /\ worker' = [worker EXCEPT ![w] = [stage |-> "up"]]
    /\ UNCHANGED <<account, referenced, release, upgraded, ambiguous, numEdits>>

(* A worker ends: the system frees the lock, the database rolls back. *)
WorkerEnds(w) ==
    /\ worker[w].stage # "down"
    /\ worker' = [worker EXCEPT ![w] = [stage |-> "down"]]
    /\ UNCHANGED <<account, localuser, referenced, release, upgraded, ambiguous, due, numEdits>>

LocalNext ==
    \/ \E u \in People : EditUser(u) \/ UpdateOld(u)
    \/ \E i \in DOMAIN localuser : Refer(i)
    \/ StopAll \/ Dedup \/ StartAnyway
    \/ \E w \in Workers : AskForUpdate(w) \/ StartUpdate(w) \/ CommitUpdate(w) \/ WorkerEnds(w)

LocalSpec == LocalInit /\ [][LocalNext]_localVars

-----------------------------------------------------------------------------
(* No row is removed that something refers to.  Once the migration is done, *)
(* a user whose rows it could tell apart never has two again, and has one,  *)
(* as active as the user, unless the user changed after the last update had *)
(* begun: what the pages look up with one().                                *)
OneLocalUser ==
    /\ referenced \subseteq DOMAIN localuser
    /\ upgraded => \A u \in People \ ambiguous :
         /\ ~ Several(RowsOf(u))
         /\ u \notin due => \E i \in RowsOf(u) : localuser[i].active = account[u]
=============================================================================
