-------------------------------- MODULE PgPool --------------------------------
(***************************************************************************)
(* The wrapper of the asyncpg pool (db/pool.py): opening and closing it,    *)
(* checkouts under a tenant, the gauge of connections in use.  asyncpg is   *)
(* external: an open pool hands out each of its connections to one task at *)
(* a time, sets a new connection up once (init), resets a connection that  *)
(* is returned (RESET ALL) or terminates it, and closes when all have been *)
(* returned.  Everything between two awaits is one step.                   *)
(***************************************************************************)
EXTENDS Integers

CONSTANTS
  Tasks,
  Closers,    \* the tasks that may call aclose
  Tenants,
  Default,    \* default_tenant
  MaxSize,    \* connections of a pool
  MaxPools,   \* bound: asyncpg pools created
  MaxGauge    \* bound: checkouts wait while the gauge is at it

ASSUME PgPoolAssumption ==
  /\ Closers \subseteq Tasks
  /\ Default \in Tenants /\ Tenants \cap {"new", "unset", "health"} = {}
  /\ MaxSize \in Nat \ {0} /\ MaxPools \in Nat /\ MaxGauge \in Nat

Pools == 1..MaxPools

None == 0

Connections == Pools \X (1..MaxSize)

NoConnection == <<None, None>>

VARIABLES
  pool,           \* _pool, or None
  connect_lock,   \* the task that is creating a pool, if one is: at most one
  shutting_down,
  in_use,         \* the gauge db_pool_in_use
  status,         \* of each asyncpg pool: "none", "open", "closing", "closed"
  setting,        \* app.current_tenant of each connection, "new" or "unset"
  pc,             \* of each task
  mine,           \* the asyncpg pool a task works on
  held,           \* the connection of each task
  asked           \* the tenant it asked for, "health" for health()

asyncpg == <<status, setting>>

task == <<mine, held, asked>>

vars == <<pool, connect_lock, shutting_down, in_use, asyncpg, pc, task>>

Labels == {"idle", "lock", "creating", "waiting", "setting", "using",
           "restoring", "releasing", "closing"}

TypeOK ==
  /\ pool \in Pools \cup {None}
  /\ connect_lock \subseteq Tasks /\ shutting_down \in BOOLEAN /\ in_use \in Int
  /\ status \in [Pools -> {"none", "open", "closing", "closed"}]
  /\ setting \in [Connections -> Tenants \cup {"new", "unset"}]
  /\ pc \in [Tasks -> Labels]
  /\ mine \in [Tasks -> Pools \cup {None}]
  /\ held \in [Tasks -> Connections \cup {NoConnection}]
  /\ asked \in [Tasks -> Tenants \cup {"health"}]

Init ==
  /\ pool = None /\ connect_lock = {} /\ shutting_down = FALSE /\ in_use = 0
  /\ status = [p \in Pools |-> "none"]
  /\ setting = [c \in Connections |-> "new"]
  /\ pc = [t \in Tasks |-> "idle"]
  /\ mine = [t \in Tasks |-> None]
  /\ held = [t \in Tasks |-> NoConnection]
  /\ asked = [t \in Tasks |-> Default]

Goto(t, label) == pc' = [pc EXCEPT ![t] = label]

\* The task is done with its pool and its connection.
Leaves(t) ==
  /\ Goto(t, "idle")
  /\ mine' = [mine EXCEPT ![t] = None]
  /\ held' = [held EXCEPT ![t] = NoConnection]
  /\ asked' = [asked EXCEPT ![t] = Default]

-------------------------------------------------------------------------------
(* connect                                                                  *)

Connect(t) ==
  /\ pc[t] = "idle" /\ pool = None
  /\ Goto(t, "lock")
  /\ UNCHANGED <<pool, connect_lock, shutting_down, in_use, asyncpg, task>>

\* The second look, under the lock.
Locked(t) ==
  /\ pc[t] = "lock" /\ connect_lock = {}
  /\ IF pool = None
     THEN connect_lock' = {t} /\ Goto(t, "creating")
     ELSE Goto(t, "idle") /\ UNCHANGED connect_lock
  /\ UNCHANGED <<pool, shutting_down, in_use, asyncpg, task>>

\* create_pool has returned. The shutdown flag is not looked at, nor cleared.
Created(t, p) ==
  /\ pc[t] = "creating" /\ status[p] = "none"
  /\ status' = [status EXCEPT ![p] = "open"]
  /\ pool' = p /\ connect_lock' = {}
  /\ Goto(t, "idle")
  /\ UNCHANGED <<shutting_down, in_use, setting, task>>

CreateFails(t) ==
  /\ pc[t] = "creating"
  /\ connect_lock' = {}
  /\ Goto(t, "idle")
  /\ UNCHANGED <<pool, shutting_down, in_use, asyncpg, task>>

-------------------------------------------------------------------------------
(* acquire, which execute, fetch, copy_records_to_table and transaction use. *)

\* The gauge is raised first, and stays so when there is no pool.
Acquire(t, tenant) ==
  /\ pc[t] = "idle" /\ ~shutting_down /\ in_use < MaxGauge
  /\ in_use' = in_use + 1
  /\ IF pool = None THEN UNCHANGED <<pc, task>>
     ELSE /\ Goto(t, "waiting")
          /\ mine' = [mine EXCEPT ![t] = pool]
          /\ asked' = [asked EXCEPT ![t] = tenant]
          /\ UNCHANGED held
  /\ UNCHANGED <<pool, connect_lock, shutting_down, asyncpg>>

\* health takes a connection of the pool itself: no gauge, no flag, no tenant.
Health(t) ==
  /\ pc[t] = "idle" /\ pool # None
  /\ Goto(t, "waiting")
  /\ mine' = [mine EXCEPT ![t] = pool]
  /\ asked' = [asked EXCEPT ![t] = "health"]
  /\ UNCHANGED <<pool, connect_lock, shutting_down, in_use, asyncpg, held>>

Free(c) == \A t \in Tasks : held[t] # c

\* (mutant) no override is made.
Overrides_Never(t) == FALSE

\* What a statement SELECT set_config(...) is sent for.
Overrides(t) == asked[t] \in Tenants \ {Default}

\* asyncpg hands over a connection; a new one is set up by _init_connection.
CheckedOut(t, c) ==
  /\ pc[t] = "waiting" /\ c[1] = mine[t] /\ Free(c)
  /\ status[mine[t]] \in {"open", "closing"}
  /\ held' = [held EXCEPT ![t] = c]
  /\ setting' = [setting EXCEPT ![c] = IF @ = "new" THEN Default ELSE @]
  /\ Goto(t, IF Overrides(t) THEN "setting" ELSE "using")
  /\ UNCHANGED <<pool, connect_lock, shutting_down, in_use, status, mine, asked>>

\* The checkout is cancelled, times out or is refused. The gauge stays raised.
CheckoutFails(t) ==
  /\ pc[t] = "waiting"
  /\ Leaves(t)
  /\ UNCHANGED <<pool, connect_lock, shutting_down, in_use, asyncpg>>

\* A statement needs the pool not to have been closed by force.
Alive(t) == status[mine[t]] # "closed"

SetTenant(t) ==
  /\ pc[t] = "setting"
  /\ \/ /\ Alive(t)
        /\ setting' = [setting EXCEPT ![held[t]] = asked[t]]
        /\ Goto(t, "using")
     \/ Goto(t, "releasing") /\ UNCHANGED setting
  /\ UNCHANGED <<pool, connect_lock, shutting_down, in_use, status, task>>

\* The block of the caller ends, with or without an exception.
Used(t) ==
  /\ pc[t] = "using"
  /\ Goto(t, IF Overrides(t) THEN "restoring" ELSE "releasing")
  /\ UNCHANGED <<pool, connect_lock, shutting_down, in_use, asyncpg, task>>

RestoreDefault(t) ==
  /\ pc[t] = "restoring"
  /\ Goto(t, "releasing")
  /\ \/ Alive(t) /\ setting' = [setting EXCEPT ![held[t]] = Default]
     \/ UNCHANGED setting
  /\ UNCHANGED <<pool, connect_lock, shutting_down, in_use, status, task>>

\* asyncpg resets the connection, or terminates it and makes a new one later.
Release(t) ==
  /\ pc[t] = "releasing"
  /\ \E reset \in {"unset", "new"} : setting' = [setting EXCEPT ![held[t]] = reset]
  /\ in_use' = IF asked[t] = "health" THEN in_use ELSE in_use - 1
  /\ Leaves(t)
  /\ UNCHANGED <<pool, connect_lock, shutting_down, status>>

-------------------------------------------------------------------------------
(* aclose                                                                   *)

Aclose(t) ==
  /\ t \in Closers /\ pc[t] = "idle" /\ pool # None
  /\ shutting_down' = TRUE
  /\ status' = [status EXCEPT ![pool] = IF @ = "open" THEN "closing" ELSE @]
  /\ mine' = [mine EXCEPT ![t] = pool]
  /\ Goto(t, "closing")
  /\ UNCHANGED <<pool, connect_lock, in_use, setting, held, asked>>

\* (mutant) the wrapper keeps its reference to the pool it has closed.
Forgotten_KeepsReference(t) == UNCHANGED pool /\ in_use' = 0 /\ Leaves(t)

\* The finally clause.
Forgotten(t) == pool' = None /\ in_use' = 0 /\ Leaves(t)

\* (mutant) the pool is forgotten when the grace period is over, and left open.
GraceOver_NoTerminate(t) ==
  /\ pc[t] = "closing"
  /\ Forgotten(t)
  /\ UNCHANGED <<connect_lock, shutting_down, asyncpg>>

\* (mutant) aclose waits for the connections and for nothing else.
GraceOver_Never(t) == FALSE

\* shutdown_grace_seconds have passed: self._pool is terminated, whichever it
\* is by now (None raises, and the finally clause still runs).
GraceOver(t) ==
  /\ pc[t] = "closing"
  /\ status' = IF pool = None THEN status ELSE [status EXCEPT ![pool] = "closed"]
  /\ Forgotten(t)
  /\ UNCHANGED <<connect_lock, shutting_down, setting>>

\* Every connection of the pool has been returned.
Closed(t) ==
  /\ pc[t] = "closing"
  /\ \A other \in Tasks : held[other][1] # mine[t]
  /\ status' = [status EXCEPT ![mine[t]] = "closed"]
  /\ Forgotten(t)
  /\ UNCHANGED <<connect_lock, shutting_down, setting>>

Next ==
  \E t \in Tasks :
    \/ Connect(t) \/ Locked(t) \/ CreateFails(t)
    \/ \E p \in Pools : Created(t, p)
    \/ \E tenant \in Tenants : Acquire(t, tenant)
    \/ Health(t)
    \/ \E c \in Connections : CheckedOut(t, c)
    \/ CheckoutFails(t) \/ SetTenant(t) \/ Used(t) \/ RestoreDefault(t) \/ Release(t)
    \/ Aclose(t) \/ GraceOver(t) \/ Closed(t)

\* wait_for is the only wait with a time-out of the module's own: the users of
\* connections owe nothing.
Fairness == \A t \in Tasks : WF_vars(GraceOver(t))

Spec == Init /\ [][Next]_vars /\ Fairness

-------------------------------------------------------------------------------
(* Properties.                                                              *)

\* A block runs under the tenant it asked for. One that asked for the default
\* may find the setting cleared, but never another tenant's, whatever the
\* earlier users of the connection did and whichever of their statements failed.
TenantIsolation ==
  \A t \in Tasks :
    pc[t] = "using" =>
      \/ setting[held[t]] = asked[t]
      \/ ~ (asked[t] \in Tenants \ {Default}) /\ setting[held[t]] \in {Default, "unset"}

\* While one task closes, no asyncpg pool that is not closed is lost: the
\* wrapper still refers to it (with two closing tasks it is not so, see README).
NoPoolLeaked == \A p \in Pools : status[p] \in {"open", "closing"} => pool = p

\* What aclose leaves behind, whether closing ends by itself or by force and
\* whoever connects meanwhile: the pool it was called for is closed, the wrapper
\* has forgotten it, and no other pool is open.
ClosesWhatItLeaves ==
  [][\A t \in Tasks :
       pc[t] = "closing" /\ pc'[t] # "closing" =>
         /\ status'[mine[t]] = "closed"
         /\ pool' = None
         /\ \A p \in Pools : status'[p] \notin {"open", "closing"}]_vars

\* aclose returns, also when a connection is never given back.
AcloseEnds == \A t \in Closers : pc[t] = "closing" ~> pc[t] = "idle"

===============================================================================
