------------------------------ MODULE PgPoolProofs ------------------------------
(***************************************************************************)
(* What holds of the pool wrapper for any number of tasks, connections and *)
(* tenants, and any number of pools opened one after the other.            *)
(***************************************************************************)
EXTENDS PgPool, TLAPS

-------------------------------------------------------------------------------
(* Types.                                                                   *)

LEMMA NoConnectionIsNone == NoConnection \notin Connections
BY PgPoolAssumption DEF NoConnection, Connections, Pools, None

LEMMA TypeInit == Init => TypeOK
<1> SUFFICES ASSUME Init PROVE TypeOK
  OBVIOUS
<1>1. pool \in Pools \cup {None} /\ connect_lock \subseteq Tasks /\ in_use \in Int
  BY DEF Init
<1>2. /\ status \in [Pools -> {"none", "open", "closing", "closed"}]
      /\ setting \in [Connections -> Tenants \cup {"new", "unset"}]
      /\ pc \in [Tasks -> Labels]
  BY DEF Init, Labels
<1>3. /\ mine \in [Tasks -> Pools \cup {None}]
      /\ held \in [Tasks -> Connections \cup {NoConnection}]
      /\ asked \in [Tasks -> Tenants \cup {"health"}]
  BY PgPoolAssumption DEF Init
<1>4. shutting_down \in BOOLEAN
  BY Zenon DEF Init
<1>5. QED
  BY <1>1, <1>2, <1>3, <1>4 DEF TypeOK

\* A statement that sets or restores the tenant is sent only for a tenant that
\* is neither the default nor that of health.
Overriding == \A t \in Tasks : pc[t] \in {"setting", "restoring"} => Overrides(t)

LEMMA LeavesType ==
  ASSUME TypeOK, NEW t \in Tasks, Leaves(t)
  PROVE  /\ pc' \in [Tasks -> Labels]
         /\ mine' \in [Tasks -> Pools \cup {None}]
         /\ held' \in [Tasks -> Connections \cup {NoConnection}]
         /\ asked' \in [Tasks -> Tenants \cup {"health"}]
BY PgPoolAssumption DEF TypeOK, Leaves, Goto, Labels

LEMMA TypeStep == TypeOK /\ Overriding /\ [Next]_vars => TypeOK'
<1> SUFFICES ASSUME TypeOK, Overriding, [Next]_vars PROVE TypeOK'
  OBVIOUS
<1> USE PgPoolAssumption
<1>1. CASE UNCHANGED vars
  BY <1>1 DEF TypeOK, vars, asyncpg, task
<1>2. ASSUME NEW t \in Tasks, Connect(t) \/ Locked(t) \/ CreateFails(t) PROVE TypeOK'
  BY <1>2 DEF TypeOK, Connect, Locked, CreateFails, Goto, Labels, asyncpg, task
<1>3. ASSUME NEW t \in Tasks, NEW p \in Pools, Created(t, p) PROVE TypeOK'
  BY <1>3 DEF TypeOK, Created, Goto, Labels, task
<1>4. ASSUME NEW t \in Tasks, NEW tenant \in Tenants, Acquire(t, tenant) PROVE TypeOK'
  BY <1>4 DEF TypeOK, Acquire, Goto, Labels, asyncpg, task
<1>5. ASSUME NEW t \in Tasks, Health(t) PROVE TypeOK'
  BY <1>5 DEF TypeOK, Health, Goto, Labels, asyncpg
<1>6. ASSUME NEW t \in Tasks, NEW c \in Connections, CheckedOut(t, c) PROVE TypeOK'
  BY <1>6 DEF TypeOK, CheckedOut, Goto, Labels
<1>7. ASSUME NEW t \in Tasks, CheckoutFails(t) PROVE TypeOK'
  BY <1>7, LeavesType DEF TypeOK, CheckoutFails, asyncpg
<1>8. ASSUME NEW t \in Tasks, SetTenant(t) PROVE TypeOK'
  <2>1. setting' \in [Connections -> Tenants \cup {"new", "unset"}]
    BY <1>8 DEF TypeOK, SetTenant, Overriding, Overrides
  <2> QED
    BY <1>8, <2>1 DEF TypeOK, SetTenant, Goto, Labels, task
<1>9. ASSUME NEW t \in Tasks, Used(t) \/ RestoreDefault(t) PROVE TypeOK'
  BY <1>9 DEF TypeOK, Used, RestoreDefault, Goto, Labels, asyncpg, task
<1>10. ASSUME NEW t \in Tasks, Release(t) PROVE TypeOK'
  <2>1. setting' \in [Connections -> Tenants \cup {"new", "unset"}]
    BY <1>10 DEF TypeOK, Release
  <2>2. in_use' \in Int
    BY <1>10 DEF TypeOK, Release
  <2> QED
    BY <1>10, <2>1, <2>2, LeavesType DEF TypeOK, Release
<1>11. ASSUME NEW t \in Tasks, Aclose(t) PROVE TypeOK'
  BY <1>11 DEF TypeOK, Aclose, Goto, Labels
<1>12. ASSUME NEW t \in Tasks, GraceOver(t) \/ Closed(t) PROVE TypeOK'
  <2>1. status' \in [Pools -> {"none", "open", "closing", "closed"}]
    BY <1>12 DEF TypeOK, GraceOver, Closed
  <2> QED
    BY <1>12, <2>1, LeavesType DEF TypeOK, GraceOver, Closed, Forgotten
<1>13. QED
  BY <1>1, <1>2, <1>3, <1>4, <1>5, <1>6, <1>7, <1>8, <1>9, <1>10, <1>11, <1>12 DEF Next


LEMMA OverridingStep ==
  ASSUME TypeOK, Overriding, [Next]_vars
  PROVE  Overriding'
<1>1. CASE UNCHANGED vars
  BY <1>1 DEF Overriding, Overrides, vars, task
<1>2. ASSUME NEW t \in Tasks,
             \/ Connect(t) \/ Locked(t) \/ CreateFails(t) \/ Health(t) \/ CheckoutFails(t)
             \/ Used(t) \/ RestoreDefault(t) \/ Release(t) \/ SetTenant(t)
             \/ Aclose(t) \/ GraceOver(t) \/ Closed(t)
             \/ \E p \in Pools : Created(t, p)
             \/ \E tenant \in Tenants : Acquire(t, tenant)
             \/ \E c \in Connections : CheckedOut(t, c)
      PROVE  Overriding'
  <2>1. /\ \A u \in Tasks \ {t} : pc'[u] = pc[u] /\ asked'[u] = asked[u]
    BY <1>2 DEF TypeOK, Connect, Locked, CreateFails, Health, CheckoutFails, Used,
                RestoreDefault, Release, SetTenant, Aclose, GraceOver, Closed, Created,
                Acquire, CheckedOut, Forgotten, Leaves, Goto, task
  <2>2. pc'[t] \in {"setting", "restoring"} => Overrides(t)'
    BY <1>2 DEF TypeOK, Connect, Locked, CreateFails, Health, CheckoutFails, Used,
                RestoreDefault, Release, SetTenant, Aclose, GraceOver, Closed, Created,
                Acquire, CheckedOut, Forgotten, Leaves, Goto, task, Overrides, Overriding
  <2>3. QED
    BY <2>1, <2>2 DEF Overriding, Overrides
<1>3. QED
  BY <1>1, <1>2 DEF Next

-------------------------------------------------------------------------------
(* Tenants.  A connection is with one task at a time, and one that is with  *)
(* none has no tenant: so a block that asked for the default does not find  *)
(* another's, and one that asked for a tenant keeps it.                     *)

Holding ==
  \A t \in Tasks :
    held[t] \in Connections <=> pc[t] \in {"setting", "using", "restoring", "releasing"}

Exclusive ==
  \A t, u \in Tasks : t # u /\ held[t] \in Connections => held[u] # held[t]

FreeIsClean == \A c \in Connections : Free(c) => setting[c] \in {"new", "unset"}

\* What a block finds: the tenant it asked for, or the default or nothing.
Found(t) ==
  \/ setting[held[t]] = asked[t]
  \/ ~Overrides(t) /\ setting[held[t]] \in {Default, "unset"}

TenantInv == TypeOK /\ Overriding /\ Holding /\ Exclusive /\ FreeIsClean /\ TenantIsolation

\* A step of one task that neither takes nor returns a connection.
LEMMA KeepsConnection ==
  ASSUME TypeOK, Holding, Exclusive, FreeIsClean, TenantIsolation, NEW t \in Tasks,
         held' = held, setting' = setting,
         \A u \in Tasks \ {t} : pc'[u] = pc[u] /\ asked'[u] = asked[u],
         pc'[t] # "using",
         pc[t] \in {"setting", "using", "restoring", "releasing"} <=>
           pc'[t] \in {"setting", "using", "restoring", "releasing"}
  PROVE  Holding' /\ Exclusive' /\ FreeIsClean' /\ TenantIsolation'
<1>1. Holding' /\ Exclusive'
  BY DEF Holding, Exclusive
<1>2. FreeIsClean'
  BY DEF FreeIsClean, Free
<1>3. TenantIsolation'
  BY DEF TenantIsolation
<1>4. QED
  BY <1>1, <1>2, <1>3

\* A step in which one task sets the tenant of the connection it holds.
LEMMA SetsConnection ==
  ASSUME TypeOK, Holding, Exclusive, FreeIsClean, TenantIsolation, NEW t \in Tasks,
         held' = held, asked' = asked, held[t] \in Connections,
         \A c \in Connections \ {held[t]} : setting'[c] = setting[c],
         \A u \in Tasks \ {t} : pc'[u] = pc[u],
         pc'[t] = "using" => setting'[held[t]] = asked[t],
         pc'[t] \in {"setting", "using", "restoring", "releasing"}
  PROVE  Holding' /\ Exclusive' /\ FreeIsClean' /\ TenantIsolation'
<1>1. Holding' /\ Exclusive'
  BY DEF Holding, Exclusive
<1>2. FreeIsClean'
  BY DEF FreeIsClean, Free
<1>3. TenantIsolation'
  <2>1. SUFFICES ASSUME NEW u \in Tasks \ {t}, pc'[u] = "using"
                 PROVE  setting'[held[u]] = setting[held[u]]
    BY DEF TenantIsolation
  <2>2. held[u] \in Connections /\ held[u] # held[t]
    BY <2>1 DEF Holding, Exclusive
  <2>3. QED
    BY <2>2
<1>4. QED
  BY <1>1, <1>2, <1>3

\* A step in which one task gives its connection back, or has none.
LEMMA ReturnsConnection ==
  ASSUME TypeOK, Holding, Exclusive, FreeIsClean, TenantIsolation, NEW t \in Tasks,
         Leaves(t),
         \A c \in Connections : setting'[c] = setting[c] \/ (c = held[t] /\ setting'[c] \in {"new", "unset"}),
         held[t] \in Connections => setting'[held[t]] \in {"new", "unset"}
  PROVE  Holding' /\ Exclusive' /\ FreeIsClean' /\ TenantIsolation'
<1>1. /\ \A u \in Tasks \ {t} : pc'[u] = pc[u] /\ asked'[u] = asked[u] /\ held'[u] = held[u]
      /\ pc'[t] = "idle" /\ held'[t] = NoConnection
  BY DEF TypeOK, Leaves, Goto
<1>2. Holding' /\ Exclusive'
  BY <1>1, NoConnectionIsNone DEF Holding, Exclusive
<1>3. FreeIsClean'
  <2>1. SUFFICES ASSUME NEW c \in Connections, Free(c)' PROVE setting'[c] \in {"new", "unset"}
    BY DEF FreeIsClean
  <2>2. c = held[t] \/ Free(c)
    BY <2>1, <1>1 DEF Free
  <2>3. QED
    BY <2>2 DEF FreeIsClean
<1>4. TenantIsolation'
  <2>1. SUFFICES ASSUME NEW u \in Tasks \ {t}, pc'[u] = "using"
                 PROVE  setting'[held[u]] = setting[held[u]]
    BY <1>1 DEF TenantIsolation
  <2>2. held[u] \in Connections /\ held[u] # held[t]
    BY <2>1, <1>1 DEF Holding, Exclusive
  <2>3. QED
    BY <2>2
<1>5. QED
  BY <1>2, <1>3, <1>4


LEMMA TenantInit == Init => TenantInv
<1> SUFFICES ASSUME Init PROVE TenantInv
  OBVIOUS
<1>1. TypeOK
  BY TypeInit
<1>2. \A t \in Tasks : pc[t] = "idle" /\ held[t] = NoConnection
  BY DEF Init
<1>3. Overriding /\ Holding /\ Exclusive /\ TenantIsolation
  BY <1>2, NoConnectionIsNone DEF Overriding, Holding, Exclusive, TenantIsolation
<1>4. FreeIsClean
  BY DEF Init, FreeIsClean
<1>5. QED
  BY <1>1, <1>3, <1>4 DEF TenantInv

LEMMA TenantStep == TenantInv /\ [Next]_vars => TenantInv'
<1> SUFFICES ASSUME TenantInv, [Next]_vars PROVE TenantInv'
  OBVIOUS
<1> USE PgPoolAssumption
<1> DEFINE Goal == Holding' /\ Exclusive' /\ FreeIsClean' /\ TenantIsolation'
<1>1. TypeOK /\ Overriding /\ Holding /\ Exclusive /\ FreeIsClean /\ TenantIsolation
  BY DEF TenantInv
<1>2. TypeOK' /\ Overriding'
  BY <1>1, TypeStep, OverridingStep
<1>3. ASSUME UNCHANGED vars PROVE Goal
  BY <1>1, <1>3 DEF vars, task, asyncpg, Holding, Exclusive, FreeIsClean, Free, TenantIsolation
<1>4. ASSUME NEW t \in Tasks,
             \/ Connect(t) \/ Locked(t) \/ CreateFails(t) \/ Health(t) \/ Used(t) \/ Aclose(t)
             \/ \E p \in Pools : Created(t, p)
             \/ \E tenant \in Tenants : Acquire(t, tenant)
      PROVE  Goal
  <2>1. /\ held' = held /\ setting' = setting
        /\ \A u \in Tasks \ {t} : pc'[u] = pc[u] /\ asked'[u] = asked[u]
        /\ pc'[t] # "using"
        /\ pc[t] \in {"setting", "using", "restoring", "releasing"} <=>
             pc'[t] \in {"setting", "using", "restoring", "releasing"}
    BY <1>1, <1>4 DEF TypeOK, Connect, Locked, CreateFails, Health, Used, Aclose, Created,
                      Acquire, Goto, task, asyncpg
  <2>2. QED
    BY <1>1, <2>1, KeepsConnection
<1>5. ASSUME NEW t \in Tasks, NEW c \in Connections, CheckedOut(t, c) PROVE Goal
  <2>1. /\ \A u \in Tasks \ {t} : pc'[u] = pc[u] /\ asked'[u] = asked[u] /\ held'[u] = held[u]
        /\ held'[t] = c /\ asked'[t] = asked[t] /\ Free(c)
        /\ pc'[t] = IF Overrides(t) THEN "setting" ELSE "using"
        /\ \A d \in Connections \ {c} : setting'[d] = setting[d]
        /\ setting'[c] = IF setting[c] = "new" THEN Default ELSE setting[c]
    BY <1>1, <1>5 DEF TypeOK, CheckedOut, Goto
  <2>2. setting'[c] \in {Default, "unset"}
    BY <1>1, <2>1 DEF FreeIsClean
  <2>3. Holding'
    BY <1>1, <2>1 DEF Holding
  <2>4. Exclusive'
    BY <1>1, <2>1 DEF Exclusive, Free
  <2>5. FreeIsClean'
    <3>1. SUFFICES ASSUME NEW d \in Connections, Free(d)'
                   PROVE  setting'[d] \in {"new", "unset"}
      BY DEF FreeIsClean
    <3>2. d # c /\ held[t] = NoConnection
      BY <3>1, <2>1, <1>1, <1>5 DEF Free, Holding, TypeOK, CheckedOut
    <3>3. Free(d)
      BY <3>1, <3>2, <2>1, NoConnectionIsNone DEF Free
    <3>4. QED
      BY <1>1, <2>1, <3>2, <3>3 DEF FreeIsClean
  <2>6. TenantIsolation'
    <3>1. ASSUME NEW u \in Tasks \ {t}, pc'[u] = "using"
          PROVE  setting'[held'[u]] = setting[held[u]]
      BY <1>1, <2>1, <3>1 DEF Free, Holding
    <3>2. ASSUME pc'[t] = "using"
          PROVE  /\ ~ (asked'[t] \in Tenants \ {Default})
                 /\ setting'[held'[t]] \in {Default, "unset"}
      BY <2>1, <2>2, <3>2 DEF Overrides
    <3>3. QED
      BY <1>1, <2>1, <3>1, <3>2 DEF TenantIsolation
  <2>7. QED
    BY <2>3, <2>4, <2>5, <2>6
<1>6. ASSUME NEW t \in Tasks, SetTenant(t) \/ RestoreDefault(t) PROVE Goal
  <2>1. /\ held' = held /\ asked' = asked
        /\ \A c \in Connections \ {held[t]} : setting'[c] = setting[c]
        /\ \A u \in Tasks \ {t} : pc'[u] = pc[u]
        /\ pc'[t] \in {"setting", "using", "restoring", "releasing"}
    BY <1>1, <1>6 DEF TypeOK, SetTenant, RestoreDefault, Goto, task
  <2>2. held[t] \in Connections
    BY <1>1, <1>6 DEF Holding, SetTenant, RestoreDefault
  <2>3. pc'[t] = "using" => setting'[held[t]] = asked[t]
    BY <1>1, <1>6, <2>2 DEF TypeOK, SetTenant, RestoreDefault, Goto
  <2>4. QED
    BY <1>1, <2>1, <2>2, <2>3, SetsConnection
<1>7. ASSUME NEW t \in Tasks, CheckoutFails(t) \/ GraceOver(t) \/ Closed(t) PROVE Goal
  <2>1. Leaves(t) /\ setting' = setting /\ pc[t] \in {"waiting", "closing"}
    BY <1>7 DEF CheckoutFails, GraceOver, Closed, Forgotten, asyncpg
  <2>2. held[t] \notin Connections
    BY <1>1, <2>1 DEF Holding
  <2>3. QED
    BY <1>1, <2>1, <2>2, ReturnsConnection
<1>8. ASSUME NEW t \in Tasks, Release(t) PROVE Goal
  <2>1. Leaves(t) /\ held[t] \in Connections
    BY <1>1, <1>8 DEF Release, Holding
  <2>2. PICK reset \in {"unset", "new"} : setting' = [setting EXCEPT ![held[t]] = reset]
    BY <1>8 DEF Release
  <2>3. /\ \A c \in Connections : \/ setting'[c] = setting[c]
                                  \/ c = held[t] /\ setting'[c] \in {"new", "unset"}
        /\ setting'[held[t]] \in {"new", "unset"}
    BY <1>1, <2>1, <2>2 DEF TypeOK
  <2>4. QED
    BY <1>1, <2>1, <2>3, ReturnsConnection
<1>9. Goal
  BY <1>3, <1>4, <1>5, <1>6, <1>7, <1>8 DEF Next
<1>10. QED
  BY <1>2, <1>9 DEF TenantInv

\* Every variable keeps its type, whoever opens, uses or closes the pool and
\* whichever of the statements fail (db/pool.py).
THEOREM TypeCorrect == Spec => []TypeOK
<1>1. TenantInv => TypeOK
  BY DEF TenantInv
<1>2. QED
  BY TenantInit, TenantStep, <1>1, PTL DEF Spec

\* No block of a caller runs under a tenant another caller asked for, with any
\* number of tasks and connections (PgPool.acquire).
THEOREM TenantIsolationCorrect == Spec => []TenantIsolation
<1>1. TenantInv => TenantIsolation
  BY DEF TenantInv
<1>2. QED
  BY TenantInit, TenantStep, <1>1, PTL DEF Spec

-------------------------------------------------------------------------------
(* Pools.  While a pool is open the wrapper refers to it: nobody can be     *)
(* creating another, and the one closing task still has the pool it closes. *)

OneCloser == \A t, u \in Closers : t = u

CreatingAlone ==
  \A t \in Tasks : pc[t] = "creating" => connect_lock = {t} /\ pool = None

ClosingOwn ==
  \A t \in Tasks : pc[t] = "closing" => t \in Closers /\ pool # None /\ mine[t] = pool

PoolInv == TypeOK /\ Overriding /\ CreatingAlone /\ ClosingOwn /\ NoPoolLeaked

LEMMA PoolStep == OneCloser /\ PoolInv /\ [Next]_vars => PoolInv'
<1> SUFFICES ASSUME OneCloser, PoolInv, [Next]_vars PROVE PoolInv'
  OBVIOUS
<1> USE PgPoolAssumption
<1> DEFINE Goal == CreatingAlone' /\ ClosingOwn' /\ NoPoolLeaked'
<1>1. TypeOK /\ Overriding /\ CreatingAlone /\ ClosingOwn /\ NoPoolLeaked
  BY DEF PoolInv
<1>2. TypeOK' /\ Overriding'
  BY <1>1, TypeStep, OverridingStep
<1>3. ASSUME UNCHANGED vars PROVE Goal
  BY <1>1, <1>3 DEF vars, task, asyncpg, CreatingAlone, ClosingOwn, NoPoolLeaked
<1>4. ASSUME NEW t \in Tasks,
             \/ Connect(t) \/ Health(t) \/ CheckoutFails(t) \/ SetTenant(t) \/ Used(t)
             \/ RestoreDefault(t) \/ Release(t)
             \/ \E tenant \in Tenants : Acquire(t, tenant)
             \/ \E c \in Connections : CheckedOut(t, c)
      PROVE  Goal
  <2>1. /\ pool' = pool /\ connect_lock' = connect_lock /\ status' = status
        /\ \A u \in Tasks \ {t} : pc'[u] = pc[u] /\ mine'[u] = mine[u]
        /\ \/ pc'[t] \notin {"creating", "closing"}
           \/ pc'[t] = pc[t] /\ mine'[t] = mine[t]
    BY <1>1, <1>4 DEF TypeOK, Connect, Health, CheckoutFails, SetTenant, Used, RestoreDefault,
                      Release, Acquire, CheckedOut, Leaves, Goto, task, asyncpg
  <2>2. QED
    BY <1>1, <2>1 DEF CreatingAlone, ClosingOwn, NoPoolLeaked
<1>5. ASSUME NEW t \in Tasks, Locked(t) \/ CreateFails(t) PROVE Goal
  <2>1. /\ pool' = pool /\ status' = status /\ mine' = mine
        /\ \A u \in Tasks \ {t} : pc'[u] = pc[u]
        /\ \/ pc'[t] = "idle"
           \/ pc'[t] = "creating" /\ connect_lock' = {t} /\ pool = None
        /\ pc[t] = "creating" \/ connect_lock = {}
    BY <1>1, <1>5 DEF TypeOK, Locked, CreateFails, Goto, task, asyncpg
  <2>2. \A u \in Tasks \ {t} : pc[u] # "creating"
    BY <1>1, <2>1 DEF CreatingAlone
  <2>3. QED
    BY <1>1, <2>1, <2>2 DEF CreatingAlone, ClosingOwn, NoPoolLeaked
<1>6. ASSUME NEW t \in Tasks, NEW p \in Pools, Created(t, p) PROVE Goal
  <2>1. /\ pool = None /\ pool' = p /\ mine' = mine
        /\ status' = [status EXCEPT ![p] = "open"]
        /\ pc'[t] = "idle" /\ \A u \in Tasks \ {t} : pc'[u] = pc[u]
    BY <1>1, <1>6 DEF TypeOK, Created, Goto, task, CreatingAlone
  <2>2. \A u \in Tasks : pc'[u] \notin {"creating", "closing"}
    BY <1>1, <1>6, <2>1 DEF CreatingAlone, ClosingOwn, Created
  <2>3. \A q \in Pools : status[q] \notin {"open", "closing"}
    BY <1>1, <2>1 DEF NoPoolLeaked, Pools, None
  <2>4. QED
    BY <1>1, <2>1, <2>2, <2>3 DEF TypeOK, CreatingAlone, ClosingOwn, NoPoolLeaked
<1>7. ASSUME NEW t \in Tasks, Aclose(t) PROVE Goal
  <2>1. /\ pool' = pool /\ pool # None /\ connect_lock' = connect_lock /\ t \in Closers
        /\ \A u \in Tasks \ {t} : pc'[u] = pc[u] /\ mine'[u] = mine[u]
        /\ pc'[t] = "closing" /\ mine'[t] = pool
        /\ \A q \in Pools : q # pool => status'[q] = status[q]
    BY <1>1, <1>7 DEF TypeOK, Aclose, Goto
  <2>2. QED
    BY <1>1, <2>1 DEF CreatingAlone, ClosingOwn, NoPoolLeaked
<1>8. ASSUME NEW t \in Tasks, GraceOver(t) \/ Closed(t) PROVE Goal
  <2>1. pc[t] = "closing" /\ t \in Closers /\ pool # None /\ mine[t] = pool
    BY <1>1, <1>8 DEF GraceOver, Closed, ClosingOwn
  <2>2. /\ pool' = None /\ status' = [status EXCEPT ![pool] = "closed"]
        /\ pc'[t] = "idle" /\ \A u \in Tasks \ {t} : pc'[u] = pc[u]
    BY <1>1, <1>8, <2>1 DEF TypeOK, GraceOver, Closed, Forgotten, Leaves, Goto
  <2>3. \A u \in Tasks : pc'[u] \notin {"creating", "closing"}
    BY <1>1, <2>1, <2>2 DEF CreatingAlone, ClosingOwn, OneCloser
  <2>4. \A q \in Pools : status'[q] \notin {"open", "closing"}
    BY <1>1, <2>1, <2>2 DEF TypeOK, NoPoolLeaked
  <2>5. QED
    BY <2>3, <2>4 DEF CreatingAlone, ClosingOwn, NoPoolLeaked
<1>9. Goal
  BY <1>3, <1>4, <1>5, <1>6, <1>7, <1>8 DEF Next
<1>10. QED
  BY <1>2, <1>9 DEF PoolInv

LEMMA PoolInit == Init => PoolInv
<1>1. SUFFICES ASSUME Init PROVE Overriding /\ CreatingAlone /\ ClosingOwn /\ NoPoolLeaked
  BY TypeInit DEF PoolInv
<1>2. QED
  BY <1>1 DEF Init, Overriding, CreatingAlone, ClosingOwn, NoPoolLeaked

\* With one task that closes, an asyncpg pool that is not closed is never lost,
\* however many tasks connect meanwhile and whether closing ends by itself or
\* by force (PgPool.connect, PgPool.aclose).
THEOREM NoPoolLeakedCorrect == OneCloser => (Spec => []NoPoolLeaked)
<1>1. PoolInv => NoPoolLeaked
  BY DEF PoolInv
<1>2. SUFFICES ASSUME OneCloser PROVE Spec => []NoPoolLeaked
  OBVIOUS
<1>3. PoolInv /\ [Next]_vars => PoolInv'
  BY <1>2, PoolStep
<1>4. QED
  BY PoolInit, <1>1, <1>3, PTL DEF Spec

LEMMA ClosingStep ==
  ASSUME OneCloser, PoolInv, [Next]_vars, NEW t \in Tasks,
         pc[t] = "closing", pc'[t] # "closing"
  PROVE  /\ status'[mine[t]] = "closed"
         /\ pool' = None
         /\ \A p \in Pools : status'[p] \notin {"open", "closing"}
<1> USE PgPoolAssumption
<1>1. TypeOK /\ ClosingOwn /\ NoPoolLeaked
  BY DEF PoolInv
<1>2. t \in Closers /\ pool \in Pools /\ mine[t] = pool
  BY <1>1 DEF ClosingOwn, TypeOK
<1>3. GraceOver(t) \/ Closed(t)
  <2>1. ~ UNCHANGED vars
    BY DEF vars
  <2>2. \A u \in Tasks :
          /\ ~Connect(u) /\ ~Locked(u) /\ ~CreateFails(u) /\ ~Health(u) /\ ~CheckoutFails(u)
          /\ ~SetTenant(u) /\ ~Used(u) /\ ~RestoreDefault(u) /\ ~Release(u) /\ ~Aclose(u)
          /\ \A p \in Pools : ~Created(u, p)
          /\ \A tenant \in Tenants : ~Acquire(u, tenant)
          /\ \A c \in Connections : ~CheckedOut(u, c)
    BY <1>1 DEF TypeOK, Connect, Locked, CreateFails, Health, CheckoutFails, SetTenant, Used,
                RestoreDefault, Release, Aclose, Created, Acquire, CheckedOut, Leaves, Goto,
                asyncpg, task
  <2>3. \E u \in Tasks : GraceOver(u) \/ Closed(u)
    BY <2>1, <2>2 DEF Next
  <2>4. QED
    BY <1>1, <2>3 DEF TypeOK, GraceOver, Closed, Forgotten, Leaves, Goto
<1>4. status' = [status EXCEPT ![pool] = "closed"] /\ pool' = None
  BY <1>2, <1>3 DEF GraceOver, Closed, Forgotten, Pools, None
<1>5. QED
  BY <1>1, <1>2, <1>4 DEF TypeOK, NoPoolLeaked

\* With one task that closes, aclose returns only with the pool it was called
\* for closed, by itself or by force, and with no asyncpg pool open besides:
\* what AcloseEnds says it comes to (PgPool.aclose).
THEOREM ClosesWhatItLeavesCorrect == OneCloser => (Spec => ClosesWhatItLeaves)
<1> DEFINE Leaving ==
      \A t \in Tasks :
        pc[t] = "closing" /\ pc'[t] # "closing" =>
          /\ status'[mine[t]] = "closed"
          /\ pool' = None
          /\ \A p \in Pools : status'[p] \notin {"open", "closing"}
<1>1. SUFFICES ASSUME OneCloser PROVE Spec => ClosesWhatItLeaves
  OBVIOUS
<1>2. PoolInv /\ [Next]_vars => Leaving
  BY <1>1, ClosingStep
<1>3. PoolInv /\ [Next]_vars => PoolInv'
  BY <1>1, PoolStep
<1>4. QED
  BY <1>2, <1>3, PoolInit, PTL DEF Spec, ClosesWhatItLeaves, Leaving

===============================================================================
