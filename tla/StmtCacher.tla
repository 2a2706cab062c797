----------------------------- MODULE StmtCacher -----------------------------
(***************************************************************************)
(* StmtCacher and txPreparer (query_runner.go): prepared statements shared *)
(* by the goroutines of a program, in front of the connection pool of      *)
(* *sql.DB.                                                                *)
(*                                                                         *)
(* Every goroutine calls ExecContext, QueryContext or QueryRowContext on   *)
(* one StmtCacher.  A goroutine of TxGoroutines does so through the        *)
(* DBContext UseTx returned to it: that one has a StmtCacher of its own    *)
(* whose preparer asks the shared one for the statement and then binds it  *)
(* to the transaction, which keeps a connection for itself until it ends.  *)
(* The other goroutines may also call Close.                               *)
(*                                                                         *)
(* Every call is given a context, and so is the begin of a transaction.    *)
(* Some of them end: a deadline, or somebody cancels.  The end of its      *)
(* context gets a call out of waiting for a connection, and database/sql   *)
(* rolls a transaction back whose context ends, whatever its goroutine is  *)
(* doing.  A call that waits for mu does not look at its context.          *)
(*                                                                         *)
(* pc[g] is what goroutine g does next:                                    *)
(*   "idle"       no call                                                  *)
(*   "lock"       wait for mu in PrepareContext                            *)
(*   "lookup"     look the query up, holding mu                            *)
(*   "prepare"    wait for a connection to prepare on, holding mu          *)
(*   "preparing"  the server prepares the statement                        *)
(*   "bind"       tx.StmtContext                                           *)
(*   "useTx"      execute the bound statement on the transaction           *)
(*   "use"        execute the shared statement, mu released                *)
(*   "connect"    wait for a connection to execute on                      *)
(*   "executing"  the server executes the statement                        *)
(*   "lockClose", "closing"  the same for Close                            *)
(***************************************************************************)
EXTENDS Integers, FiniteSets, Sequences, Functions

CONSTANTS
  Goroutines,
  TxGoroutines,   \* those that work in a transaction
  Queries,
  PoolSizes,      \* what sql.DB.SetMaxOpenConns may be called with
  CallDeadlines,  \* the sets of goroutines whose calls may have a context that ends
  TxDeadlines,    \* the same for the contexts of transactions
  NoOne,          \* the mutex is free
  MaxCalls        \* bound: calls of each goroutine, and Closes of each

ASSUME CacherAssumption ==
  /\ IsFiniteSet(Goroutines)
  /\ TxGoroutines \subseteq Goroutines
  /\ PoolSizes \subseteq Nat \ {0}
  /\ CallDeadlines \subseteq SUBSET Goroutines
  /\ TxDeadlines \subseteq SUBSET TxGoroutines
  /\ MaxCalls \in Nat
  /\ NoOne \notin Goroutines

VARIABLES
  maxOpen,    \* the size of the pool
  callsEnd,   \* goroutines whose calls have a context that ends
  txsEnd,     \* goroutines whose transactions have a context that ends
  mu,         \* holder of the shared cacher's mutex
  cache,      \* its map from queries to statements
  stmts,      \* every statement prepared on the DB, open or closed
  txCache,    \* queries in the cache of a transaction's own cacher
  pinned,     \* goroutines whose transaction is open
  rolledBack, \* goroutines that still use a transaction whose context has ended
  conns,      \* goroutines that hold a connection for one server call
  pc, query, stmt,
  result,     \* how the last call ended
  calls,      \* history: calls made
  overlapped  \* history: a Close closed a statement during the last call

\* They never change.  The contexts that are not in them are those of the calls
\* and transactions without a context of their own (context.Background()).
setup == <<maxOpen, callsEnd, txsEnd>>

txs == <<pinned, rolledBack>>

vars == <<setup, mu, cache, stmts, txCache, txs, conns, pc, query, stmt, result, calls,
          overlapped>>

-----------------------------------------------------------------------------

Init ==
  /\ maxOpen \in PoolSizes
  /\ callsEnd \in CallDeadlines
  /\ txsEnd \in TxDeadlines
  /\ mu = NoOne
  /\ cache = [q \in {} |-> 0]
  /\ stmts = <<>>
  /\ txCache = [g \in TxGoroutines |-> {}]
  /\ pinned = {}
  /\ rolledBack = {}
  /\ conns = {}
  /\ pc = [g \in Goroutines |-> "idle"]
  /\ query = [g \in Goroutines |-> CHOOSE q \in Queries : TRUE]
  /\ stmt = [g \in Goroutines |-> 0]
  /\ result = [g \in Goroutines |-> "none"]
  /\ calls = [g \in Goroutines |-> 0]
  /\ overlapped = [g \in Goroutines |-> FALSE]

Goto(g, label) == pc' = [pc EXCEPT ![g] = label]
Ends(g, res) == Goto(g, "idle") /\ result' = [result EXCEPT ![g] = res]

FreeConn == Cardinality(pinned) + Cardinality(conns) < maxOpen
InUse(s) == \E g \in Goroutines : pc[g] \in {"connect", "executing"} /\ stmt[g] = s

-----------------------------------------------------------------------------
(* Transactions *)

\* DB.BeginTx, and UseTx: the context gets a new, empty cacher.
BeginTx(g) ==
  /\ g \in TxGoroutines \ (pinned \cup rolledBack)
  /\ pc[g] = "idle"
  /\ FreeConn
  /\ pinned' = pinned \cup {g}
  /\ txCache' = [txCache EXCEPT ![g] = {}]
  /\ UNCHANGED <<setup, mu, cache, stmts, rolledBack, conns, pc, query, stmt, result,
                 calls, overlapped>>

\* Commit or Rollback, which gives the connection back if that was not done.
EndTx(g) ==
  /\ g \in pinned \cup rolledBack
  /\ pc[g] = "idle"
  /\ pinned' = pinned \ {g}
  /\ rolledBack' = rolledBack \ {g}
  /\ UNCHANGED <<setup, mu, cache, stmts, txCache, conns, pc, query, stmt, result,
                 calls, overlapped>>

\* The context of the transaction ends, maybe under a call that waits for mu or
\* for a connection: database/sql rolls back and gives the connection back.  The
\* goroutine learns of it from the errors of its next calls.
TxContextEnds(g) ==
  /\ g \in pinned \cap txsEnd
  /\ pinned' = pinned \ {g}
  /\ rolledBack' = rolledBack \cup {g}
  /\ UNCHANGED <<setup, mu, cache, stmts, txCache, conns, pc, query, stmt, result,
                 calls, overlapped>>

-----------------------------------------------------------------------------
(* ExecContext, QueryContext, QueryRowContext *)

\* The call; in a transaction, the lookup in the transaction's own cacher.
Call(g, q) ==
  /\ pc[g] = "idle"
  /\ g \in TxGoroutines => g \in pinned \cup rolledBack
  /\ calls[g] < MaxCalls
  /\ calls' = [calls EXCEPT ![g] = @ + 1]
  /\ query' = [query EXCEPT ![g] = q]
  /\ result' = [result EXCEPT ![g] = "none"]
  /\ overlapped' = [overlapped EXCEPT ![g] = FALSE]
  /\ Goto(g, IF g \in TxGoroutines /\ q \in txCache[g] THEN "useTx" ELSE "lock")
  /\ UNCHANGED <<setup, mu, cache, stmts, txCache, txs, conns, stmt>>

Lock(g) ==
  /\ pc[g] = "lock"
  /\ mu = NoOne
  /\ mu' = g
  /\ Goto(g, "lookup")
  /\ UNCHANGED <<setup, cache, stmts, txCache, txs, conns, query, stmt, result,
                 calls, overlapped>>

\* The shared cacher has the statement: unlock and go on with it.
Prepared(g, s) ==
  /\ mu' = NoOne
  /\ stmt' = [stmt EXCEPT ![g] = s]
  /\ Goto(g, IF g \in TxGoroutines THEN "bind" ELSE "use")

Hit(g) ==
  /\ pc[g] = "lookup"
  /\ query[g] \in DOMAIN cache
  /\ Prepared(g, cache[query[g]])
  /\ UNCHANGED <<setup, cache, stmts, txCache, txs, conns, query, result,
                 calls, overlapped>>

\* Mutant of Miss: the mutex is released before the statement is prepared.
MissUnlocks(g) ==
  /\ pc[g] = "lookup"
  /\ query[g] \notin DOMAIN cache
  /\ mu' = NoOne
  /\ Goto(g, "prepare")
  /\ UNCHANGED <<setup, cache, stmts, txCache, txs, conns, query, stmt, result,
                 calls, overlapped>>

Miss(g) ==
  /\ pc[g] = "lookup"
  /\ query[g] \notin DOMAIN cache
  /\ Goto(g, "prepare")
  /\ UNCHANGED <<setup, mu, cache, stmts, txCache, txs, conns, query, stmt, result,
                 calls, overlapped>>

\* DB.PrepareContext takes a connection of the pool, also for a transaction.
ConnectToPrepare(g) ==
  /\ pc[g] = "prepare"
  /\ FreeConn
  /\ conns' = conns \cup {g}
  /\ Goto(g, "preparing")
  /\ UNCHANGED <<setup, mu, cache, stmts, txCache, txs, query, stmt, result,
                 calls, overlapped>>

PrepareOk(g) ==
  /\ pc[g] = "preparing"
  /\ stmts' = Append(stmts, [query |-> query[g], open |-> TRUE])
  /\ cache' = [q \in DOMAIN cache \cup {query[g]} |->
                 IF q = query[g] THEN Len(stmts) + 1 ELSE cache[q]]
  /\ conns' = conns \ {g}
  /\ Prepared(g, Len(stmts) + 1)
  /\ UNCHANGED <<setup, txCache, txs, query, result, calls, overlapped>>

\* Mutant of PrepareFails: the error path returns without unlocking.
PrepareFailsLocked(g) ==
  /\ pc[g] = "preparing"
  /\ conns' = conns \ {g}
  /\ Ends(g, "error")
  /\ UNCHANGED <<setup, mu, cache, stmts, txCache, txs, query, stmt, calls,
                 overlapped>>

\* Nothing is cached; the deferred Unlock runs.  QueryRowContext panics.
PrepareFails(g) ==
  /\ pc[g] = "preparing"
  /\ conns' = conns \ {g}
  /\ mu' = NoOne
  /\ Ends(g, "error")
  /\ UNCHANGED <<setup, cache, stmts, txCache, txs, query, stmt, calls, overlapped>>

\* The context of a call that waits for a connection ends: PrepareContext or
\* ExecContext fails with the error of the context; mu is unlocked.
CallContextEnds(g) ==
  /\ g \in callsEnd
  /\ pc[g] \in {"prepare", "connect"}
  /\ mu' = IF pc[g] = "prepare" THEN NoOne ELSE mu
  /\ Ends(g, "error")
  /\ UNCHANGED <<setup, cache, stmts, txCache, txs, conns, query, stmt,
                 calls, overlapped>>

\* tx.StmtContext: from here on the transaction does not need the shared
\* statement, and its own cacher has the bound one.  StmtContext has no error:
\* what it gives for a transaction or a context that has ended is cached as well,
\* and fails whenever it is executed.
Bind(g) ==
  /\ pc[g] = "bind"
  /\ txCache' = [txCache EXCEPT ![g] = @ \cup {query[g]}]
  /\ Goto(g, "useTx")
  /\ UNCHANGED <<setup, mu, cache, stmts, txs, conns, query, stmt, result,
                 calls, overlapped>>

UseInTx(g) ==
  /\ pc[g] = "useTx"
  /\ \E res \in {"ok", "error"} : (res = "ok" => g \in pinned) /\ Ends(g, res)
  /\ UNCHANGED <<setup, mu, cache, stmts, txCache, txs, conns, query, stmt,
                 calls, overlapped>>

\* stmt.ExecContext outside the mutex: from "connect" on it keeps a Close of
\* the statement waiting.
UseOpen(g) ==
  /\ pc[g] = "use"
  /\ stmts[stmt[g]].open
  /\ Goto(g, "connect")
  /\ UNCHANGED <<setup, mu, cache, stmts, txCache, txs, conns, query, stmt, result,
                 calls, overlapped>>

\* "sql: statement is closed"
UseClosed(g) ==
  /\ pc[g] = "use"
  /\ ~stmts[stmt[g]].open
  /\ Ends(g, "closed")
  /\ UNCHANGED <<setup, mu, cache, stmts, txCache, txs, conns, query, stmt,
                 calls, overlapped>>

ConnectToExec(g) ==
  /\ pc[g] = "connect"
  /\ FreeConn
  /\ conns' = conns \cup {g}
  /\ Goto(g, "executing")
  /\ UNCHANGED <<setup, mu, cache, stmts, txCache, txs, query, stmt, result,
                 calls, overlapped>>

ExecDone(g) ==
  /\ pc[g] = "executing"
  /\ conns' = conns \ {g}
  /\ \E res \in {"ok", "error"} : Ends(g, res)
  /\ UNCHANGED <<setup, mu, cache, stmts, txCache, txs, query, stmt, calls,
                 overlapped>>

-----------------------------------------------------------------------------
(* Close *)

CallClose(g) ==
  /\ g \notin TxGoroutines
  /\ pc[g] = "idle"
  /\ calls[g] < MaxCalls
  /\ calls' = [calls EXCEPT ![g] = @ + 1]
  /\ result' = [result EXCEPT ![g] = "none"]
  /\ overlapped' = [overlapped EXCEPT ![g] = FALSE]
  /\ Goto(g, "lockClose")
  /\ UNCHANGED <<setup, mu, cache, stmts, txCache, txs, conns, query, stmt>>

\* Mutant of LockClose: Close forgets to lock, and unlocks all the same.
LockCloseForgets(g) ==
  /\ pc[g] = "lockClose"
  /\ Goto(g, "closing")
  /\ UNCHANGED <<setup, mu, cache, stmts, txCache, txs, conns, query, stmt, result,
                 calls, overlapped>>

LockClose(g) ==
  /\ pc[g] = "lockClose"
  /\ mu = NoOne
  /\ mu' = g
  /\ Goto(g, "closing")
  /\ UNCHANGED <<setup, cache, stmts, txCache, txs, conns, query, stmt, result,
                 calls, overlapped>>

\* stmt.Close() waits for the calls that use the statement.
CloseStmt(g, q) ==
  /\ pc[g] = "closing"
  /\ q \in DOMAIN cache
  /\ stmts[cache[q]].open
  /\ ~InUse(cache[q])
  /\ stmts' = [stmts EXCEPT ![cache[q]].open = FALSE]
  /\ overlapped' = [h \in Goroutines |-> overlapped[h] \/ pc[h] # "idle"]
  /\ UNCHANGED <<setup, mu, cache, txCache, txs, conns, pc, query, stmt,
                 result, calls>>

\* Mutant of CloseEnds: the closed statements stay in the map.
CloseEndsKeepsMap(g) ==
  /\ pc[g] = "closing"
  /\ \A q \in DOMAIN cache : ~stmts[cache[q]].open
  /\ mu' = NoOne
  /\ Ends(g, "ok")
  /\ UNCHANGED <<setup, cache, stmts, txCache, txs, conns, query, stmt, calls,
                 overlapped>>

CloseEnds(g) ==
  /\ pc[g] = "closing"
  /\ \A q \in DOMAIN cache : ~stmts[cache[q]].open
  /\ cache' = [q \in {} |-> 0]
  /\ mu' = NoOne
  /\ Ends(g, "ok")
  /\ UNCHANGED <<setup, stmts, txCache, txs, conns, query, stmt, calls, overlapped>>

-----------------------------------------------------------------------------

\* What a goroutine does once a call has started, or a transaction.
Acquire(g) == Lock(g) \/ LockClose(g) \/ ConnectToPrepare(g) \/ ConnectToExec(g)

Proceed(g) ==
  \/ Hit(g) \/ Miss(g) \/ PrepareOk(g) \/ PrepareFails(g)
  \/ Bind(g) \/ UseInTx(g) \/ UseOpen(g) \/ UseClosed(g) \/ ExecDone(g)
  \/ (\E q \in Queries : CloseStmt(g, q)) \/ CloseEnds(g)
  \/ EndTx(g)

Start(g) == BeginTx(g) \/ CallClose(g) \/ \E q \in Queries : Call(g, q)

ContextEnds(g) == TxContextEnds(g) \/ CallContextEnds(g)

Next == \E g \in Goroutines : Acquire(g) \/ Proceed(g) \/ Start(g) \/ ContextEnds(g)

Spec == Init /\ [][Next]_vars

\* Goroutines are scheduled, the server answers, transactions end, and so do the
\* contexts of callsEnd and txsEnd; a goroutine that waits for a mutex or for a
\* connection is served some time when others keep overtaking it (sync.Mutex is
\* starvation free, the pool serves its waiters in order).
FairSpec ==
  /\ Spec
  /\ \A g \in Goroutines :
       /\ WF_vars(Proceed(g)) /\ SF_vars(Acquire(g))
       /\ WF_vars(TxContextEnds(g)) /\ WF_vars(CallContextEnds(g))

-----------------------------------------------------------------------------
(* Properties *)

\* The cache holds the open statements and no others.  None is prepared twice or
\* forgotten, so that Close can close it ("cached stmts are same",
\* query_runner_test.go; "caches *sql.Stmt until closed"), and a goroutine that
\* holds mu and is not closing never finds a closed one.
CacheHoldsOpenStmts ==
  /\ \A s \in DOMAIN stmts :
       stmts[s].open => stmts[s].query \in DOMAIN cache /\ cache[stmts[s].query] = s
  /\ (mu = NoOne \/ pc[mu] # "closing") =>
       \A q \in DOMAIN cache : stmts[cache[q]].open /\ stmts[cache[q]].query = q

\* A call executes the statement of its own query, and only fails with
\* "statement is closed" when a Close ran during the call.
UsesItsOwnStmt ==
  \A g \in Goroutines :
    /\ pc[g] \in {"bind", "use", "connect", "executing"} => stmts[stmt[g]].query = query[g]
    /\ result[g] = "closed" => overlapped[g]

\* Every connection belongs to a transaction whose goroutine waits for mu, and
\* the holder of mu waits for a connection: to prepare a statement (maybe for
\* one of the transactions), or, in Close, for the end of a call that waits for
\* a connection to execute a statement.  Neither the contexts of these
\* transactions end nor that of the call which waits for a connection; those of
\* the calls that wait for mu may.
PoolDeadlock ==
  /\ ~FreeConn /\ conns = {}
  /\ mu # NoOne
  /\ \/ pc[mu] = "prepare" /\ mu \notin callsEnd
     \/ /\ pc[mu] = "closing"
        /\ \E q \in DOMAIN cache : stmts[cache[q]].open
        /\ \A q \in DOMAIN cache : stmts[cache[q]].open =>
             \E g \in Goroutines \ callsEnd : pc[g] = "connect" /\ stmt[g] = cache[q]
  /\ \A g \in pinned : g \notin txsEnd /\ (pc[g] = "lock" \/ g = mu)

\* With a connection more than there are transactions at a time whose context
\* never ends, every call ends.  When such transactions can take the whole pool,
\* the pool deadlock is the only way for a call not to end (query_runner.go:60-86,
\* 120-126).
CallEnds ==
  \A g \in Goroutines :
    pc[g] # "idle" ~>
      pc[g] = "idle" \/ (maxOpen <= Cardinality(TxGoroutines \ txsEnd) /\ PoolDeadlock)

\* Nothing gets the program out of it: not what the goroutines do that do not
\* take part, nor the end of the contexts of calls that wait for mu
\* (query_runner.go:60-63 locks without looking at ctx).
PoolDeadlockIsForever == [][PoolDeadlock => PoolDeadlock']_vars
=============================================================================
