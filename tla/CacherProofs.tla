---------------------------- MODULE CacherProofs ----------------------------
(***************************************************************************)
(* Theorems about StmtCacher, for any number of goroutines, transactions,  *)
(* queries and connections.                                                *)
(***************************************************************************)
EXTENDS StmtCacher, SequenceTheorems, TLAPS

-----------------------------------------------------------------------------
(* The inductive invariant *)

Labels == {"idle", "lock", "lookup", "prepare", "preparing", "bind", "useTx", "use",
           "connect", "executing", "lockClose", "closing"}

\* query[g] means something only during an ExecContext, QueryContext or
\* QueryRowContext of g.
HasQuery(g) == pc[g] \notin {"idle", "lockClose", "closing"}

Stmt == [query : Queries, open : BOOLEAN]

Types ==
  /\ mu \in Goroutines \cup {NoOne}
  /\ pc \in [Goroutines -> Labels]
  /\ DOMAIN query = Goroutines /\ query = [g \in Goroutines |-> query[g]]
  /\ \A g \in Goroutines : HasQuery(g) => query[g] \in Queries
  /\ stmts \in Seq(Stmt)
  /\ stmt \in [Goroutines -> Nat]
  /\ DOMAIN cache \subseteq Queries
  /\ result \in [Goroutines -> {"none", "ok", "error", "closed"}]
  /\ overlapped \in [Goroutines -> BOOLEAN]
  /\ pinned \subseteq Goroutines

\* Who is between Lock and Unlock holds the mutex, and nobody else does; who
\* waits for the server has a connection.
Holds(g) == pc[g] \in {"lookup", "prepare", "preparing", "closing"}

Exclusion ==
  /\ \A g \in Goroutines : Holds(g) <=> mu = g
  /\ \A g \in Goroutines : pc[g] \in {"preparing", "executing"} => g \in conns

\* The entries of the map and the statements on the DB, one by one.  While a
\* Close goes through the map it has entries that are closed already.
Closing == mu # NoOne /\ pc[mu] = "closing"

Entries ==
  /\ \A q \in DOMAIN cache : cache[q] \in DOMAIN stmts /\ stmts[cache[q]].query = q
  /\ \A s \in DOMAIN stmts :
       stmts[s].open => stmts[s].query \in DOMAIN cache /\ cache[stmts[s].query] = s
  /\ ~Closing => \A q \in DOMAIN cache : stmts[cache[q]].open
  /\ \A g \in Goroutines : pc[g] \in {"prepare", "preparing"} => query[g] \notin DOMAIN cache

\* A goroutine that has got a statement has its own query's, and finds it closed
\* only when the Close came after.
Uses ==
  \A g \in Goroutines :
    /\ pc[g] \in {"bind", "use", "connect", "executing"} =>
         stmt[g] \in DOMAIN stmts /\ stmts[stmt[g]].query = query[g]
    /\ pc[g] = "use" /\ ~stmts[stmt[g]].open => overlapped[g]
    /\ result[g] = "closed" => overlapped[g]

CInv == Types /\ Exclusion /\ Entries /\ Uses

LEMMA OneClosed ==
  ASSUME NEW s \in Seq(Stmt), NEW i \in 1..Len(s)
  PROVE  [s EXCEPT ![i].open = FALSE] \in Seq(Stmt)
<1>1. s[i] \in Stmt
  OBVIOUS
<1>2. [s[i] EXCEPT !.open = FALSE] \in Stmt
  BY <1>1 DEF Stmt
<1>3. QED
  BY <1>2, ExceptSeq

LEMMA InitInv == Init => CInv
BY CacherAssumption DEF Init, CInv, Types, Exclusion, Entries, Uses, Labels, HasQuery, Holds, Closing

LEMMA NextInv == CInv /\ [Next]_vars => CInv'
<1> SUFFICES ASSUME CInv, [Next]_vars PROVE CInv'
  OBVIOUS
<1> USE CacherAssumption DEF CInv, txs
<1>1. ASSUME NEW g \in Goroutines, BeginTx(g)
      PROVE  CInv'
  <2>1. Types'
    BY <1>1 DEF BeginTx, Types, Labels, HasQuery
  <2>2. Exclusion'
    BY <1>1 DEF BeginTx, Exclusion, Types, Labels, Holds
  <2>3. Entries'
    BY <1>1 DEF BeginTx, Entries, Types, Labels, Exclusion, Holds, Closing, HasQuery
  <2>4. Uses'
    BY <1>1 DEF BeginTx, Uses, Types, Labels, Exclusion, Entries, Holds, Closing, HasQuery
  <2>5. QED
    BY <2>1, <2>2, <2>3, <2>4
<1>2. ASSUME NEW g \in Goroutines, EndTx(g)
      PROVE  CInv'
  <2>1. Types'
    BY <1>2 DEF EndTx, Types, Labels, HasQuery
  <2>2. Exclusion'
    BY <1>2 DEF EndTx, Exclusion, Types, Labels, Holds
  <2>3. Entries'
    BY <1>2 DEF EndTx, Entries, Types, Labels, Exclusion, Holds, Closing, HasQuery
  <2>4. Uses'
    BY <1>2 DEF EndTx, Uses, Types, Labels, Exclusion, Entries, Holds, Closing, HasQuery
  <2>5. QED
    BY <2>1, <2>2, <2>3, <2>4
<1>3. ASSUME NEW g \in Goroutines, NEW q \in Queries, Call(g, q)
      PROVE  CInv'
  <2>1. Types'
    BY <1>3 DEF Call, Goto, Types, Labels, HasQuery
  <2>2. Exclusion'
    BY <1>3 DEF Call, Goto, Exclusion, Types, Labels, Holds
  <2>3. Entries'
    BY <1>3 DEF Call, Goto, Entries, Types, Labels, Exclusion, Holds, Closing, HasQuery
  <2>4. Uses'
    BY <1>3 DEF Call, Goto, Uses, Types, Labels, Exclusion, Entries, Holds, Closing, HasQuery
  <2>5. QED
    BY <2>1, <2>2, <2>3, <2>4
<1>4. ASSUME NEW g \in Goroutines, Lock(g)
      PROVE  CInv'
  <2>1. Types'
    BY <1>4 DEF Lock, Goto, Types, Labels, HasQuery
  <2>2. Exclusion'
    BY <1>4 DEF Lock, Goto, Exclusion, Types, Labels, Holds
  <2>3. Entries'
    BY <1>4 DEF Lock, Goto, Entries, Types, Labels, Exclusion, Holds, Closing, HasQuery
  <2>4. Uses'
    BY <1>4 DEF Lock, Goto, Uses, Types, Labels, Exclusion, Entries, Holds, Closing, HasQuery
  <2>5. QED
    BY <2>1, <2>2, <2>3, <2>4
<1>5. ASSUME NEW g \in Goroutines, Hit(g)
      PROVE  CInv'
  <2>1. Types'
    BY <1>5 DEF Hit, Prepared, Goto, Types, Labels, HasQuery, Entries
  <2>2. Exclusion'
    BY <1>5 DEF Hit, Prepared, Goto, Exclusion, Types, Labels, Holds
  <2>3. Entries'
    BY <1>5 DEF Hit, Prepared, Goto, Entries, Types, Labels, Exclusion, Holds, Closing, HasQuery
  <2>4. Uses'
    BY <1>5 DEF Hit, Prepared, Goto, Uses, Types, Labels, Exclusion, Entries, Holds, Closing, HasQuery
  <2>5. QED
    BY <2>1, <2>2, <2>3, <2>4
<1>6. ASSUME NEW g \in Goroutines, Miss(g)
      PROVE  CInv'
  <2>1. Types'
    BY <1>6 DEF Miss, Goto, Types, Labels, HasQuery
  <2>2. Exclusion'
    BY <1>6 DEF Miss, Goto, Exclusion, Types, Labels, Holds
  <2>3. Entries'
    BY <1>6 DEF Miss, Goto, Entries, Types, Labels, Exclusion, Holds, Closing, HasQuery
  <2>4. Uses'
    BY <1>6 DEF Miss, Goto, Uses, Types, Labels, Exclusion, Entries, Holds, Closing, HasQuery
  <2>5. QED
    BY <2>1, <2>2, <2>3, <2>4
<1>7. ASSUME NEW g \in Goroutines, ConnectToPrepare(g)
      PROVE  CInv'
  <2>1. Types'
    BY <1>7 DEF ConnectToPrepare, Goto, Types, Labels, HasQuery
  <2>2. Exclusion'
    BY <1>7 DEF ConnectToPrepare, Goto, Exclusion, Types, Labels, Holds
  <2>3. Entries'
    BY <1>7 DEF ConnectToPrepare, Goto, Entries, Types, Labels, Exclusion, Holds, Closing, HasQuery
  <2>4. Uses'
    BY <1>7 DEF ConnectToPrepare, Goto, Uses, Types, Labels, Exclusion, Entries, Holds, Closing, HasQuery
  <2>5. QED
    BY <2>1, <2>2, <2>3, <2>4
<1>8. ASSUME NEW g \in Goroutines, PrepareOk(g)
      PROVE  CInv'
  <2>1. Types'
    <3>1. query[g] \in Queries
      BY <1>8 DEF PrepareOk, Types, HasQuery
    <3>2. stmts' \in Seq(Stmt)
      BY <1>8, <3>1 DEF PrepareOk, Types, Stmt
    <3>3. DOMAIN cache' \subseteq Queries
      BY <1>8, <3>1 DEF PrepareOk, Types
    <3>4. QED
      BY <1>8, <3>1, <3>2, <3>3 DEF PrepareOk, Prepared, Goto, Types, Labels, HasQuery
  <2>2. Exclusion'
    BY <1>8 DEF PrepareOk, Prepared, Goto, Exclusion, Types, Labels, Holds
  <2>3. Entries'
    BY <1>8 DEF PrepareOk, Prepared, Goto, Entries, Types, Labels, Exclusion, Holds, Closing, HasQuery
  <2>4. Uses'
    BY <1>8 DEF PrepareOk, Prepared, Goto, Uses, Types, Labels, Exclusion, Entries, Holds, Closing, HasQuery
  <2>5. QED
    BY <2>1, <2>2, <2>3, <2>4
<1>9. ASSUME NEW g \in Goroutines, PrepareFails(g)
      PROVE  CInv'
  <2>1. Types'
    BY <1>9 DEF PrepareFails, Ends, Goto, Types, Labels, HasQuery
  <2>2. Exclusion'
    BY <1>9 DEF PrepareFails, Ends, Goto, Exclusion, Types, Labels, Holds
  <2>3. Entries'
    BY <1>9 DEF PrepareFails, Ends, Goto, Entries, Types, Labels, Exclusion, Holds, Closing, HasQuery
  <2>4. Uses'
    BY <1>9 DEF PrepareFails, Ends, Goto, Uses, Types, Labels, Exclusion, Entries, Holds, Closing, HasQuery
  <2>5. QED
    BY <2>1, <2>2, <2>3, <2>4
<1>10. ASSUME NEW g \in Goroutines, Bind(g)
      PROVE  CInv'
  <2>1. Types'
    BY <1>10 DEF Bind, Goto, Types, Labels, HasQuery
  <2>2. Exclusion'
    BY <1>10 DEF Bind, Goto, Exclusion, Types, Labels, Holds
  <2>3. Entries'
    BY <1>10 DEF Bind, Goto, Entries, Types, Labels, Exclusion, Holds, Closing, HasQuery
  <2>4. Uses'
    BY <1>10 DEF Bind, Goto, Uses, Types, Labels, Exclusion, Entries, Holds, Closing, HasQuery
  <2>5. QED
    BY <2>1, <2>2, <2>3, <2>4
<1>11. ASSUME NEW g \in Goroutines, UseInTx(g)
      PROVE  CInv'
  <2>1. Types'
    BY <1>11 DEF UseInTx, Ends, Goto, Types, Labels, HasQuery
  <2>2. Exclusion'
    BY <1>11 DEF UseInTx, Ends, Goto, Exclusion, Types, Labels, Holds
  <2>3. Entries'
    BY <1>11 DEF UseInTx, Ends, Goto, Entries, Types, Labels, Exclusion, Holds, Closing, HasQuery
  <2>4. Uses'
    BY <1>11 DEF UseInTx, Ends, Goto, Uses, Types, Labels, Exclusion, Entries, Holds, Closing, HasQuery
  <2>5. QED
    BY <2>1, <2>2, <2>3, <2>4
<1>12. ASSUME NEW g \in Goroutines, UseOpen(g)
      PROVE  CInv'
  <2>1. Types'
    BY <1>12 DEF UseOpen, Goto, Types, Labels, HasQuery
  <2>2. Exclusion'
    BY <1>12 DEF UseOpen, Goto, Exclusion, Types, Labels, Holds
  <2>3. Entries'
    BY <1>12 DEF UseOpen, Goto, Entries, Types, Labels, Exclusion, Holds, Closing, HasQuery
  <2>4. Uses'
    BY <1>12 DEF UseOpen, Goto, Uses, Types, Labels, Exclusion, Entries, Holds, Closing, HasQuery
  <2>5. QED
    BY <2>1, <2>2, <2>3, <2>4
<1>13. ASSUME NEW g \in Goroutines, UseClosed(g)
      PROVE  CInv'
  <2>1. Types'
    BY <1>13 DEF UseClosed, Ends, Goto, Types, Labels, HasQuery
  <2>2. Exclusion'
    BY <1>13 DEF UseClosed, Ends, Goto, Exclusion, Types, Labels, Holds
  <2>3. Entries'
    BY <1>13 DEF UseClosed, Ends, Goto, Entries, Types, Labels, Exclusion, Holds, Closing, HasQuery
  <2>4. Uses'
    BY <1>13 DEF UseClosed, Ends, Goto, Uses, Types, Labels, Exclusion, Entries, Holds, Closing, HasQuery
  <2>5. QED
    BY <2>1, <2>2, <2>3, <2>4
<1>14. ASSUME NEW g \in Goroutines, ConnectToExec(g)
      PROVE  CInv'
  <2>1. Types'
    BY <1>14 DEF ConnectToExec, Goto, Types, Labels, HasQuery
  <2>2. Exclusion'
    BY <1>14 DEF ConnectToExec, Goto, Exclusion, Types, Labels, Holds
  <2>3. Entries'
    BY <1>14 DEF ConnectToExec, Goto, Entries, Types, Labels, Exclusion, Holds, Closing, HasQuery
  <2>4. Uses'
    BY <1>14 DEF ConnectToExec, Goto, Uses, Types, Labels, Exclusion, Entries, Holds, Closing, HasQuery
  <2>5. QED
    BY <2>1, <2>2, <2>3, <2>4
<1>15. ASSUME NEW g \in Goroutines, ExecDone(g)
      PROVE  CInv'
  <2>1. Types'
    BY <1>15 DEF ExecDone, Ends, Goto, Types, Labels, HasQuery
  <2>2. Exclusion'
    BY <1>15 DEF ExecDone, Ends, Goto, Exclusion, Types, Labels, Holds
  <2>3. Entries'
    BY <1>15 DEF ExecDone, Ends, Goto, Entries, Types, Labels, Exclusion, Holds, Closing, HasQuery
  <2>4. Uses'
    BY <1>15 DEF ExecDone, Ends, Goto, Uses, Types, Labels, Exclusion, Entries, Holds, Closing, HasQuery
  <2>5. QED
    BY <2>1, <2>2, <2>3, <2>4
<1>16. ASSUME NEW g \in Goroutines, CallClose(g)
      PROVE  CInv'
  <2>1. Types'
    BY <1>16 DEF CallClose, Goto, Types, Labels, HasQuery
  <2>2. Exclusion'
    BY <1>16 DEF CallClose, Goto, Exclusion, Types, Labels, Holds
  <2>3. Entries'
    BY <1>16 DEF CallClose, Goto, Entries, Types, Labels, Exclusion, Holds, Closing, HasQuery
  <2>4. Uses'
    BY <1>16 DEF CallClose, Goto, Uses, Types, Labels, Exclusion, Entries, Holds, Closing, HasQuery
  <2>5. QED
    BY <2>1, <2>2, <2>3, <2>4
<1>17. ASSUME NEW g \in Goroutines, LockClose(g)
      PROVE  CInv'
  <2>1. Types'
    BY <1>17 DEF LockClose, Goto, Types, Labels, HasQuery
  <2>2. Exclusion'
    BY <1>17 DEF LockClose, Goto, Exclusion, Types, Labels, Holds
  <2>3. Entries'
    BY <1>17 DEF LockClose, Goto, Entries, Types, Labels, Exclusion, Holds, Closing, HasQuery
  <2>4. Uses'
    BY <1>17 DEF LockClose, Goto, Uses, Types, Labels, Exclusion, Entries, Holds, Closing, HasQuery
  <2>5. QED
    BY <2>1, <2>2, <2>3, <2>4
<1>18. ASSUME NEW g \in Goroutines, NEW q \in Queries, CloseStmt(g, q)
      PROVE  CInv'
  <2>1. Types'
    <3>1. stmts \in Seq(Stmt) /\ cache[q] \in 1..Len(stmts)
      BY <1>18 DEF CloseStmt, Types, Entries
    <3>2. stmts' \in Seq(Stmt)
      BY <1>18, <3>1, OneClosed DEF CloseStmt
    <3>3. QED
      BY <1>18, <3>2 DEF CloseStmt, Types, HasQuery
  <2>2. Exclusion'
    BY <1>18 DEF CloseStmt, Exclusion, Types, Labels, Holds
  <2>3. Entries'
    BY <1>18 DEF CloseStmt, Entries, Types, Labels, Exclusion, Holds, Closing, HasQuery
  <2>4. Uses'
    <3>1. /\ DOMAIN stmts' = DOMAIN stmts
          /\ \A s \in DOMAIN stmts : stmts'[s].query = stmts[s].query
      BY <1>18 DEF CloseStmt, Types, Entries
    <3>2. \A h \in Goroutines : overlapped'[h] = (overlapped[h] \/ pc[h] # "idle")
      BY <1>18 DEF CloseStmt
    <3>3. UNCHANGED <<pc, query, stmt, result>>
      BY <1>18 DEF CloseStmt
    <3>4. QED
      BY <3>1, <3>2, <3>3 DEF Uses
  <2>5. QED
    BY <2>1, <2>2, <2>3, <2>4
<1>19. ASSUME NEW g \in Goroutines, CloseEnds(g)
      PROVE  CInv'
  <2>1. Types'
    BY <1>19 DEF CloseEnds, Ends, Goto, Types, Labels, HasQuery
  <2>2. Exclusion'
    BY <1>19 DEF CloseEnds, Ends, Goto, Exclusion, Types, Labels, Holds
  <2>3. Entries'
    BY <1>19 DEF CloseEnds, Ends, Goto, Entries, Types, Labels, Exclusion, Holds, Closing, HasQuery
  <2>4. Uses'
    BY <1>19 DEF CloseEnds, Ends, Goto, Uses, Types, Labels, Exclusion, Entries, Holds, Closing, HasQuery
  <2>5. QED
    BY <2>1, <2>2, <2>3, <2>4
<1>20. ASSUME NEW g \in Goroutines, TxContextEnds(g)
      PROVE  CInv'
  <2>1. Types'
    BY <1>20 DEF TxContextEnds, Types, Labels, HasQuery
  <2>2. Exclusion'
    BY <1>20 DEF TxContextEnds, Exclusion, Types, Labels, Holds
  <2>3. Entries'
    BY <1>20 DEF TxContextEnds, Entries, Types, Labels, Exclusion, Holds, Closing, HasQuery
  <2>4. Uses'
    BY <1>20 DEF TxContextEnds, Uses, Types, Labels, Exclusion, Entries, Holds, Closing, HasQuery
  <2>5. QED
    BY <2>1, <2>2, <2>3, <2>4
<1>21. ASSUME NEW g \in Goroutines, CallContextEnds(g)
      PROVE  CInv'
  <2>1. Types'
    BY <1>21 DEF CallContextEnds, Ends, Goto, Types, Labels, HasQuery
  <2>2. Exclusion'
    BY <1>21 DEF CallContextEnds, Ends, Goto, Exclusion, Types, Labels, Holds
  <2>3. Entries'
    BY <1>21 DEF CallContextEnds, Ends, Goto, Entries, Types, Labels, Exclusion, Holds, Closing, HasQuery
  <2>4. Uses'
    BY <1>21 DEF CallContextEnds, Ends, Goto, Uses, Types, Labels, Exclusion, Entries, Holds, Closing, HasQuery
  <2>5. QED
    BY <2>1, <2>2, <2>3, <2>4
<1>22. CASE UNCHANGED vars
  BY <1>22 DEF vars, Types, Exclusion, Entries, Uses, HasQuery, Holds, Closing
<1>23. QED
  BY <1>1, <1>2, <1>3, <1>4, <1>5, <1>6, <1>7, <1>8, <1>9, <1>10, <1>11, <1>12, <1>13, <1>14,
     <1>15, <1>16, <1>17, <1>18, <1>19, <1>20, <1>21, <1>22
     DEF Next, Acquire, Proceed, Start, ContextEnds

LEMMA Inductive == Spec => []CInv
BY InitInv, NextInv, PTL DEF Spec

-----------------------------------------------------------------------------
(* What follows *)

\* The map of the cacher holds exactly the open statements, one per query, so
\* that Close reaches them all; only a goroutine that is closing finds closed
\* ones there (query_runner.go:60-86, 110-128).
THEOREM CacheIsTheOpenStmts == Spec => []CacheHoldsOpenStmts
<1>1. CInv => CacheHoldsOpenStmts
  BY DEF CInv, Entries, Closing, CacheHoldsOpenStmts
<1>2. QED
  BY Inductive, <1>1, PTL

\* A call executes the statement of its own query, and is told that it is closed
\* only by a Close that ran during the call (query_runner.go:88-108).
THEOREM CallsUseTheirStmt == Spec => []UsesItsOwnStmt
<1>1. CInv => UsesItsOwnStmt
  BY DEF CInv, Uses, UsesItsOwnStmt
<1>2. QED
  BY Inductive, <1>1, PTL

\* A step of a goroutine that takes no part in the deadlock leaves the holder of
\* mu where it is, the connections to whoever has them, and the calls that a Close
\* waits for.
LEMMA DeadlockStays ==
  ASSUME CInv, PoolDeadlock, [Next]_vars
  PROVE  PoolDeadlock'
<1> USE CacherAssumption DEF CInv, PoolDeadlock, txs, setup
<1>1. mu \in Goroutines /\ \A g \in Goroutines : Holds(g) <=> mu = g
  BY DEF Types, Exclusion
<1>2. \A g \in pinned : g \notin txsEnd /\ pc[g] \notin {"idle", "connect"}
  OBVIOUS
<1> DEFINE Stuck == /\ UNCHANGED <<setup, mu, cache, stmts, pinned, conns>>
                    /\ pc'[mu] = pc[mu]
                    /\ \A g \in pinned : pc'[g] = pc[g]
                    /\ \A g \in Goroutines \ callsEnd : pc[g] = "connect" =>
                         pc'[g] = "connect" /\ stmt'[g] = stmt[g]
<1>3. Stuck => PoolDeadlock'
  <2> SUFFICES ASSUME Stuck PROVE PoolDeadlock'
    OBVIOUS
  <2>1. FreeConn' = FreeConn
    BY DEF FreeConn
  <2>2. QED
    BY <2>1
<1>4. ASSUME NEW g \in Goroutines,
             Lock(g) \/ LockClose(g) \/ ConnectToPrepare(g) \/ ConnectToExec(g) \/ BeginTx(g)
      PROVE  FALSE
  BY <1>1, <1>4 DEF Lock, LockClose, ConnectToPrepare, ConnectToExec, BeginTx
<1>5. ASSUME NEW g \in Goroutines, Hit(g) \/ Miss(g) \/ PrepareOk(g) \/ PrepareFails(g)
      PROVE  FALSE
  BY <1>1, <1>5 DEF Hit, Miss, PrepareOk, PrepareFails, Holds
<1>6. ASSUME NEW g \in Goroutines, ExecDone(g) \/ TxContextEnds(g)
      PROVE  FALSE
  BY <1>2, <1>6 DEF ExecDone, TxContextEnds, Exclusion
<1>7. ASSUME NEW g \in Goroutines, EndTx(g)
      PROVE  Stuck
  <2>1. pinned' = pinned
    BY <1>2, <1>7 DEF EndTx
  <2>2. QED
    BY <1>7, <2>1 DEF EndTx
<1>8. ASSUME NEW g \in Goroutines, (\E q \in Queries : CloseStmt(g, q)) \/ CloseEnds(g)
      PROVE  FALSE
  BY <1>1, <1>8 DEF CloseStmt, CloseEnds, InUse, Holds
<1>9. ASSUME NEW g \in Goroutines, g # mu, g \notin pinned,
             pc[g] = "connect" => g \in callsEnd, NEW l, Goto(g, l),
             UNCHANGED <<setup, mu, cache, stmts, pinned, conns, stmt>>
      PROVE  Stuck
  <2>1. \A h \in Goroutines : h # g => pc'[h] = pc[h]
    BY <1>9 DEF Goto, Types
  <2>2. QED
    BY <1>1, <1>9, <2>1 DEF Types
<1>10. ASSUME NEW g \in Goroutines,
              \/ Bind(g) \/ UseInTx(g) \/ UseOpen(g) \/ UseClosed(g) \/ CallContextEnds(g)
              \/ CallClose(g) \/ \E q \in Queries : Call(g, q)
       PROVE  Stuck
  <2>1. g # mu /\ g \notin pinned /\ (pc[g] = "connect" => g \in callsEnd)
    BY <1>1, <1>2, <1>10
       DEF Bind, UseInTx, UseOpen, UseClosed, CallContextEnds, CallClose, Call, Holds
  <2>2. UNCHANGED <<setup, mu, cache, stmts, pinned, conns, stmt>>
    <3>1. CASE CallContextEnds(g)
      <4>1. pc[g] # "prepare"
        BY <1>1, <2>1 DEF Holds
      <4>2. QED
        BY <3>1, <4>1 DEF CallContextEnds
    <3>2. CASE Bind(g) \/ UseInTx(g) \/ UseOpen(g) \/ UseClosed(g)
      BY <3>2 DEF Bind, UseInTx, UseOpen, UseClosed
    <3>3. CASE CallClose(g) \/ \E q \in Queries : Call(g, q)
      BY <3>3 DEF CallClose, Call
    <3>4. QED
      BY <1>10, <3>1, <3>2, <3>3
  <2>3. \E l : Goto(g, l)
    BY <1>10 DEF Bind, UseInTx, UseOpen, UseClosed, CallContextEnds, CallClose, Call, Ends
  <2>4. QED
    BY <1>9, <2>1, <2>2, <2>3
<1>11. CASE UNCHANGED vars
  BY <1>3, <1>11 DEF vars
<1>12. QED
  BY <1>3, <1>4, <1>5, <1>6, <1>7, <1>8, <1>9, <1>10, <1>11
     DEF Next, Acquire, Proceed, Start, ContextEnds

\* Once the transactions have all the connections and wait for mu, while its
\* holder waits for a connection, and none of their contexts ends, no step of any
\* goroutine and no end of another context undoes that (query_runner.go:60-86,
\* 120-126).
THEOREM PoolDeadlockStays == Spec => PoolDeadlockIsForever
<1>1. CInv /\ [Next]_vars => [PoolDeadlock => PoolDeadlock']_vars
  BY DeadlockStays
<1>2. QED
  BY Inductive, <1>1, PTL DEF Spec, PoolDeadlockIsForever
=============================================================================
