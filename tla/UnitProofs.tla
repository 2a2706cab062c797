----------------------------- MODULE UnitProofs -----------------------------
(***************************************************************************)
(* Theorems about UnitOfWork, for any set of goroutines and any number of  *)
(* patches and scopes: about the transactions and scopes, and then what    *)
(* becomes of the patches, the order they reach the database in, that a    *)
(* transaction which says so has saved them all, and that every patch is   *)
(* in one place at any time.                                               *)
(***************************************************************************)
EXTENDS UnitOfWork, SequenceTheorems, FiniteSetTheorems, TLAPS

-----------------------------------------------------------------------------
(* Types *)

\* A context of a transaction exists only for a client that has begun one.
TxcInv ==
  \A c \in Clients :
    /\ pc[c] = "fn" => tx[c] # 0
    /\ hasTxc[c] => tx[c] # 0
    /\ pc[c] = "save" /\ back[c] = "fn" => tx[c] # 0
    /\ pc[c] = "save" /\ saving[c] = "txc" => tx[c] # 0
    /\ pc[c] \in {"commit", "defer"} => tx[c] # 0

TInv == TypeOK /\ TxcInv

LEMMA WrittenType ==
  ASSUME NEW c \in Clients, NEW t \in 0..MaxTx, NEW s \in Seq(PatchIds)
  PROVE  /\ Written(c, t, s) \in Seq(Entry)
         /\ \A i \in DOMAIN Written(c, t, s) : Written(c, t, s)[i].tx = t
<1>1. \A i \in 1..Len(s) : [patch |-> s[i], client |-> c, tx |-> t] \in Entry
  BY DEF Entry
<1>2. QED
  BY <1>1 DEF Written

\* What a write adds to the table.
LEMMA TableGrows ==
  ASSUME NEW tab \in Seq(Entry), NEW c \in Clients, NEW t \in 0..MaxTx,
         NEW s \in Seq(PatchIds)
  PROVE  /\ tab \o Written(c, t, s) \in Seq(Entry)
         /\ \A i \in DOMAIN (tab \o Written(c, t, s)) :
              \/ i \in DOMAIN tab /\ (tab \o Written(c, t, s))[i] = tab[i]
              \/ (tab \o Written(c, t, s))[i].tx = t
<1> DEFINE w == Written(c, t, s)
<1>1. w \in Seq(Entry) /\ \A i \in DOMAIN w : w[i].tx = t
  BY WrittenType
<1> HIDE DEF w
<1>2. /\ tab \o w \in Seq(Entry)
      /\ DOMAIN (tab \o w) = 1..Len(tab) + Len(w)
      /\ \A i \in 1..Len(tab) + Len(w) :
           (tab \o w)[i] = IF i <= Len(tab) THEN tab[i] ELSE w[i - Len(tab)]
  BY <1>1, ConcatProperties
<1>3. ASSUME NEW i \in 1..Len(tab) + Len(w), i > Len(tab)
      PROVE  (tab \o w)[i].tx = t
  <2>1. i - Len(tab) \in DOMAIN w
    BY <1>1, <1>3
  <2>2. QED
    BY <1>1, <1>2, <1>3, <2>1
<1>4. QED
  BY <1>2, <1>3 DEF w

LEMMA RowTx ==
  ASSUME NEW tab \in Seq(Entry), NEW i \in DOMAIN tab
  PROVE  tab[i].tx \in 0..MaxTx
<1>1. tab[i] \in Entry
  OBVIOUS
<1>2. QED
  BY <1>1 DEF Entry

LEMMA IdsType ==
  ASSUME NEW s \in Seq(PatchIds)
  PROVE  Ids(s) \subseteq PatchIds
BY DEF Ids

LEMMA InitType == Init => TInv
<1>1. Init => ContextTypes
  BY UnitAssumption DEF Init, ContextTypes, Contexts
<1>2. Init => ControlTypes /\ DatabaseTypes /\ HistoryTypes
  BY UnitAssumption DEF Init, ControlTypes, DatabaseTypes, HistoryTypes, Txs
<1>3. Init => TxcInv
  BY DEF Init, TxcInv
<1>4. QED
  BY <1>1, <1>2, <1>3 DEF TInv, TypeOK

LEMMA NextType == TInv /\ [Next]_vars => TInv'
<1> SUFFICES ASSUME TInv, [Next]_vars PROVE TInv'
  OBVIOUS
<1> USE DEF TInv, TypeOK
<1>0. \A c \in Clients : tx[c] # 0 => tx[c] \in Txs
  BY UnitAssumption DEF ContextTypes, Txs
<1>1. ASSUME NEW c \in Clients, NEW x \in Contexts, Patch(c, x)
      PROVE  TInv'
  <2>0. nextPatch \in PatchIds /\ Append(buffer[c][x], nextPatch) \in Seq(PatchIds)
    BY <1>1 DEF Patch, PatchIds, ContextTypes, ControlTypes
  <2>1. ContextTypes'
    BY <1>1, <1>0, <2>0, UnitAssumption DEF Patch, ContextTypes, ControlTypes, ctxVars, Contexts
  <2>2. ControlTypes'
    BY <1>1, <1>0, <2>0, UnitAssumption DEF Patch, ControlTypes, Contexts
  <2>3. DatabaseTypes'
    BY <1>1, <1>0, <2>0, UnitAssumption DEF Patch, DatabaseTypes, TxcInv, ctxVars, dbVars, Contexts
  <2>4. HistoryTypes'
    BY <1>1, <1>0, <2>0, UnitAssumption DEF Patch, HistoryTypes, ControlTypes, TxcInv, history, Contexts
  <2>5. TxcInv'
    BY <1>1, <1>0, <2>0, UnitAssumption DEF Patch, TxcInv, ContextTypes, ControlTypes, ctxVars, Contexts
  <2>6. QED
    BY <2>1, <2>2, <2>3, <2>4, <2>5
<1>2. ASSUME NEW c \in Clients, UseTx(c)
      PROVE  TInv'
  <2>0. Ids(buffer[c]["dbc"]) \subseteq PatchIds
    BY IdsType DEF ContextTypes, Contexts
  <2>1. ContextTypes'
    BY <1>2, <1>0, <2>0, UnitAssumption DEF UseTx, ContextTypes, ControlTypes, ctxVars, Contexts
  <2>2. ControlTypes'
    BY <1>2, <1>0, <2>0, UnitAssumption DEF UseTx, ControlTypes, Contexts
  <2>3. DatabaseTypes'
    BY <1>2, <1>0, <2>0, UnitAssumption DEF UseTx, DatabaseTypes, TxcInv, ctxVars, dbVars, Contexts
  <2>4. HistoryTypes'
    BY <1>2, <1>0, <2>0, UnitAssumption DEF UseTx, HistoryTypes, ControlTypes, TxcInv, history, Contexts
  <2>5. TxcInv'
    BY <1>2, <1>0, <2>0, UnitAssumption DEF UseTx, TxcInv, ContextTypes, ControlTypes, ctxVars, Contexts
  <2>6. QED
    BY <2>1, <2>2, <2>3, <2>4, <2>5
<1>3. ASSUME NEW c \in Clients, NEW x \in Contexts, CompilePatch(c, x)
      PROVE  TInv'
  <2>0. buffer[c][x] \in Seq(PatchIds) /\ (x = "txc" => tx[c] \in Txs)
    BY <1>3, <1>0 DEF CompilePatch, Usable, ContextTypes, TxcInv
  <2>1. ContextTypes'
    BY <1>3, <1>0, <2>0, UnitAssumption DEF CompilePatch, ContextTypes, ControlTypes, ctxVars, Contexts, Usable, Running
  <2>2. ControlTypes'
    BY <1>3, <1>0, <2>0, UnitAssumption DEF CompilePatch, ControlTypes, Contexts, Usable, Running
  <2>3. DatabaseTypes'
    BY <1>3, <1>0, <2>0, UnitAssumption DEF CompilePatch, DatabaseTypes, TxcInv, ctxVars, dbVars, Contexts, Usable, Running
  <2>4. HistoryTypes'
    BY <1>3, <1>0, <2>0, UnitAssumption DEF CompilePatch, HistoryTypes, ControlTypes, TxcInv, history, Contexts, Usable, Running
  <2>5. TxcInv'
    BY <1>3, <1>0, <2>0, UnitAssumption DEF CompilePatch, TxcInv, ContextTypes, ControlTypes, ctxVars, Contexts, Usable, Running
  <2>6. QED
    BY <2>1, <2>2, <2>3, <2>4, <2>5
<1>4. ASSUME NEW c \in Clients, NEW x \in Contexts, CompilePanics(c, x)
      PROVE  TInv'
  <2>0. Ids(buffer[c][x]) \subseteq PatchIds
    BY IdsType DEF ContextTypes
  <2>1. ContextTypes'
    BY <1>4, <1>0, <2>0, UnitAssumption DEF CompilePanics, ContextTypes, ControlTypes, ctxVars, Contexts, Usable, Running
  <2>2. ControlTypes'
    BY <1>4, <1>0, <2>0, UnitAssumption DEF CompilePanics, ControlTypes, Contexts, Usable, Running
  <2>3. DatabaseTypes'
    BY <1>4, <1>0, <2>0, UnitAssumption DEF CompilePanics, DatabaseTypes, TxcInv, ctxVars, dbVars, Contexts, Usable, Running
  <2>4. HistoryTypes'
    BY <1>4, <1>0, <2>0, UnitAssumption DEF CompilePanics, HistoryTypes, ControlTypes, TxcInv, history, Contexts, Usable, Running
  <2>5. TxcInv'
    BY <1>4, <1>0, <2>0, UnitAssumption DEF CompilePanics, TxcInv, ContextTypes, ControlTypes, ctxVars, Contexts, Usable, Running
  <2>6. QED
    BY <2>1, <2>2, <2>3, <2>4, <2>5
<1>5. ASSUME NEW c \in Clients, NEW n \in 1..MaxPatch, Exec(c, n)
      PROVE  TInv'
  <2>0. /\ SubSeq(queue[c], 1, n) \in Seq(PatchIds)
        /\ SubSeq(queue[c], n + 1, Len(queue[c])) \in Seq(PatchIds)
        /\ saving[c] # "dbc" => tx[c] \in Txs
    <3>1. queue[c] \in Seq(PatchIds) /\ n \in 1..Len(queue[c])
      BY <1>5 DEF Exec, ContextTypes
    <3>2. /\ SubSeq(queue[c], 1, n) \in Seq(PatchIds)
          /\ SubSeq(queue[c], n + 1, Len(queue[c])) \in Seq(PatchIds)
      BY <3>1, SubSeqProperties
    <3>3. saving[c] # "dbc" => tx[c] \in Txs
      BY <1>5, <1>0 DEF Exec, ContextTypes, Contexts, TxcInv
    <3>4. QED
      BY <3>2, <3>3
  <2> DEFINE s == SubSeq(queue[c], 1, n)
  <2>s. s \in Seq(PatchIds) /\ 0 \in 0..MaxTx /\ table \in Seq(Entry)
    BY <2>0, UnitAssumption DEF DatabaseTypes
  <2>e. Exec(c, n) => IF saving[c] = "dbc"
                        THEN table' = table \o Written(c, 0, s) /\ UNCHANGED work
                        ELSE work' = [work EXCEPT ![tx[c]] = @ \o s] /\ UNCHANGED table
    BY DEF Exec
  <2> HIDE DEF s
  <2>t. table \o Written(c, 0, s) \in Seq(Entry)
    BY <2>s, TableGrows
  <2>1. ContextTypes'
    BY <1>5, <1>0, <2>0, <2>t, UnitAssumption DEF Exec, ContextTypes, ControlTypes, ctxVars, Contexts
  <2>2. ControlTypes'
    BY <1>5, <1>0, <2>0, <2>t, UnitAssumption DEF Exec, ControlTypes, Contexts
  <2>3. DatabaseTypes'
    <3>1. state' = state
      BY <1>5 DEF Exec
    <3>2. CASE saving[c] = "dbc"
      BY <1>5, <2>e, <2>t, <3>1, <3>2 DEF DatabaseTypes
    <3>3. CASE saving[c] # "dbc"
      <4>1. work[tx[c]] \o s \in Seq(PatchIds)
        BY <2>0, <2>s, <3>3, ConcatProperties DEF DatabaseTypes
      <4>2. QED
        BY <1>5, <2>e, <3>1, <3>3, <4>1 DEF DatabaseTypes
    <3>4. QED
      BY <3>2, <3>3
  <2>4. HistoryTypes'
    BY <1>5, <1>0, <2>0, <2>t, UnitAssumption DEF Exec, HistoryTypes, ControlTypes, TxcInv, history, Contexts
  <2>5. TxcInv'
    BY <1>5, <1>0, <2>0, <2>t, UnitAssumption DEF Exec, TxcInv, ContextTypes, ControlTypes, ctxVars, Contexts
  <2>6. QED
    BY <2>1, <2>2, <2>3, <2>4, <2>5
<1>6. ASSUME NEW c \in Clients, ExecFails(c)
      PROVE  TInv'
  <2>0. Ids(queue[c]) \subseteq PatchIds
    BY IdsType DEF ContextTypes
  <2>f. failed' \subseteq Txs
    BY <1>6, <1>0 DEF ExecFails, HistoryTypes, TxcInv
  <2>1. ContextTypes'
    BY <1>6, <1>0, <2>0, <2>f, UnitAssumption DEF ExecFails, ContextTypes, ControlTypes, ctxVars
  <2>2. ControlTypes'
    BY <1>6, <1>0, <2>0, <2>f, UnitAssumption DEF ExecFails, ControlTypes
  <2>3. DatabaseTypes'
    BY <1>6, <1>0, <2>0, <2>f, UnitAssumption DEF ExecFails, DatabaseTypes, TxcInv, ctxVars, dbVars
  <2>4. HistoryTypes'
    BY <1>6, <1>0, <2>0, <2>f, UnitAssumption DEF ExecFails, HistoryTypes, ControlTypes, TxcInv, history
  <2>5. TxcInv'
    BY <1>6, <1>0, <2>0, <2>f, UnitAssumption DEF ExecFails, TxcInv, ContextTypes, ControlTypes, ctxVars
  <2>6. QED
    BY <2>1, <2>2, <2>3, <2>4, <2>5
<1>7. ASSUME NEW c \in Clients, SaveReturnsNil(c)
      PROVE  TInv'
  <2>1. ContextTypes'
    BY <1>7, <1>0, UnitAssumption DEF SaveReturnsNil, ContextTypes, ControlTypes, ctxVars
  <2>2. ControlTypes'
    BY <1>7, <1>0, UnitAssumption DEF SaveReturnsNil, ControlTypes
  <2>3. DatabaseTypes'
    BY <1>7, <1>0, UnitAssumption DEF SaveReturnsNil, DatabaseTypes, TxcInv, ctxVars, dbVars
  <2>4. HistoryTypes'
    BY <1>7, <1>0, UnitAssumption DEF SaveReturnsNil, HistoryTypes, ControlTypes, TxcInv, history
  <2>5. TxcInv'
    BY <1>7, <1>0, UnitAssumption DEF SaveReturnsNil, TxcInv, ContextTypes, ControlTypes, ctxVars
  <2>6. QED
    BY <2>1, <2>2, <2>3, <2>4, <2>5
<1>8. ASSUME NEW c \in Clients, Begin(c)
      PROVE  TInv'
  <2>0. Ids(buffer[c]["txc"]) \subseteq PatchIds
    BY IdsType DEF ContextTypes, Contexts
  <2>1. ContextTypes'
    BY <1>8, <1>0, <2>0, UnitAssumption DEF Begin, NewScope, ContextTypes, ControlTypes, ctxVars, Contexts, Txs
  <2>2. ControlTypes'
    BY <1>8, <1>0, <2>0, UnitAssumption DEF Begin, NewScope, ControlTypes, Contexts, Txs
  <2>3. DatabaseTypes'
    BY <1>8, <1>0, <2>0, UnitAssumption DEF Begin, NewScope, DatabaseTypes, TxcInv, ctxVars, dbVars, Contexts, Txs
  <2>4. HistoryTypes'
    BY <1>8, <1>0, <2>0, UnitAssumption DEF Begin, NewScope, HistoryTypes, ControlTypes, TxcInv, history, Contexts, Txs
  <2>5. TxcInv'
    BY <1>8, <1>0, <2>0, UnitAssumption DEF Begin, NewScope, TxcInv, ContextTypes, ControlTypes, ctxVars, Contexts, Txs
  <2>6. QED
    BY <2>1, <2>2, <2>3, <2>4, <2>5
<1>9. ASSUME NEW c \in Clients, BeginFails(c)
      PROVE  TInv'
  <2>0. Ids(buffer[c]["txc"]) \subseteq PatchIds
    BY IdsType DEF ContextTypes, Contexts
  <2>1. ContextTypes'
    BY <1>9, <1>0, <2>0, UnitAssumption DEF BeginFails, NewScope, ContextTypes, ControlTypes, ctxVars, Contexts, Txs
  <2>2. ControlTypes'
    BY <1>9, <1>0, <2>0, UnitAssumption DEF BeginFails, NewScope, ControlTypes, Contexts, Txs
  <2>3. DatabaseTypes'
    BY <1>9, <1>0, <2>0, UnitAssumption DEF BeginFails, NewScope, DatabaseTypes, TxcInv, ctxVars, dbVars, Contexts, Txs
  <2>4. HistoryTypes'
    BY <1>9, <1>0, <2>0, UnitAssumption DEF BeginFails, NewScope, HistoryTypes, ControlTypes, TxcInv, history, Contexts, Txs
  <2>5. TxcInv'
    BY <1>9, <1>0, <2>0, UnitAssumption DEF BeginFails, NewScope, TxcInv, ContextTypes, ControlTypes, ctxVars, Contexts, Txs
  <2>6. QED
    BY <2>1, <2>2, <2>3, <2>4, <2>5
<1>10. ASSUME NEW c \in Clients, FnReturnsNil(c) \/ FnReturnsError(c) \/ FnPanics(c)
      PROVE  TInv'
  <2>1. ContextTypes'
    BY <1>10, <1>0, UnitAssumption DEF FnReturnsNil, FnReturnsError, FnPanics, ContextTypes, ControlTypes, ctxVars
  <2>2. ControlTypes'
    BY <1>10, <1>0, UnitAssumption DEF FnReturnsNil, FnReturnsError, FnPanics, ControlTypes
  <2>3. DatabaseTypes'
    BY <1>10, <1>0, UnitAssumption DEF FnReturnsNil, FnReturnsError, FnPanics, DatabaseTypes, TxcInv, ctxVars, dbVars
  <2>4. HistoryTypes'
    BY <1>10, <1>0, UnitAssumption DEF FnReturnsNil, FnReturnsError, FnPanics, HistoryTypes, ControlTypes, TxcInv, history
  <2>5. TxcInv'
    BY <1>10, <1>0, UnitAssumption DEF FnReturnsNil, FnReturnsError, FnPanics, TxcInv, ContextTypes, ControlTypes, ctxVars
  <2>6. QED
    BY <2>1, <2>2, <2>3, <2>4, <2>5
<1>11. ASSUME NEW c \in Clients, NEW res \in {"nil", "unknown"}, CommitTx(c, res)
      PROVE  TInv'
  <2>0. tx[c] \in Txs /\ work[tx[c]] \in Seq(PatchIds)
    BY <1>11, <1>0 DEF CommitTx, TxcInv, DatabaseTypes
  <2>t. table \o Written(c, tx[c], work[tx[c]]) \in Seq(Entry)
    BY <2>0, TableGrows DEF DatabaseTypes, ContextTypes
  <2>1. ContextTypes'
    BY <1>11, <1>0, <2>0, <2>t, UnitAssumption DEF CommitTx, ContextTypes, ControlTypes, ctxVars
  <2>2. ControlTypes'
    BY <1>11, <1>0, <2>0, <2>t, UnitAssumption DEF CommitTx, ControlTypes
  <2>3. DatabaseTypes'
    BY <1>11, <1>0, <2>0, <2>t, UnitAssumption DEF CommitTx, DatabaseTypes, TxcInv, ctxVars, dbVars
  <2>4. HistoryTypes'
    BY <1>11, <1>0, <2>0, <2>t, UnitAssumption DEF CommitTx, HistoryTypes, ControlTypes, TxcInv, history
  <2>5. TxcInv'
    BY <1>11, <1>0, <2>0, <2>t, UnitAssumption DEF CommitTx, TxcInv, ContextTypes, ControlTypes, ctxVars
  <2>6. QED
    BY <2>1, <2>2, <2>3, <2>4, <2>5
<1>12. ASSUME NEW c \in Clients, CommitFails(c)
      PROVE  TInv'
  <2>1. ContextTypes'
    BY <1>12, <1>0, UnitAssumption DEF CommitFails, ContextTypes, ControlTypes, ctxVars
  <2>2. ControlTypes'
    BY <1>12, <1>0, UnitAssumption DEF CommitFails, ControlTypes
  <2>3. DatabaseTypes'
    BY <1>12, <1>0, UnitAssumption DEF CommitFails, DatabaseTypes, TxcInv, ctxVars, dbVars
  <2>4. HistoryTypes'
    BY <1>12, <1>0, UnitAssumption DEF CommitFails, HistoryTypes, ControlTypes, TxcInv, history
  <2>5. TxcInv'
    BY <1>12, <1>0, UnitAssumption DEF CommitFails, TxcInv, ContextTypes, ControlTypes, ctxVars
  <2>6. QED
    BY <2>1, <2>2, <2>3, <2>4, <2>5
<1>13. ASSUME NEW c \in Clients, DeferredRollback(c)
      PROVE  TInv'
  <2>1. ContextTypes'
    BY <1>13, <1>0, UnitAssumption DEF DeferredRollback, ContextTypes, ControlTypes, ctxVars
  <2>2. ControlTypes'
    BY <1>13, <1>0, UnitAssumption DEF DeferredRollback, ControlTypes
  <2>3. DatabaseTypes'
    BY <1>13, <1>0, UnitAssumption DEF DeferredRollback, DatabaseTypes, TxcInv, ctxVars, dbVars
  <2>4. HistoryTypes'
    BY <1>13, <1>0, UnitAssumption DEF DeferredRollback, HistoryTypes, ControlTypes, TxcInv, history
  <2>5. TxcInv'
    BY <1>13, <1>0, UnitAssumption DEF DeferredRollback, TxcInv, ContextTypes, ControlTypes, ctxVars
  <2>6. QED
    BY <2>1, <2>2, <2>3, <2>4, <2>5
<1>14. ASSUME NEW t \in Txs, AutoRollback(t)
      PROVE  TInv'
  <2>1. ContextTypes'
    BY <1>14, <1>0, UnitAssumption DEF AutoRollback, ContextTypes, ControlTypes, ctxVars
  <2>2. ControlTypes'
    BY <1>14, <1>0, UnitAssumption DEF AutoRollback, ControlTypes
  <2>3. DatabaseTypes'
    BY <1>14, <1>0, UnitAssumption DEF AutoRollback, DatabaseTypes, TxcInv, ctxVars, dbVars
  <2>4. HistoryTypes'
    BY <1>14, <1>0, UnitAssumption DEF AutoRollback, HistoryTypes, ControlTypes, TxcInv, history
  <2>5. TxcInv'
    BY <1>14, <1>0, UnitAssumption DEF AutoRollback, TxcInv, ContextTypes, ControlTypes, ctxVars
  <2>6. QED
    BY <2>1, <2>2, <2>3, <2>4, <2>5
<1>15. CASE UNCHANGED vars
  BY <1>15 DEF vars, ContextTypes, ControlTypes, DatabaseTypes, HistoryTypes, TxcInv
<1>16. QED
  BY <1>1, <1>2, <1>3, <1>4, <1>5, <1>6, <1>7, <1>8, <1>9, <1>10, <1>11, <1>12, <1>13, <1>14, <1>15
     DEF Next, CtxStep, ScopeStep

\* The variables keep their types, and txc is used only within or after a
\* scope of its client (db_ctx.go, tx_scope.go).
THEOREM TypeCorrect == Spec => []TypeOK
<1>1. TInv => TypeOK
  BY DEF TInv
<1>2. QED
  BY InitType, NextType, <1>1, PTL DEF Spec

-----------------------------------------------------------------------------
(* Transactions *)

\* fn of the client's last TxScope is running, or what follows it.
InScope(c) ==
  \/ pc[c] \in {"fn", "commit", "defer"}
  \/ pc[c] = "save" /\ back[c] = "fn"

\* Each scope has a transaction of its own, and those to come are untouched.
OwnTx ==
  /\ \A c \in Clients : tx[c] < nextTx
  /\ \A c, d \in Clients : c # d /\ tx[c] = tx[d] => tx[c] = 0
  /\ \A t \in Txs : t >= nextTx => state[t] = "none" /\ told[t] = "none"

\* While a scope runs nothing was told of it, and only its Commit commits it.
\* Its deferred Rollback meets a committed transaction only with the result of
\* that Commit to return.
WhileInScope ==
  \A c \in Clients : InScope(c) =>
    /\ told[tx[c]] = "none"
    /\ pc[c] # "defer" \/ ret[c] \in {"err", "panic"}
         => state[tx[c]] \in {"active", "rolledback"}
    /\ pc[c] = "defer" /\ ret[c] \notin {"err", "panic"} => state[tx[c]] = "committed"

\* Once it has returned, its transaction is over.
AfterScope ==
  \A c \in Clients : ~InScope(c) /\ tx[c] # 0 => state[tx[c]] # "active"

\* Rows come from committed transactions, errors from those that are not.
RowsAreCommitted ==
  \A i \in DOMAIN table : table[i].tx # 0 => state[table[i].tx] = "committed"
ErrorsAreNot ==
  \A t \in Txs : told[t] \in {"err", "panic"} => state[t] # "committed" /\ state[t] # "active"

SInv == OwnTx /\ WhileInScope /\ AfterScope /\ RowsAreCommitted /\ ErrorsAreNot

LEMMA InScopeHasTx ==
  ASSUME TInv, NEW c \in Clients, InScope(c)
  PROVE  tx[c] \in Txs
BY UnitAssumption DEF TInv, TypeOK, ContextTypes, TxcInv, InScope, Txs

\* A step that neither begins nor ends a transaction or a scope, writes no row
\* for one, and reaches the deferred Rollback only with an error or a panic.
Quiet ==
  /\ UNCHANGED <<tx, state, told, nextTx>>
  /\ \A i \in DOMAIN table' : table'[i].tx # 0 => i \in DOMAIN table /\ table'[i] = table[i]
  /\ \A c \in Clients :
       /\ InScope(c)' <=> InScope(c)
       /\ pc[c] = "defer" => pc'[c] = "defer"
       /\ pc'[c] = "defer" =>
            IF pc[c] = "defer" THEN ret'[c] = ret[c] ELSE ret'[c] \in {"err", "panic"}

LEMMA QuietStep == SInv /\ Quiet => SInv'
<1> SUFFICES ASSUME SInv, Quiet PROVE SInv'
  OBVIOUS
<1>1. OwnTx' /\ ErrorsAreNot'
  BY DEF SInv, Quiet, OwnTx, ErrorsAreNot
<1>2. AfterScope'
  BY DEF SInv, Quiet, AfterScope
<1>3. RowsAreCommitted'
  BY DEF SInv, Quiet, RowsAreCommitted
<1>4. WhileInScope'
  <2> SUFFICES ASSUME NEW c \in Clients, InScope(c)'
               PROVE  /\ told[tx[c]] = "none"
                      /\ pc'[c] # "defer" \/ ret'[c] \in {"err", "panic"}
                           => state[tx[c]] \in {"active", "rolledback"}
                      /\ pc'[c] = "defer" /\ ret'[c] \notin {"err", "panic"}
                           => state[tx[c]] = "committed"
    BY DEF Quiet, WhileInScope
  <2>1. InScope(c)
    BY DEF Quiet
  <2>2. QED
    BY <2>1 DEF SInv, WhileInScope, Quiet
<1>5. QED
  BY <1>1, <1>2, <1>3, <1>4 DEF SInv

\* The calls of a DBContext, and the ends of fn other than a Commit.
LEMMA CtxIsQuiet ==
  ASSUME TInv, NEW c \in Clients,
         CtxStep(c) \/ FnReturnsNil(c) \/ FnReturnsError(c) \/ FnPanics(c)
  PROVE  Quiet
<1> USE DEF TInv, TypeOK
<1>1. ASSUME NEW x \in Contexts, Patch(c, x) \/ CompilePatch(c, x) \/ CompilePanics(c, x)
      PROVE  Quiet
  BY <1>1 DEF Patch, CompilePatch, CompilePanics, Quiet, InScope, Running, dbVars, history,
              ControlTypes
<1>2. CASE UseTx(c) \/ ExecFails(c) \/ SaveReturnsNil(c)
  BY <1>2 DEF UseTx, ExecFails, SaveReturnsNil, Quiet, InScope, dbVars, ctxVars, history,
              ControlTypes
<1>3. ASSUME NEW n \in 1..MaxPatch, Exec(c, n)
      PROVE  Quiet
  <2> DEFINE s == SubSeq(queue[c], 1, n)
  <2>1. \A d \in Clients : (InScope(d)' <=> InScope(d)) /\ pc'[d] = pc[d] /\ ret'[d] = ret[d]
    BY <1>3 DEF Exec, InScope
  <2>2. UNCHANGED <<tx, state, told, nextTx>>
    BY <1>3 DEF Exec, history
  <2>3. s \in Seq(PatchIds) /\ 0 \in 0..MaxTx /\ table \in Seq(Entry)
    <3>1. queue[c] \in Seq(PatchIds) /\ n \in 1..Len(queue[c])
      BY <1>3 DEF Exec, ContextTypes
    <3>2. QED
      BY <3>1, SubSeqProperties, UnitAssumption DEF DatabaseTypes
  <2>4. table' = table \o Written(c, 0, s) \/ table' = table
    BY <1>3 DEF Exec
  <2> HIDE DEF s
  <2>5. \A i \in DOMAIN (table \o Written(c, 0, s)) :
          \/ i \in DOMAIN table /\ (table \o Written(c, 0, s))[i] = table[i]
          \/ (table \o Written(c, 0, s))[i].tx = 0
    BY <2>3, TableGrows
  <2>6. \A i \in DOMAIN table' : table'[i].tx # 0 => i \in DOMAIN table /\ table'[i] = table[i]
    BY <2>4, <2>5
  <2>7. QED
    BY <2>1, <2>2, <2>6 DEF Quiet
<1>4. CASE FnReturnsNil(c) \/ FnReturnsError(c) \/ FnPanics(c)
  BY <1>4 DEF FnReturnsNil, FnReturnsError, FnPanics, Quiet, InScope, dbVars, ctxVars, history,
              ControlTypes
<1>5. QED
  BY <1>1, <1>2, <1>3, <1>4 DEF CtxStep

LEMMA InitSafe == Init => SInv
BY UnitAssumption DEF Init, SInv, OwnTx, WhileInScope, AfterScope, RowsAreCommitted, ErrorsAreNot,
   InScope, Txs

LEMMA NextSafe == TInv /\ SInv /\ [Next]_vars => SInv'
<1> SUFFICES ASSUME TInv, SInv, [Next]_vars PROVE SInv'
  OBVIOUS
<1>0. \A c \in Clients : InScope(c) => tx[c] \in Txs
  BY InScopeHasTx
<1>t. /\ tx \in [Clients -> 0..MaxTx] /\ nextTx \in 1..MaxTx + 1
      /\ pc \in [Clients -> {"outside", "fn", "save", "commit", "defer"}]
      /\ ret \in [Clients -> {"none", "nil", "unknown", "err", "panic"}]
      /\ state \in [Txs -> {"none", "active", "committed", "rolledback"}]
      /\ told \in [Txs -> {"none", "nil", "unknown", "err", "panic"}]
      /\ table \in Seq(Entry)
  BY DEF TInv, TypeOK, ContextTypes, ControlTypes, DatabaseTypes, HistoryTypes
<1>e. \A i \in DOMAIN table : table[i].tx \in 0..MaxTx
  BY <1>t, RowTx
<1>1. ASSUME NEW c \in Clients, Begin(c)
      PROVE  SInv'
  <2>0. /\ ~InScope(c) /\ nextTx \in Txs
        /\ \A d \in Clients : d # c => (InScope(d)' <=> InScope(d))
        /\ InScope(c)' /\ pc'[c] = "fn"
        /\ \A d \in Clients : d # c => pc'[d] = pc[d] /\ ret'[d] = ret[d] /\ tx'[d] = tx[d]
        /\ tx'[c] = nextTx /\ nextTx' = nextTx + 1 /\ UNCHANGED <<told, table>>
        /\ state' = [state EXCEPT ![nextTx] = "active"]
    BY <1>1, <1>t DEF Begin, NewScope, InScope, Txs
  <2>1. OwnTx'
    <3>1. \A d \in Clients : tx[d] < nextTx /\ tx[d] \in Nat
      BY <1>t DEF SInv, OwnTx
    <3>2. \A d \in Clients : tx'[d] < nextTx'
      BY <2>0, <3>1, <1>t
    <3>3. \A d, e \in Clients : d # e /\ tx'[d] = tx'[e] => tx'[d] = 0
      BY <2>0, <3>1, <1>t DEF SInv, OwnTx
    <3>4. \A t \in Txs : t >= nextTx' => state'[t] = "none" /\ told'[t] = "none"
      BY <2>0, <1>t DEF SInv, OwnTx, Txs
    <3>5. QED
      BY <3>2, <3>3, <3>4 DEF OwnTx
  <2>2. WhileInScope'
    BY <2>0, <1>0, <1>t DEF SInv, WhileInScope, OwnTx, Txs
  <2>3. AfterScope'
    BY <2>0, <1>t, SMTT(20) DEF SInv, AfterScope, OwnTx, Txs
  <2>4. RowsAreCommitted'
    BY <2>0, <1>t, <1>e DEF SInv, RowsAreCommitted, OwnTx, Txs
  <2>5. ErrorsAreNot'
    BY <2>0, <1>t DEF SInv, ErrorsAreNot, OwnTx, Txs
  <2>6. QED
    BY <2>1, <2>2, <2>3, <2>4, <2>5 DEF SInv
<1>2. ASSUME NEW c \in Clients, BeginFails(c)
      PROVE  SInv'
  <2>0. /\ ~InScope(c) /\ nextTx \in Txs
        /\ \A d \in Clients : InScope(d)' <=> InScope(d)
        /\ \A d \in Clients : d # c => tx'[d] = tx[d]
        /\ tx'[c] = nextTx /\ nextTx' = nextTx + 1 /\ UNCHANGED <<state, table, pc, ret>>
        /\ told' = [told EXCEPT ![nextTx] = "err"]
    BY <1>2, <1>t DEF BeginFails, NewScope, InScope, Txs
  <2>1. OwnTx'
    <3>1. \A d \in Clients : tx[d] < nextTx /\ tx[d] \in Nat
      BY <1>t DEF SInv, OwnTx
    <3>2. \A d \in Clients : tx'[d] < nextTx'
      BY <2>0, <3>1, <1>t
    <3>3. \A d, e \in Clients : d # e /\ tx'[d] = tx'[e] => tx'[d] = 0
      BY <2>0, <3>1, <1>t DEF SInv, OwnTx
    <3>4. \A t \in Txs : t >= nextTx' => state'[t] = "none" /\ told'[t] = "none"
      BY <2>0, <1>t DEF SInv, OwnTx, Txs
    <3>5. QED
      BY <3>2, <3>3, <3>4 DEF OwnTx
  <2>2. WhileInScope'
    BY <2>0, <1>0, <1>t DEF SInv, WhileInScope, OwnTx, Txs
  <2>3. AfterScope'
    BY <2>0, <1>t DEF SInv, AfterScope, OwnTx, Txs
  <2>4. RowsAreCommitted'
    BY <2>0 DEF SInv, RowsAreCommitted
  <2>5. ErrorsAreNot'
    BY <2>0, <1>t DEF SInv, ErrorsAreNot, OwnTx, Txs
  <2>6. QED
    BY <2>1, <2>2, <2>3, <2>4, <2>5 DEF SInv
<1>3. ASSUME NEW c \in Clients, NEW res \in {"nil", "unknown"}, CommitTx(c, res)
      PROVE  SInv'
  <2>0. /\ InScope(c) /\ tx[c] \in Txs /\ tx[c] # 0 /\ state[tx[c]] = "active"
        /\ \A d \in Clients : InScope(d)' <=> InScope(d)
        /\ \A d \in Clients : d # c => pc'[d] = pc[d] /\ ret'[d] = ret[d] /\ tx[d] # tx[c]
        /\ pc'[c] = "defer" /\ ret'[c] = res /\ UNCHANGED <<told, tx, nextTx>>
        /\ state' = [state EXCEPT ![tx[c]] = "committed"]
        /\ table' = table \o Written(c, tx[c], work[tx[c]])
    BY <1>3, <1>0, <1>t DEF CommitTx, InScope, Txs, SInv, OwnTx, ctxVars, history
  <2>1. OwnTx'
    BY <2>0, <1>t DEF SInv, OwnTx, Txs
  <2>2. WhileInScope'
    BY <2>0, <1>0, <1>t DEF SInv, WhileInScope
  <2>3. AfterScope'
    BY <2>0, <1>t DEF SInv, AfterScope, Txs
  <2>4. RowsAreCommitted'
    <3>1. work[tx[c]] \in Seq(PatchIds) /\ tx[c] \in 0..MaxTx
      BY <2>0, <1>t DEF TInv, TypeOK, DatabaseTypes
    <3>2. \A i \in DOMAIN table' :
            \/ i \in DOMAIN table /\ table'[i] = table[i]
            \/ table'[i].tx = tx[c]
      <4>1. table \in Seq(Entry) /\ table' = table \o Written(c, tx[c], work[tx[c]])
        BY <2>0, <1>t
      <4>2. QED
        BY ONLY <3>1, <4>1, TableGrows
    <3>3. \A t \in Txs : state[t] = "committed" => state'[t] = "committed"
      BY <2>0, <1>t
    <3>4. state'[tx[c]] = "committed"
      BY <2>0, <1>t
    <3>5. ASSUME NEW i \in DOMAIN table', table'[i].tx # 0
          PROVE  state'[table'[i].tx] = "committed"
      <4>1. CASE table'[i].tx = tx[c]
        BY <4>1, <3>4
      <4>2. CASE i \in DOMAIN table /\ table'[i] = table[i]
        <5>1. table[i].tx \in Txs /\ state[table[i].tx] = "committed"
          BY <4>2, <3>5, <1>e, UnitAssumption DEF SInv, RowsAreCommitted, Txs
        <5>2. QED
          BY <5>1, <4>2, <3>3
      <4>3. QED
        BY <4>1, <4>2, <3>2
    <3>6. QED
      BY <3>5 DEF RowsAreCommitted
  <2>5. ErrorsAreNot'
    BY <2>0, <1>t DEF SInv, ErrorsAreNot, WhileInScope, Txs
  <2>6. QED
    BY <2>1, <2>2, <2>3, <2>4, <2>5 DEF SInv
<1>4. ASSUME NEW c \in Clients, CommitFails(c)
      PROVE  SInv'
  <2>0. /\ InScope(c) /\ tx[c] \in Txs /\ tx[c] # 0
        /\ state[tx[c]] \in {"active", "rolledback"}
        /\ \A d \in Clients : InScope(d)' <=> InScope(d)
        /\ \A d \in Clients : d # c => pc'[d] = pc[d] /\ ret'[d] = ret[d] /\ tx[d] # tx[c]
        /\ pc'[c] = "defer" /\ ret'[c] = "err" /\ UNCHANGED <<told, tx, nextTx, table>>
        /\ state' = [state EXCEPT ![tx[c]] = "rolledback"]
    BY <1>4, <1>0, <1>t DEF CommitFails, InScope, Txs, SInv, OwnTx, WhileInScope, ctxVars, history
  <2>1. OwnTx'
    BY <2>0, <1>t DEF SInv, OwnTx, Txs
  <2>2. WhileInScope'
    BY <2>0, <1>0, <1>t DEF SInv, WhileInScope
  <2>3. AfterScope'
    BY <2>0, <1>t DEF SInv, AfterScope, Txs
  <2>4. RowsAreCommitted'
    BY <2>0, <1>t, <1>e DEF SInv, RowsAreCommitted, Txs
  <2>5. ErrorsAreNot'
    BY <2>0, <1>t DEF SInv, ErrorsAreNot, Txs
  <2>6. QED
    BY <2>1, <2>2, <2>3, <2>4, <2>5 DEF SInv
<1>5. ASSUME NEW c \in Clients, DeferredRollback(c)
      PROVE  SInv'
  <2>0. /\ InScope(c) /\ tx[c] \in Txs /\ tx[c] # 0 /\ pc[c] = "defer"
        /\ ~InScope(c)' /\ pc'[c] = "outside"
        /\ \A d \in Clients : d # c =>
             (InScope(d)' <=> InScope(d)) /\ pc'[d] = pc[d] /\ tx[d] # tx[c]
        /\ UNCHANGED <<ret, tx, nextTx, table>>
        /\ told' = [told EXCEPT ![tx[c]] = ret[c]]
    BY <1>5, <1>0, <1>t DEF DeferredRollback, InScope, Txs, SInv, OwnTx, ctxVars
  <2>a. /\ state' \in [Txs -> {"none", "active", "committed", "rolledback"}]
        /\ \A t \in Txs : t # tx[c] => state'[t] = state[t]
        /\ state'[tx[c]] \in {"committed", "rolledback"}
        /\ state[tx[c]] = "committed" => state'[tx[c]] = "committed"
        /\ ret[c] \in {"err", "panic"} => state'[tx[c]] = "rolledback"
    BY <1>5, <2>0, <1>t DEF DeferredRollback, SInv, WhileInScope
  <2>1. OwnTx'
    BY <2>0, <2>a, <1>t DEF SInv, OwnTx, Txs
  <2>2. WhileInScope'
    BY <2>0, <2>a, <1>0, <1>t DEF SInv, WhileInScope
  <2>3. AfterScope'
    BY <2>0, <2>a, <1>t DEF SInv, AfterScope, Txs
  <2>4. RowsAreCommitted'
    BY <2>0, <2>a, <1>t, <1>e DEF SInv, RowsAreCommitted, Txs
  <2>5. ErrorsAreNot'
    BY <2>0, <2>a, <1>t DEF SInv, ErrorsAreNot, Txs
  <2>6. QED
    BY <2>1, <2>2, <2>3, <2>4, <2>5 DEF SInv
<1>6. ASSUME NEW t \in Txs, AutoRollback(t)
      PROVE  SInv'
  <2>0. /\ state[t] = "active" /\ state' = [state EXCEPT ![t] = "rolledback"]
        /\ \A d \in Clients : InScope(d)' <=> InScope(d)
        /\ UNCHANGED <<pc, ret, tx, nextTx, table, told>>
    BY <1>6 DEF AutoRollback, InScope, ctxVars, history
  <2>1. OwnTx'
    BY <2>0, <1>t DEF SInv, OwnTx, Txs
  <2>2. WhileInScope'
    BY <2>0, <1>0, <1>t DEF SInv, WhileInScope
  <2>3. AfterScope'
    BY <2>0, <1>t DEF SInv, AfterScope, Txs
  <2>4. RowsAreCommitted'
    BY <2>0, <1>t, <1>e DEF SInv, RowsAreCommitted, Txs
  <2>5. ErrorsAreNot'
    BY <2>0, <1>t DEF SInv, ErrorsAreNot, Txs
  <2>6. QED
    BY <2>1, <2>2, <2>3, <2>4, <2>5 DEF SInv
<1>7. CASE UNCHANGED vars
  BY <1>7 DEF vars, SInv, OwnTx, WhileInScope, AfterScope, RowsAreCommitted, ErrorsAreNot, InScope
<1>8. QED
  BY <1>1, <1>2, <1>3, <1>4, <1>5, <1>6, <1>7, CtxIsQuiet, QuietStep DEF Next, ScopeStep

LEMMA Safe == Spec => [](TInv /\ SInv)
<1>1. Init => TInv /\ SInv
  BY InitType, InitSafe
<1>2. TInv /\ SInv /\ [Next]_vars => (TInv /\ SInv)'
  BY NextType, NextSafe
<1>3. QED
  BY <1>1, <1>2, PTL DEF Spec

\* A TxScope that returned an error, other than for a Commit whose answer was
\* lost, or that was left by a panic has no row in the database
\* (tx_scope.go:14-26).
THEOREM NothingOfAFailedScope == Spec => []NotNilMeansNothing
<1>1. TInv /\ SInv => NotNilMeansNothing
  <2> SUFFICES ASSUME TInv, SInv, NEW i \in DOMAIN table, table[i].tx # 0
               PROVE  told[table[i].tx] \notin {"err", "panic"}
    BY DEF NotNilMeansNothing
  <2>1. table[i].tx \in Txs
    BY RowTx, UnitAssumption DEF TInv, TypeOK, DatabaseTypes, Txs
  <2>2. QED
    BY <2>1 DEF SInv, RowsAreCommitted, ErrorsAreNot
<1>2. QED
  BY Safe, <1>1, PTL

\* No goroutine that has left TxScope, however it left it, has a transaction
\* still open (tx_scope.go:18-20).
THEOREM NoTxIsLeaked == Spec => []NoOpenTxOutside
<1>1. SInv => NoOpenTxOutside
  BY DEF SInv, AfterScope, NoOpenTxOutside, InScope
<1>2. QED
  BY Safe, <1>1, PTL

\* The deferred Rollback, a late SaveChanges on txc and a cancelled context
\* leave a finished transaction as it ended (tx_scope.go:18-20,
\* db_ctx.go:214-225).
THEOREM FinishedStaysFinished == Spec => FinishedIsFinal
<1> DEFINE Kept == \A t \in Txs : state[t] \in {"committed", "rolledback"}
                     => state'[t] = state[t] /\ work'[t] = work[t]
<1>1. TInv /\ SInv /\ [Next]_vars => [Kept]_vars
  <2> SUFFICES ASSUME TInv, SInv, [Next]_vars PROVE Kept
    OBVIOUS
  <2> SUFFICES ASSUME NEW t \in Txs, state[t] \in {"committed", "rolledback"}
               PROVE  state'[t] = state[t] /\ work'[t] = work[t]
    OBVIOUS
  <2>t. /\ state \in [Txs -> {"none", "active", "committed", "rolledback"}]
        /\ work \in [Txs -> Seq(PatchIds)] /\ nextTx \in 1..MaxTx + 1
    BY DEF TInv, TypeOK, ControlTypes, DatabaseTypes
  <2>1. ASSUME NEW c \in Clients, CtxStep(c)
        PROVE  state'[t] = state[t] /\ work'[t] = work[t]
    <3>1. ASSUME NEW x \in Contexts, Patch(c, x) \/ CompilePatch(c, x) \/ CompilePanics(c, x)
          PROVE  UNCHANGED dbVars
      BY <3>1 DEF Patch, CompilePatch, CompilePanics
    <3>2. CASE UseTx(c) \/ ExecFails(c) \/ SaveReturnsNil(c)
      BY <3>2 DEF UseTx, ExecFails, SaveReturnsNil, dbVars
    <3>3. ASSUME NEW n \in 1..MaxPatch, Exec(c, n)
          PROVE  state'[t] = state[t] /\ work'[t] = work[t]
      <4>1. state' = state
        BY <3>3 DEF Exec
      <4>2. CASE saving[c] = "dbc"
        BY <3>3, <4>1, <4>2 DEF Exec
      <4>3. CASE saving[c] # "dbc"
        <5>1. tx[c] # t /\ work' = [work EXCEPT ![tx[c]] = @ \o SubSeq(queue[c], 1, n)]
          BY <3>3, <4>3 DEF Exec
        <5>2. QED
          BY <5>1, <4>1, <2>t
      <4>4. QED
        BY <4>2, <4>3
    <3>4. QED
      BY <2>1, <3>1, <3>2, <3>3 DEF CtxStep, dbVars
  <2>2. ASSUME NEW c \in Clients, Begin(c) \/ BeginFails(c)
        PROVE  state'[t] = state[t] /\ work'[t] = work[t]
    <3>1. t # nextTx
      BY <2>t DEF SInv, OwnTx, Txs
    <3>2. QED
      BY <2>2, <2>t, <3>1 DEF Begin, BeginFails, NewScope
  <2>3. ASSUME NEW c \in Clients, FnReturnsNil(c) \/ FnReturnsError(c) \/ FnPanics(c)
        PROVE  state'[t] = state[t] /\ work'[t] = work[t]
    BY <2>3 DEF FnReturnsNil, FnReturnsError, FnPanics, dbVars
  <2>4. ASSUME NEW c \in Clients, CommitTx(c, "nil") \/ CommitTx(c, "unknown")
        PROVE  state'[t] = state[t] /\ work'[t] = work[t]
    BY <2>4, <2>t DEF CommitTx
  <2>5. ASSUME NEW c \in Clients, CommitFails(c)
        PROVE  state'[t] = state[t] /\ work'[t] = work[t]
    <3>1. tx[c] \in Txs /\ state[tx[c]] \in {"active", "rolledback"}
      BY <2>5, InScopeHasTx DEF CommitFails, InScope, SInv, WhileInScope
    <3>2. QED
      BY <2>5, <2>t, <3>1 DEF CommitFails
  <2>6. ASSUME NEW c \in Clients, DeferredRollback(c)
        PROVE  state'[t] = state[t] /\ work'[t] = work[t]
    BY <2>6, <2>t DEF DeferredRollback
  <2>7. ASSUME NEW u \in Txs, AutoRollback(u)
        PROVE  state'[t] = state[t] /\ work'[t] = work[t]
    BY <2>7, <2>t DEF AutoRollback
  <2>8. CASE UNCHANGED vars
    BY <2>8 DEF vars
  <2>9. QED
    BY <2>1, <2>2, <2>3, <2>4, <2>5, <2>6, <2>7, <2>8 DEF Next, ScopeStep
<1>2. QED
  BY Safe, <1>1, PTL DEF Spec, FinishedIsFinal

-----------------------------------------------------------------------------
(* The patches: the inductive invariant *)

\* What is empty when: the buffer that is being saved, the queue when nothing
\* is, and what belongs to a context or a transaction that is not there yet.
EmptyInv ==
  /\ \A c \in Clients :
       /\ pc[c] = "save" => buffer[c][saving[c]] = <<>> /\ (saving[c] = "txc" => hasTxc[c])
       /\ pc[c] # "save" => queue[c] = <<>>
       /\ ~hasTxc[c] => buffer[c]["txc"] = <<>> /\ (tx[c] # 0 => work[tx[c]] = <<>>)
  /\ \A t \in Txs : t >= nextTx => work[t] = <<>> /\ drained[t] = <<>>

Below(s, n) == \A i \in DOMAIN s : s[i] < n
Above(s, p) == \A i \in DOMAIN s : p < s[i]
Growing(s) == \A i, j \in DOMAIN s : i < j => s[i] < s[j]
Before(s, u) == \A i \in DOMAIN s, j \in DOMAIN u : s[i] < u[j]

\* Every patch there is was added before the next one.
OldInv ==
  /\ \A c \in Clients : Below(queue[c], nextPatch)
  /\ \A c \in Clients, x \in Contexts : Below(buffer[c][x], nextPatch)
  /\ \A t \in Txs : Below(work[t], nextPatch)
  /\ \A i \in DOMAIN table : table[i].patch < nextPatch

\* The order in which patches were added is the order in each of the places
\* they go through, and from one place to the next.
InOrder ==
  /\ \A c \in Clients : Growing(queue[c])
  /\ \A c \in Clients, x \in Contexts : Growing(buffer[c][x])
  /\ \A t \in Txs : Growing(work[t])

WorkFirst ==
  \A c \in Clients : tx[c] # 0 =>
    /\ Before(work[tx[c]], buffer[c]["txc"])
    /\ saving[c] = "txc" => Before(work[tx[c]], queue[c])

RowsFirst ==
  \A i \in DOMAIN table, c \in Clients : table[i].client = c /\ table[i].tx = 0 =>
    /\ Above(buffer[c]["dbc"], table[i].patch)
    /\ saving[c] = "dbc" => Above(queue[c], table[i].patch)

OInv == EmptyInv /\ OldInv /\ InOrder /\ WorkFirst /\ RowsFirst /\ PatchOrder

\* What is known so far.
KInv == TInv /\ SInv

-----------------------------------------------------------------------------
(* Lemmas about sequences *)

\* A table with some more rows.
LEMMA RowsWritten ==
  ASSUME NEW tab \in Seq(Entry), NEW c \in Clients, NEW t \in 0..MaxTx,
         NEW s \in Seq(PatchIds)
  PROVE  /\ tab \o Written(c, t, s) \in Seq(Entry)
         /\ Len(tab \o Written(c, t, s)) = Len(tab) + Len(s)
         /\ \A i \in 1..Len(tab) : (tab \o Written(c, t, s))[i] = tab[i]
         /\ \A i \in 1..Len(tab) + Len(s) : i > Len(tab) =>
              /\ i - Len(tab) \in 1..Len(s)
              /\ (tab \o Written(c, t, s))[i] = [patch |-> s[i - Len(tab)], client |-> c, tx |-> t]
<1> DEFINE w == Written(c, t, s)
<1>1. w \in Seq(Entry) /\ Len(w) = Len(s)
  BY WrittenType DEF Written
<1>2. \A j \in 1..Len(s) : w[j] = [patch |-> s[j], client |-> c, tx |-> t]
  BY DEF Written
<1> HIDE DEF w
<1>3. /\ tab \o w \in Seq(Entry)
      /\ Len(tab \o w) = Len(tab) + Len(w)
      /\ \A i \in 1..Len(tab) + Len(w) :
           (tab \o w)[i] = IF i <= Len(tab) THEN tab[i] ELSE w[i - Len(tab)]
  BY <1>1, ConcatProperties
<1>4. QED
  BY <1>1, <1>2, <1>3 DEF w

LEMMA RowsAdded ==
  ASSUME NEW tab \in Seq(Entry), NEW c \in Clients, NEW t \in 0..MaxTx,
         NEW s \in Seq(PatchIds)
  PROVE  LET new == tab \o Written(c, t, s) IN
         /\ new \in Seq(Entry) /\ Len(tab) \in Nat /\ Len(s) \in Nat
         /\ DOMAIN tab = 1..Len(tab) /\ DOMAIN s = 1..Len(s)
         /\ DOMAIN new = 1..Len(tab) + Len(s)
         /\ \A i \in DOMAIN tab : i \in DOMAIN new /\ i <= Len(tab) /\ new[i] = tab[i]
         /\ \A i \in DOMAIN new : i \notin DOMAIN tab =>
              /\ i > Len(tab) /\ i - Len(tab) \in DOMAIN s
              /\ new[i].patch = s[i - Len(tab)] /\ new[i].client = c /\ new[i].tx = t
<1> DEFINE new == tab \o Written(c, t, s)
<1>1. /\ new \in Seq(Entry) /\ Len(new) = Len(tab) + Len(s)
      /\ \A i \in 1..Len(tab) : new[i] = tab[i]
      /\ \A i \in 1..Len(tab) + Len(s) : i > Len(tab) =>
           /\ i - Len(tab) \in 1..Len(s)
           /\ new[i] = [patch |-> s[i - Len(tab)], client |-> c, tx |-> t]
  BY RowsWritten
<1> HIDE DEF new
<1>2. /\ Len(tab) \in Nat /\ Len(s) \in Nat
      /\ DOMAIN tab = 1..Len(tab) /\ DOMAIN s = 1..Len(s) /\ DOMAIN new = 1..Len(tab) + Len(s)
  BY <1>1
<1>3. ASSUME NEW i \in DOMAIN new, i \notin DOMAIN tab
      PROVE  /\ i > Len(tab) /\ i - Len(tab) \in DOMAIN s
             /\ new[i].patch = s[i - Len(tab)] /\ new[i].client = c /\ new[i].tx = t
  <2>1. i > Len(tab) /\ i \in 1..Len(tab) + Len(s)
    BY <1>2, <1>3
  <2>2. new[i] = [patch |-> s[i - Len(tab)], client |-> c, tx |-> t] /\ i - Len(tab) \in 1..Len(s)
    BY <1>1, <2>1
  <2>3. QED
    BY <1>2, <2>1, <2>2
<1>4. \A i \in DOMAIN tab : i \in DOMAIN new /\ i <= Len(tab) /\ new[i] = tab[i]
  BY <1>1, <1>2
<1>5. QED
  BY <1>1, <1>2, <1>3, <1>4 DEF new

LEMMA NothingInOrder ==
  /\ Growing(<<>>)
  /\ \A n \in Nat : Below(<<>>, n) /\ Above(<<>>, n)
  /\ \A s \in Seq(PatchIds) : Before(<<>>, s) /\ Before(s, <<>>)
BY DEF Growing, Below, Above, Before

LEMMA Joined ==
  ASSUME NEW s \in Seq(PatchIds), NEW u \in Seq(PatchIds), NEW v \in Seq(PatchIds)
  PROVE  s \o (u \o v) = (s \o u) \o v
BY ConcatAssociative

LEMMA Numbers ==
  \A s \in Seq(PatchIds) : \A i \in DOMAIN s : s[i] \in PatchIds /\ s[i] \in Nat
<1>1. PatchIds \subseteq Nat
  BY DEF PatchIds
<1>2. \A s \in Seq(PatchIds) : \A i \in DOMAIN s : s[i] \in PatchIds
  OBVIOUS
<1>3. QED
  BY <1>1, <1>2

LEMMA MoreAreBelow ==
  ASSUME NEW s \in Seq(PatchIds), NEW n \in Nat, Below(s, n)
  PROVE  Below(s, n + 1)
BY Numbers DEF Below

\* A new patch comes last.
LEMMA Appended ==
  ASSUME NEW s \in Seq(PatchIds), NEW n \in PatchIds, Growing(s), Below(s, n)
  PROVE  /\ Append(s, n) \in Seq(PatchIds) /\ Append(s, n) # <<>>
         /\ Growing(Append(s, n)) /\ Below(Append(s, n), n + 1)
         /\ \A u \in Seq(PatchIds) : Before(u, s) /\ Below(u, n) => Before(u, Append(s, n))
         /\ \A p \in PatchIds : Above(s, p) /\ p < n => Above(Append(s, n), p)
<1>1. /\ Append(s, n) \in Seq(PatchIds) /\ DOMAIN Append(s, n) = 1..Len(s) + 1
      /\ \A i \in 1..Len(s) + 1 : Append(s, n)[i] = IF i = Len(s) + 1 THEN n ELSE s[i]
  OBVIOUS
<1> DEFINE a == Append(s, n)
<1>2. DOMAIN s = 1..Len(s) /\ Len(s) \in Nat
  OBVIOUS
<1>3. \A u \in Seq(PatchIds) : \A i \in DOMAIN u : u[i] \in Int
  BY Numbers
<1>4. n \in Int /\ \A p \in PatchIds : p \in Int
  BY DEF PatchIds
<1> HIDE DEF a
<1>5. a # <<>>
  BY <1>1, <1>2 DEF a
<1>6. Growing(a)
  BY <1>1, <1>2 DEF a, Growing, Below
<1>7. Below(a, n + 1)
  BY <1>1, <1>2, <1>3, <1>4 DEF a, Below
<1>8. ASSUME NEW u \in Seq(PatchIds), Before(u, s), Below(u, n)
      PROVE  Before(u, a)
  BY <1>1, <1>2, <1>8 DEF a, Before, Below
<1>9. ASSUME NEW p \in PatchIds, Above(s, p), p < n
      PROVE  Above(a, p)
  BY <1>1, <1>2, <1>9 DEF a, Above
<1>10. QED
  BY <1>1, <1>5, <1>6, <1>7, <1>8, <1>9 DEF a

\* A sequence is cut in two.
LEMMA Cut ==
  ASSUME NEW s \in Seq(PatchIds), NEW n \in 1..Len(s)
  PROVE  LET h == SubSeq(s, 1, n)  r == SubSeq(s, n + 1, Len(s)) IN
         /\ h \in Seq(PatchIds) /\ Len(h) = n /\ \A i \in 1..n : h[i] = s[i]
         /\ r \in Seq(PatchIds) /\ Len(r) = Len(s) - n /\ \A i \in 1..Len(r) : r[i] = s[i + n]
         /\ s = h \o r
<1> DEFINE h == SubSeq(s, 1, n)
           r == SubSeq(s, n + 1, Len(s))
<1>1. h \in Seq(PatchIds) /\ Len(h) = n /\ \A i \in 1..n : h[i] = s[i]
  BY SubSeqProperties
<1>2. r \in Seq(PatchIds) /\ Len(r) = Len(s) - n /\ \A i \in 1..Len(s) - n : r[i] = s[i + n]
  BY SubSeqProperties
<1> HIDE DEF h, r
<1>n. Len(s) \in Nat /\ n \in Nat /\ Len(h) + Len(r) = Len(s)
  BY <1>1, <1>2
<1>3. /\ h \o r \in Seq(PatchIds) /\ Len(h \o r) = Len(s)
      /\ \A i \in 1..Len(s) : (h \o r)[i] = IF i <= n THEN h[i] ELSE r[i - n]
  <2>0. h \in Seq(PatchIds) /\ r \in Seq(PatchIds)
    BY <1>1, <1>2
  <2>1. /\ h \o r \in Seq(PatchIds) /\ Len(h \o r) = Len(h) + Len(r)
        /\ \A i \in 1..Len(h) + Len(r) : (h \o r)[i] = IF i <= Len(h) THEN h[i] ELSE r[i - Len(h)]
    BY <2>0, ConcatProperties
  <2>2. QED
    BY <1>1, <1>n, <2>1
<1>4. ASSUME NEW i \in 1..Len(s) PROVE (h \o r)[i] = s[i]
  <2>1. CASE i <= n
    BY <1>1, <1>3, <1>n, <2>1
  <2>2. CASE i > n
    <3>1. i - n \in 1..Len(r) /\ (i - n) + n = i
      BY <1>2, <1>n, <2>2
    <3>2. r[i - n] = s[i]
      BY <1>2, <3>1
    <3>3. QED
      BY <1>3, <1>n, <2>2, <3>2
  <2>3. QED
    BY <1>n, <2>1, <2>2
<1>5. s = h \o r
  BY <1>3, <1>4, SeqEqual
<1>6. QED
  BY <1>1, <1>2, <1>5 DEF h, r

LEMMA CutInOrder ==
  ASSUME NEW s \in Seq(PatchIds), NEW n \in 1..Len(s), Growing(s)
  PROVE  LET h == SubSeq(s, 1, n)  r == SubSeq(s, n + 1, Len(s)) IN
         /\ Growing(h) /\ Growing(r) /\ Before(h, r)
         /\ \A m \in Nat : Below(s, m) => Below(h, m) /\ Below(r, m)
         /\ \A p \in Nat : Above(s, p) => Above(h, p) /\ Above(r, p)
         /\ \A u \in Seq(PatchIds) : Before(u, s) => Before(u, h) /\ Before(u, r)
         /\ \A i \in DOMAIN h : Above(r, h[i])
<1> DEFINE h == SubSeq(s, 1, n)
           r == SubSeq(s, n + 1, Len(s))
<1>1. h \in Seq(PatchIds) /\ Len(h) = n /\ \A i \in 1..n : h[i] = s[i]
  BY Cut
<1>2. r \in Seq(PatchIds) /\ Len(r) = Len(s) - n /\ \A i \in 1..Len(r) : r[i] = s[i + n]
  BY Cut
<1> HIDE DEF h, r
<1>3. \A i \in DOMAIN h : i \in DOMAIN s /\ i <= n /\ h[i] = s[i]
  BY <1>1
<1>4. \A i \in DOMAIN r : i + n \in DOMAIN s /\ i + n > n /\ r[i] = s[i + n] /\ i \in Nat
  BY <1>2
<1>5. Growing(h) /\ Growing(r) /\ Before(h, r) /\ \A i \in DOMAIN h : Above(r, h[i])
  BY <1>3, <1>4 DEF Growing, Before, Above
<1>6. \A m \in Nat : /\ Below(s, m) => Below(h, m) /\ Below(r, m)
                     /\ Above(s, m) => Above(h, m) /\ Above(r, m)
  BY <1>3, <1>4 DEF Below, Above
<1>7. \A u \in Seq(PatchIds) : Before(u, s) => Before(u, h) /\ Before(u, r)
  BY <1>3, <1>4 DEF Before
<1>8. QED
  BY <1>5, <1>6, <1>7 DEF h, r

LEMMA JoinedInOrder ==
  ASSUME NEW s \in Seq(PatchIds), NEW u \in Seq(PatchIds), Growing(s), Growing(u), Before(s, u)
  PROVE  /\ s \o u \in Seq(PatchIds) /\ Growing(s \o u)
         /\ \A m \in Nat : Below(s, m) /\ Below(u, m) => Below(s \o u, m)
         /\ \A v \in Seq(PatchIds) : Before(s, v) /\ Before(u, v) => Before(s \o u, v)
<1> DEFINE j == s \o u
<1>1. /\ j \in Seq(PatchIds) /\ Len(j) = Len(s) + Len(u)
      /\ \A i \in 1..Len(s) + Len(u) : j[i] = IF i <= Len(s) THEN s[i] ELSE u[i - Len(s)]
  BY ConcatProperties
<1> HIDE DEF j
<1>2. \A i \in DOMAIN j : \/ i \in DOMAIN s /\ j[i] = s[i]
                          \/ i > Len(s) /\ i - Len(s) \in DOMAIN u /\ j[i] = u[i - Len(s)]
  BY <1>1
<1>3. \A m \in Nat : Below(s, m) /\ Below(u, m) => Below(j, m)
  BY <1>2 DEF Below
<1>4. \A v \in Seq(PatchIds) : Before(s, v) /\ Before(u, v) => Before(j, v)
  BY <1>2 DEF Before
<1>5. ASSUME NEW a \in DOMAIN j, NEW b \in DOMAIN j, a < b
      PROVE  j[a] < j[b]
  <2>1. a \in Nat /\ b \in Nat /\ Len(s) \in Nat /\ DOMAIN s = 1..Len(s)
    BY <1>1
  <2>2. CASE b \in DOMAIN s
    BY <1>1, <1>5, <2>1, <2>2 DEF Growing
  <2>3. CASE a \in DOMAIN s /\ b > Len(s)
    BY <1>1, <1>2, <1>5, <2>1, <2>3 DEF Before
  <2>4. CASE a > Len(s) /\ b > Len(s)
    <3>1. a - Len(s) \in DOMAIN u /\ b - Len(s) \in DOMAIN u /\ a - Len(s) < b - Len(s)
      BY <1>2, <1>5, <2>1, <2>4
    <3>2. j[a] = u[a - Len(s)] /\ j[b] = u[b - Len(s)]
      BY <1>1, <1>5, <2>1, <2>4
    <3>3. QED
      BY <3>1, <3>2 DEF Growing
  <2>5. QED
    BY <1>1, <1>5, <2>1, <2>2, <2>3, <2>4
<1>6. QED
  BY <1>1, <1>3, <1>4, <1>5 DEF j, Growing

-----------------------------------------------------------------------------
(* What the actions do, client by client and buffer by buffer *)

LEMMA Known ==
  ASSUME TInv
  PROVE  /\ \A c \in Clients, x \in Contexts : buffer[c][x] \in Seq(PatchIds)
         /\ \A c \in Clients : queue[c] \in Seq(PatchIds) /\ saving[c] \in Contexts
         /\ \A c \in Clients : tx[c] # 0 => tx[c] \in Txs
         /\ \A c \in Clients : tx[c] \in Nat /\ back[c] \in {"outside", "fn"} /\ hasTxc[c] \in BOOLEAN
         /\ \A t \in Txs : work[t] \in Seq(PatchIds) /\ drained[t] \in Seq(PatchIds)
         /\ table \in Seq(Entry) /\ \A i \in DOMAIN table : table[i].patch \in PatchIds
         /\ nextPatch \in Nat /\ nextTx \in Nat
<1>1. \A c \in Clients, x \in Contexts : buffer[c][x] \in Seq(PatchIds)
  BY DEF TInv, TypeOK, ContextTypes
<1>2. \A i \in DOMAIN table : table[i].patch \in PatchIds
  <2>1. \A i \in DOMAIN table : table[i] \in Entry
    BY DEF TInv, TypeOK, DatabaseTypes
  <2>2. QED
    BY <2>1 DEF Entry
<1>3. QED
  BY <1>1, <1>2, UnitAssumption
     DEF TInv, TypeOK, ContextTypes, ControlTypes, DatabaseTypes, HistoryTypes, Txs

LEMMA PatchDoes ==
  ASSUME TInv, NEW c \in Clients, NEW x \in Contexts, Patch(c, x)
  PROVE  /\ UNCHANGED <<queue, saving, pc, back, tx, hasTxc, state, work, table, nextTx,
                        told, drained, failed, lost, copied>>
         /\ pc[c] # "save" /\ (x = "txc" => hasTxc[c])
         /\ nextPatch \in PatchIds /\ nextPatch' = nextPatch + 1
         /\ \A d \in Clients, y \in Contexts :
              buffer'[d][y] = IF d = c /\ y = x THEN Append(buffer[c][x], nextPatch) ELSE buffer[d][y]
BY UnitAssumption DEF Patch, Running, Usable, dbVars, history, PatchIds, TInv, TypeOK, ContextTypes, ControlTypes

LEMMA UseTxDoes ==
  ASSUME TInv, NEW c \in Clients, UseTx(c)
  PROVE  /\ UNCHANGED <<queue, saving, pc, back, tx, state, work, table, nextPatch, nextTx,
                        told, drained, failed, lost>>
         /\ pc[c] = "fn" /\ ~hasTxc[c] /\ tx[c] # 0
         /\ \A d \in Clients : hasTxc'[d] = IF d = c THEN TRUE ELSE hasTxc[d]
         /\ copied' = copied \cup Ids(buffer[c]["dbc"])
         /\ \A d \in Clients, y \in Contexts :
              buffer'[d][y] = IF d = c /\ y = "txc" THEN buffer[c]["dbc"] ELSE buffer[d][y]
BY DEF UseTx, dbVars, TInv, TypeOK, ContextTypes, TxcInv, Contexts

LEMMA CompilePatchDoes ==
  ASSUME TInv, NEW c \in Clients, NEW x \in Contexts, CompilePatch(c, x)
  PROVE  /\ UNCHANGED <<tx, hasTxc, state, work, table, nextPatch, nextTx, told, failed, lost, copied>>
         /\ pc[c] \in {"outside", "fn"} /\ (x = "txc" => hasTxc[c] /\ tx[c] # 0)
         /\ \A d \in Clients :
              /\ pc'[d] = IF d = c THEN "save" ELSE pc[d]
              /\ back'[d] = IF d = c THEN pc[c] ELSE back[d]
              /\ saving'[d] = IF d = c THEN x ELSE saving[d]
              /\ queue'[d] = IF d = c THEN buffer[c][x] ELSE queue[d]
         /\ \A d \in Clients, y \in Contexts :
              buffer'[d][y] = IF d = c /\ y = x THEN <<>> ELSE buffer[d][y]
         /\ \A t \in Txs : drained'[t] = IF x = "txc" /\ pc[c] = "fn" /\ t = tx[c]
                                           THEN drained[t] \o buffer[c][x] ELSE drained[t]
BY DEF CompilePatch, Running, Usable, dbVars, TInv, TypeOK, ContextTypes, ControlTypes, HistoryTypes, TxcInv

LEMMA CompilePanicsDoes ==
  ASSUME TInv, NEW c \in Clients, NEW x \in Contexts, CompilePanics(c, x)
  PROVE  /\ UNCHANGED <<queue, saving, back, tx, hasTxc, state, work, table, nextPatch, nextTx,
                        told, drained, failed, copied>>
         /\ pc[c] \in {"outside", "fn"} /\ (x = "txc" => hasTxc[c])
         /\ \A d \in Clients :
              pc'[d] = IF d = c THEN (IF pc[c] = "fn" THEN "defer" ELSE "outside") ELSE pc[d]
         /\ lost' = lost \cup Ids(buffer[c][x])
         /\ \A d \in Clients, y \in Contexts :
              buffer'[d][y] = IF d = c /\ y = x THEN <<>> ELSE buffer[d][y]
BY DEF CompilePanics, Running, Usable, dbVars, TInv, TypeOK, ContextTypes, ControlTypes

LEMMA ExecDoes ==
  ASSUME TInv, NEW c \in Clients, NEW n \in 1..MaxPatch, Exec(c, n)
  PROVE  LET s == SubSeq(queue[c], 1, n)  r == SubSeq(queue[c], n + 1, Len(queue[c])) IN
         /\ UNCHANGED <<buffer, saving, pc, back, tx, hasTxc, state, nextPatch, nextTx,
                        told, drained, failed, lost, copied>>
         /\ pc[c] = "save" /\ n \in 1..Len(queue[c])
         /\ \A d \in Clients : queue'[d] = IF d = c THEN r ELSE queue[d]
         /\ saving[c] = "dbc" => table' = table \o Written(c, 0, s) /\ UNCHANGED work
         /\ saving[c] # "dbc" =>
              /\ saving[c] = "txc" /\ tx[c] \in Txs /\ state[tx[c]] = "active" /\ UNCHANGED table
              /\ \A t \in Txs : work'[t] = IF t = tx[c] THEN work[t] \o s ELSE work[t]
<1>1. saving[c] # "dbc" /\ pc[c] = "save" => saving[c] = "txc" /\ tx[c] # 0 /\ tx[c] \in Txs
  BY Known DEF TInv, TxcInv, Contexts
<1>2. QED
  BY <1>1 DEF Exec, history, TInv, TypeOK, ContextTypes, DatabaseTypes

LEMMA ExecFailsDoes ==
  ASSUME TInv, NEW c \in Clients, ExecFails(c)
  PROVE  /\ UNCHANGED <<buffer, saving, back, tx, hasTxc, state, work, table, nextPatch, nextTx,
                        told, drained, copied>>
         /\ pc[c] = "save" /\ back[c] \in {"outside", "fn"}
         /\ \A d \in Clients : /\ pc'[d] = IF d = c THEN back[c] ELSE pc[d]
                               /\ queue'[d] = IF d = c THEN <<>> ELSE queue[d]
         /\ lost' = lost \cup Ids(queue[c])
         /\ failed' = IF saving[c] = "txc" /\ back[c] = "fn" THEN failed \cup {tx[c]} ELSE failed
BY DEF ExecFails, dbVars, TInv, TypeOK, ContextTypes, ControlTypes

LEMMA SaveReturnsNilDoes ==
  ASSUME TInv, NEW c \in Clients, SaveReturnsNil(c)
  PROVE  /\ UNCHANGED <<buffer, queue, saving, back, tx, hasTxc, state, work, table, nextPatch, nextTx,
                        told, drained, failed, lost, copied>>
         /\ pc[c] = "save" /\ back[c] \in {"outside", "fn"} /\ queue[c] = <<>>
         /\ \A d \in Clients : pc'[d] = IF d = c THEN back[c] ELSE pc[d]
BY DEF SaveReturnsNil, dbVars, ctxVars, history, TInv, TypeOK, ContextTypes, ControlTypes

LEMMA NewScopeDoes ==
  ASSUME TInv, NEW c \in Clients, Begin(c) \/ BeginFails(c)
  PROVE  /\ UNCHANGED <<queue, saving, back, work, table, nextPatch, drained, failed, copied>>
         /\ pc[c] = "outside" /\ nextTx \in Txs /\ nextTx' = nextTx + 1
         /\ \A d \in Clients : /\ tx'[d] = IF d = c THEN nextTx ELSE tx[d]
                               /\ hasTxc'[d] = IF d = c THEN FALSE ELSE hasTxc[d]
                               /\ d # c => pc'[d] = pc[d]
         /\ (pc'[c] = "fn" /\ told' = told) \/ (pc'[c] = "outside" /\ told'[nextTx] = "err")
         /\ \A t \in Txs : t # nextTx => state'[t] = state[t] /\ told'[t] = told[t]
         /\ state'[nextTx] = "active" \/ state' = state
         /\ lost' = lost \cup Ids(buffer[c]["txc"])
         /\ \A d \in Clients, y \in Contexts :
              buffer'[d][y] = IF d = c /\ y = "txc" THEN <<>> ELSE buffer[d][y]
<1>1. NewScope(c)
  BY DEF Begin, BeginFails
<1>2. nextTx \in Txs
  BY <1>1, UnitAssumption DEF NewScope, TInv, TypeOK, ControlTypes, Txs
<1>3. /\ (pc'[c] = "fn" /\ told' = told) \/ (pc'[c] = "outside" /\ told'[nextTx] = "err")
      /\ \A d \in Clients : d # c => pc'[d] = pc[d]
      /\ \A t \in Txs : t # nextTx => state'[t] = state[t] /\ told'[t] = told[t]
      /\ state'[nextTx] = "active" \/ state' = state
  <2>1. CASE Begin(c)
    BY <1>2, <2>1 DEF Begin, TInv, TypeOK, ControlTypes, DatabaseTypes
  <2>2. CASE BeginFails(c)
    BY <1>1, <1>2, <2>2 DEF BeginFails, NewScope, TInv, TypeOK, HistoryTypes
  <2>3. QED
    BY <2>1, <2>2
<1>4. \A d \in Clients : /\ tx'[d] = IF d = c THEN nextTx ELSE tx[d]
                         /\ hasTxc'[d] = IF d = c THEN FALSE ELSE hasTxc[d]
  BY <1>1 DEF NewScope, TInv, TypeOK, ContextTypes
<1>5. \A d \in Clients, y \in Contexts :
        buffer'[d][y] = IF d = c /\ y = "txc" THEN <<>> ELSE buffer[d][y]
  BY <1>1 DEF NewScope, TInv, TypeOK, ContextTypes, Contexts
<1>6. QED
  BY <1>1, <1>2, <1>3, <1>4, <1>5 DEF NewScope

LEMMA CommitTxDoes ==
  ASSUME TInv, NEW c \in Clients, NEW res \in {"nil", "unknown"}, CommitTx(c, res)
  PROVE  /\ UNCHANGED <<buffer, queue, saving, back, tx, hasTxc, work, nextPatch, nextTx,
                        told, drained, failed, lost, copied>>
         /\ pc[c] = "commit" /\ tx[c] \in Txs /\ state[tx[c]] = "active"
         /\ \A d \in Clients : pc'[d] = IF d = c THEN "defer" ELSE pc[d]
         /\ \A t \in Txs : state'[t] = IF t = tx[c] THEN "committed" ELSE state[t]
         /\ table' = table \o Written(c, tx[c], work[tx[c]])
<1>1. pc[c] = "commit" => tx[c] \in Txs
  BY Known DEF TInv, TxcInv
<1>2. QED
  BY <1>1 DEF CommitTx, ctxVars, history, TInv, TypeOK, ControlTypes, DatabaseTypes

\* The other steps of a scope touch neither the contexts nor the patches.
LEMMA ScopeDoes ==
  ASSUME TInv, NEW c \in Clients,
         \/ FnReturnsNil(c) \/ FnReturnsError(c) \/ FnPanics(c)
         \/ CommitFails(c) \/ DeferredRollback(c)
  PROVE  /\ UNCHANGED <<buffer, queue, saving, back, tx, hasTxc, work, table, nextPatch, nextTx,
                        drained, failed, lost, copied>>
         /\ pc[c] \in {"fn", "commit", "defer"} /\ pc'[c] \in {"commit", "defer", "outside"}
         /\ \A d \in Clients : d # c => pc'[d] = pc[d]
         /\ \A t \in Txs : /\ \/ state'[t] = state[t]
                              \/ state'[t] = "rolledback" /\ t = tx[c] /\ (pc[c] = "commit" \/ state[t] = "active")
                           /\ told'[t] = "nil" => \/ told[t] = "nil"
                                                  \/ pc[c] = "defer" /\ t = tx[c] /\ ret[c] = "nil"
<1> USE DEF TInv, TypeOK, ControlTypes, DatabaseTypes, HistoryTypes, dbVars, ctxVars, history
<1>1. CASE FnReturnsNil(c)
  BY <1>1 DEF FnReturnsNil
<1>2. CASE FnReturnsError(c) \/ FnPanics(c)
  BY <1>2 DEF FnReturnsError, FnPanics
<1>3. CASE CommitFails(c)
  BY <1>3 DEF CommitFails
<1>4. CASE DeferredRollback(c)
  BY <1>4 DEF DeferredRollback
<1>5. QED
  BY <1>1, <1>2, <1>3, <1>4

-----------------------------------------------------------------------------
(* Order *)

LEMMA InitOrder == Init => OInv
BY UnitAssumption DEF Init, OInv, EmptyInv, OldInv, InOrder, WorkFirst, RowsFirst, PatchOrder,
   Below, Above, Growing, Before, Contexts

LEMMA NextOrder == KInv /\ OInv /\ [Next]_vars => OInv'
<1> SUFFICES ASSUME KInv, OInv, [Next]_vars PROVE OInv'
  OBVIOUS
<1>t. TInv
  BY DEF KInv
<1>k. /\ \A c \in Clients, x \in Contexts : buffer[c][x] \in Seq(PatchIds)
      /\ \A c \in Clients : queue[c] \in Seq(PatchIds) /\ saving[c] \in Contexts
      /\ \A c \in Clients : tx[c] # 0 => tx[c] \in Txs
      /\ \A t \in Txs : work[t] \in Seq(PatchIds)
      /\ table \in Seq(Entry) /\ \A i \in DOMAIN table : table[i].patch \in PatchIds
      /\ nextPatch \in Nat /\ nextTx \in Nat
  BY <1>t, Known
<1>n. PatchIds \subseteq Nat
  BY DEF PatchIds
<1>o. /\ \A c \in Clients : tx[c] < nextTx
      /\ \A c, d \in Clients : c # d /\ tx[c] = tx[d] => tx[c] = 0
  BY DEF KInv, SInv, OwnTx
<1>x. \A x \in Contexts : x = "dbc" \/ x = "txc"
  BY DEF Contexts
<1>c. "dbc" \in Contexts /\ "txc" \in Contexts
  BY DEF Contexts

<1>1. ASSUME NEW c \in Clients, NEW x \in Contexts, Patch(c, x)
      PROVE  OInv'
  <2>e. /\ UNCHANGED <<queue, saving, pc, tx, hasTxc, work, drained, table, nextTx>>
        /\ pc[c] # "save" /\ (x = "txc" => hasTxc[c])
        /\ nextPatch \in PatchIds /\ nextPatch' = nextPatch + 1
        /\ \A d \in Clients, y \in Contexts :
             buffer'[d][y] = IF d = c /\ y = x THEN Append(buffer[c][x], nextPatch) ELSE buffer[d][y]
    BY <1>1, <1>t, PatchDoes
  <2> DEFINE new == Append(buffer[c][x], nextPatch)
  <2>n. /\ new # <<>> /\ Growing(new) /\ Below(new, nextPatch + 1)
        /\ \A u \in Seq(PatchIds) : Before(u, buffer[c][x]) /\ Below(u, nextPatch) => Before(u, new)
        /\ \A p \in PatchIds : Above(buffer[c][x], p) /\ p < nextPatch => Above(new, p)
    BY <2>e, <1>k, Appended DEF OInv, OldInv, InOrder
  <2>b. \A d \in Clients, y \in Contexts :
          buffer'[d][y] = IF d = c /\ y = x THEN new ELSE buffer[d][y]
    BY <2>e
  <2> HIDE DEF new
  <2>o. \A s \in Seq(PatchIds) : Below(s, nextPatch) => Below(s, nextPatch')
    BY <2>e, <1>k, MoreAreBelow
  <2>p. nextPatch' \in Nat /\ \A p \in PatchIds : p < nextPatch => p < nextPatch'
    BY <2>e, <1>n, <1>k
  <2>1. EmptyInv'
    BY <2>e, <2>b, <2>n, <1>k, <1>o, <1>c DEF OInv, EmptyInv
  <2>2. OldInv'
    BY <2>e, <2>b, <2>n, <2>o, <2>p, <1>k, <1>c DEF OInv, OldInv
  <2>3. InOrder'
    BY <2>e, <2>b, <2>n, <1>k, <1>c DEF OInv, InOrder
  <2>4. WorkFirst'
    BY <2>e, <2>b, <2>n, <1>x, <1>k, <1>o, <1>c DEF OInv, WorkFirst, OldInv
  <2>5. RowsFirst'
    <3>1. SUFFICES ASSUME NEW i \in DOMAIN table, NEW d \in Clients,
                          table[i].client = d, table[i].tx = 0
                   PROVE  /\ Above(buffer'[d]["dbc"], table[i].patch)
                          /\ saving'[d] = "dbc" => Above(queue'[d], table[i].patch)
      BY <2>e DEF RowsFirst
    <3>2. /\ Above(buffer[d]["dbc"], table[i].patch) /\ table[i].patch \in PatchIds
          /\ saving[d] = "dbc" => Above(queue[d], table[i].patch)
          /\ table[i].patch < nextPatch /\ Above(<<>>, table[i].patch)
      BY <3>1, <1>k, <1>n, NothingInOrder DEF OInv, RowsFirst, OldInv
    <3>3. QED
      BY <3>1, <3>2, <2>e, <2>b, <2>n, <1>c
  <2>6. PatchOrder'
    BY <2>e, <2>b, <2>n, <1>k DEF OInv, PatchOrder
  <2>7. QED
    BY <2>1, <2>2, <2>3, <2>4, <2>5, <2>6 DEF OInv
<1>2. ASSUME NEW c \in Clients, UseTx(c)
      PROVE  OInv'
  <2>e. /\ UNCHANGED <<queue, saving, pc, tx, work, drained, table, nextPatch, nextTx>>
        /\ pc[c] = "fn" /\ ~hasTxc[c]
        /\ \A d \in Clients : hasTxc'[d] = IF d = c THEN TRUE ELSE hasTxc[d]
        /\ \A d \in Clients, y \in Contexts :
             buffer'[d][y] = IF d = c /\ y = "txc" THEN buffer[c]["dbc"] ELSE buffer[d][y]
    BY <1>2, <1>t, UseTxDoes
  <2>1. EmptyInv'
    <3>0. \A t \in Txs : t >= nextTx' => work'[t] = <<>> /\ drained'[t] = <<>>
      BY <2>e, <1>k DEF OInv, EmptyInv
    <3>1. SUFFICES ASSUME NEW d \in Clients
                   PROVE  /\ pc'[d] = "save" => (buffer'[d][saving'[d]] = <<>> /\ (saving'[d] = "txc" => hasTxc'[d]))
                          /\ pc'[d] # "save" => queue'[d] = <<>>
                          /\ ~hasTxc'[d] => (buffer'[d]["txc"] = <<>> /\ (tx'[d] # 0 => work'[tx'[d]] = <<>>))
      BY <3>0 DEF EmptyInv
    <3>2. /\ pc[d] = "save" => buffer[d][saving[d]] = <<>> /\ (saving[d] = "txc" => hasTxc[d])
          /\ pc[d] # "save" => queue[d] = <<>>
          /\ ~hasTxc[d] => buffer[d]["txc"] = <<>> /\ (tx[d] # 0 => work[tx[d]] = <<>>)
          /\ saving[d] \in Contexts
      BY <1>k DEF OInv, EmptyInv
    <3>3. CASE d = c
      BY <3>2, <3>3, <2>e, <1>c
    <3>4. CASE d # c
      BY <3>2, <3>4, <2>e, <1>c
    <3>5. QED
      BY <3>3, <3>4
  <2>2. OldInv'
    BY <2>e, <1>k, <1>c DEF OInv, OldInv
  <2>3. InOrder'
    BY <2>e, <1>k, <1>c DEF OInv, InOrder
  <2>4. WorkFirst'
    BY <2>e, NothingInOrder, <1>k, <1>o, <1>c DEF OInv, WorkFirst, EmptyInv
  <2>5. RowsFirst'
    BY <2>e, <1>k, <1>c DEF OInv, RowsFirst
  <2>6. PatchOrder'
    BY <2>e, <1>k DEF OInv, PatchOrder
  <2>7. QED
    BY <2>1, <2>2, <2>3, <2>4, <2>5, <2>6 DEF OInv
<1>3. ASSUME NEW c \in Clients, NEW x \in Contexts, CompilePatch(c, x)
      PROVE  OInv'
  <2>e. /\ UNCHANGED <<tx, hasTxc, work, table, nextPatch, nextTx>>
        /\ pc[c] \in {"outside", "fn"} /\ (x = "txc" => hasTxc[c] /\ tx[c] # 0)
        /\ \A d \in Clients :
             /\ pc'[d] = IF d = c THEN "save" ELSE pc[d]
             /\ saving'[d] = IF d = c THEN x ELSE saving[d]
             /\ queue'[d] = IF d = c THEN buffer[c][x] ELSE queue[d]
        /\ \A d \in Clients, y \in Contexts :
             buffer'[d][y] = IF d = c /\ y = x THEN <<>> ELSE buffer[d][y]
        /\ \A t \in Txs : drained'[t] = IF x = "txc" /\ pc[c] = "fn" /\ t = tx[c]
                                          THEN drained[t] \o buffer[c][x] ELSE drained[t]
    BY <1>3, <1>t, CompilePatchDoes
  <2>d. \A t \in Txs : t >= nextTx => drained'[t] = drained[t]
    BY <2>e, <1>o, <1>k DEF Txs
  <2>1. EmptyInv'
    BY <2>e, <2>d, <1>x, <1>k, <1>o, <1>c DEF OInv, EmptyInv
  <2>2. OldInv'
    BY <2>e, NothingInOrder, <1>k, <1>c DEF OInv, OldInv
  <2>3. InOrder'
    BY <2>e, NothingInOrder, <1>k, <1>c DEF OInv, InOrder
  <2>4. WorkFirst'
    BY <2>e, <1>x, NothingInOrder, <1>k, <1>o, <1>c DEF OInv, WorkFirst
  <2>5. RowsFirst'
    <3>1. SUFFICES ASSUME NEW i \in DOMAIN table, NEW d \in Clients,
                          table[i].client = d, table[i].tx = 0
                   PROVE  /\ Above(buffer'[d]["dbc"], table[i].patch)
                          /\ saving'[d] = "dbc" => Above(queue'[d], table[i].patch)
      BY <2>e DEF RowsFirst
    <3>2. /\ Above(buffer[d]["dbc"], table[i].patch) /\ table[i].patch \in PatchIds
          /\ saving[d] = "dbc" => Above(queue[d], table[i].patch)
          /\ table[i].patch < nextPatch /\ Above(<<>>, table[i].patch)
      BY <3>1, <1>k, <1>n, NothingInOrder DEF OInv, RowsFirst, OldInv
    <3>3. QED
      BY <3>1, <3>2, <2>e, <1>c
  <2>6. PatchOrder'
    BY <2>e, <1>k DEF OInv, PatchOrder
  <2>7. QED
    BY <2>1, <2>2, <2>3, <2>4, <2>5, <2>6 DEF OInv
<1>4. ASSUME NEW c \in Clients, NEW x \in Contexts, CompilePanics(c, x)
      PROVE  OInv'
  <2>e. /\ UNCHANGED <<queue, saving, tx, hasTxc, work, drained, table, nextPatch, nextTx>>
        /\ pc[c] \in {"outside", "fn"} /\ (x = "txc" => hasTxc[c])
        /\ \A d \in Clients : pc'[d] = IF d = c THEN (IF pc[c] = "fn" THEN "defer" ELSE "outside") ELSE pc[d]
        /\ \A d \in Clients, y \in Contexts :
             buffer'[d][y] = IF d = c /\ y = x THEN <<>> ELSE buffer[d][y]
    BY <1>4, <1>t, CompilePanicsDoes
  <2>1. EmptyInv'
    BY <2>e, <1>k, <1>o, <1>c DEF OInv, EmptyInv
  <2>2. OldInv'
    BY <2>e, NothingInOrder, <1>k, <1>c DEF OInv, OldInv
  <2>3. InOrder'
    BY <2>e, NothingInOrder, <1>k, <1>c DEF OInv, InOrder
  <2>4. WorkFirst'
    BY <2>e, <1>x, NothingInOrder, <1>k, <1>o, <1>c DEF OInv, WorkFirst
  <2>5. RowsFirst'
    <3>1. SUFFICES ASSUME NEW i \in DOMAIN table, NEW d \in Clients,
                          table[i].client = d, table[i].tx = 0
                   PROVE  /\ Above(buffer'[d]["dbc"], table[i].patch)
                          /\ saving'[d] = "dbc" => Above(queue'[d], table[i].patch)
      BY <2>e DEF RowsFirst
    <3>2. /\ Above(buffer[d]["dbc"], table[i].patch) /\ table[i].patch \in PatchIds
          /\ saving[d] = "dbc" => Above(queue[d], table[i].patch)
          /\ table[i].patch < nextPatch /\ Above(<<>>, table[i].patch)
      BY <3>1, <1>k, <1>n, NothingInOrder DEF OInv, RowsFirst, OldInv
    <3>3. QED
      BY <3>1, <3>2, <2>e, <1>c
  <2>6. PatchOrder'
    BY <2>e, <1>k DEF OInv, PatchOrder
  <2>7. QED
    BY <2>1, <2>2, <2>3, <2>4, <2>5, <2>6 DEF OInv
<1>5. ASSUME NEW c \in Clients, NEW n \in 1..MaxPatch, Exec(c, n)
      PROVE  OInv'
  <2> DEFINE s == SubSeq(queue[c], 1, n)
             r == SubSeq(queue[c], n + 1, Len(queue[c]))
  <2>e. /\ UNCHANGED <<buffer, saving, pc, tx, hasTxc, drained, nextPatch, nextTx>>
        /\ pc[c] = "save" /\ n \in 1..Len(queue[c])
        /\ \A d \in Clients : queue'[d] = IF d = c THEN r ELSE queue[d]
        /\ saving[c] = "dbc" => table' = table \o Written(c, 0, s) /\ UNCHANGED work
        /\ saving[c] # "dbc" =>
             /\ saving[c] = "txc" /\ tx[c] \in Txs /\ UNCHANGED table
             /\ \A t \in Txs : work'[t] = IF t = tx[c] THEN work[t] \o s ELSE work[t]
    BY <1>5, <1>t, ExecDoes
  <2>s. s \in Seq(PatchIds) /\ r \in Seq(PatchIds) /\ Len(s) = n
    BY <2>e, <1>k, Cut
  <2>g. /\ Growing(s) /\ Growing(r) /\ Before(s, r) /\ \A i \in DOMAIN s : Above(r, s[i])
        /\ Below(s, nextPatch) /\ Below(r, nextPatch)
        /\ \A p \in Nat : Above(queue[c], p) => Above(s, p) /\ Above(r, p)
        /\ \A u \in Seq(PatchIds) : Before(u, queue[c]) => Before(u, s) /\ Before(u, r)
    BY <2>e, <1>k, CutInOrder DEF OInv, InOrder, OldInv
  <2> HIDE DEF s, r
  <2>1. EmptyInv'
    <3>1. saving[c] = "txc" => hasTxc[c]
      BY <2>e DEF OInv, EmptyInv
    <3>2. \A d \in Clients : d # c /\ tx[d] # 0 => tx[d] # tx[c]
      BY <1>o
    <3>3. \A t \in Txs : t >= nextTx => t # tx[c]
      BY <1>o, <1>k DEF Txs
    <3>4. QED
      BY <2>e, <3>1, <3>2, <3>3, <1>k DEF OInv, EmptyInv
  <2>3. InOrder'
    <3>1. saving[c] # "dbc" => Growing(work[tx[c]] \o s)
      BY <2>e, <2>s, <2>g, <1>k, JoinedInOrder, <1>o DEF OInv, InOrder, WorkFirst, Txs
    <3>2. QED
      BY <2>e, <2>g, <3>1 DEF OInv, InOrder
  <2>4. WorkFirst'
    <3>1. saving[c] # "dbc" => /\ Before(work[tx[c]] \o s, r)
                               /\ Before(work[tx[c]] \o s, buffer[c]["txc"])
      <4>1. SUFFICES ASSUME saving[c] # "dbc"
                     PROVE  Before(work[tx[c]] \o s, r) /\ Before(work[tx[c]] \o s, buffer[c]["txc"])
        OBVIOUS
      <4>2. tx[c] \in Txs /\ tx[c] # 0 /\ saving[c] = "txc" /\ work[tx[c]] \in Seq(PatchIds)
        BY <4>1, <2>e, <1>k DEF Txs
      <4>3. /\ Growing(work[tx[c]]) /\ Before(work[tx[c]], queue[c])
            /\ buffer[c]["txc"] = <<>>
        BY <4>2, <2>e DEF OInv, InOrder, WorkFirst, EmptyInv
      <4>4. /\ Before(work[tx[c]], s) /\ Before(work[tx[c]], r)
            /\ work[tx[c]] \o s \in Seq(PatchIds)
        BY <4>2, <4>3, <2>g, <2>s
      <4>5. QED
        BY <4>2, <4>3, <4>4, <2>g, <2>s, JoinedInOrder, NothingInOrder
    <3>2. \A d \in Clients : d # c /\ tx[d] # 0 => tx[d] # tx[c]
      BY <1>o
    <3>3. QED
      BY <2>e, <2>g, <3>1, <3>2, <1>k DEF OInv, WorkFirst
  <2>a. CASE saving[c] = "dbc"
    <3>0. 0 \in 0..MaxTx /\ table' = table \o Written(c, 0, s)
      BY <2>a, <2>e, UnitAssumption
    <3>1. /\ Len(table) \in Nat
          /\ \A i \in DOMAIN table : i \in DOMAIN table' /\ i <= Len(table) /\ table'[i] = table[i]
          /\ DOMAIN table = 1..Len(table) /\ DOMAIN table' = 1..Len(table) + Len(s)
      <4>1. table \in Seq(Entry) /\ s \in Seq(PatchIds)
        BY <2>s, <1>k
      <4>2. QED
        BY <3>0, <4>1, RowsAdded
    <3>2. \A i \in DOMAIN table' : \/ i \in DOMAIN table /\ table'[i] = table[i]
                                   \/ /\ i \notin DOMAIN table /\ i > Len(table)
                                      /\ i - Len(table) \in DOMAIN s
                                      /\ table'[i].patch = s[i - Len(table)]
                                      /\ table'[i].client = c /\ table'[i].tx = 0
      <4>1. table \in Seq(Entry) /\ s \in Seq(PatchIds)
        BY <2>s, <1>k
      <4>2. LET new == table \o Written(c, 0, s) IN
            \A i \in DOMAIN new : i \notin DOMAIN table =>
              /\ i > Len(table) /\ i - Len(table) \in DOMAIN s
              /\ new[i].patch = s[i - Len(table)] /\ new[i].client = c /\ new[i].tx = 0
        BY <3>0, <4>1, RowsAdded
      <4>3. QED
        BY <3>0, <3>1, <4>2
    <3>b. buffer[c]["dbc"] = <<>>
      BY <2>a, <2>e DEF OInv, EmptyInv
    <3>3. OldInv'
      BY <2>e, <2>a, <2>g, <3>2, <1>k DEF OInv, OldInv, Below
    <3>4. RowsFirst'
      <4>1. \A i \in DOMAIN s : s[i] \in Nat
        BY <2>s, Numbers
      <4>2. SUFFICES ASSUME NEW i \in DOMAIN table', NEW d \in Clients,
                            table'[i].client = d, table'[i].tx = 0
                     PROVE  /\ Above(buffer'[d]["dbc"], table'[i].patch)
                            /\ saving'[d] = "dbc" => Above(queue'[d], table'[i].patch)
        BY DEF RowsFirst
      <4>3. CASE i \in DOMAIN table /\ table'[i] = table[i]
        BY <4>2, <4>3, <2>e, <2>g, <1>k, <1>n DEF OInv, RowsFirst
      <4>4. CASE i \notin DOMAIN table
        BY <4>1, <4>2, <4>4, <3>2, <3>b, <2>e, <2>g, NothingInOrder
      <4>5. QED
        BY <4>3, <4>4, <3>2
    <3>5. PatchOrder'
      <4>1. SUFFICES ASSUME NEW i \in DOMAIN table', NEW j \in DOMAIN table', i < j,
                            table'[i].client = table'[j].client, table'[i].tx = table'[j].tx
                     PROVE  table'[i].patch < table'[j].patch
        BY DEF PatchOrder
      <4>2. CASE j \in DOMAIN table
        <5>1. i \in DOMAIN table
          BY <4>1, <4>2, <3>1, <1>k
        <5>2. QED
          BY <4>1, <4>2, <5>1, <3>1, <1>k DEF OInv, PatchOrder
      <4>3. CASE i \in DOMAIN table /\ j \notin DOMAIN table
        <5>1. Above(queue[c], table[i].patch)
          BY <4>1, <4>3, <3>2, <2>a DEF OInv, RowsFirst
        <5>2. Above(s, table[i].patch)
          BY <5>1, <4>3, <2>g, <1>k, <1>n
        <5>3. QED
          BY <5>2, <4>3, <3>2 DEF Above
      <4>4. CASE i \notin DOMAIN table /\ j \notin DOMAIN table
        <5>1. i - Len(table) < j - Len(table)
          BY <4>1, <3>1, <1>k
        <5>2. QED
          BY <5>1, <4>4, <3>2, <2>g DEF Growing
      <4>5. QED
        BY <4>1, <4>2, <4>3, <4>4, <3>1, <3>2, <1>k
    <3>6. QED
      BY <2>1, <2>3, <2>4, <3>3, <3>4, <3>5 DEF OInv
  <2>b. CASE saving[c] # "dbc"
    <3>1. OldInv'
      <4>1. Below(work[tx[c]] \o s, nextPatch)
        <5>1. tx[c] \in Txs /\ tx[c] # 0 /\ saving[c] = "txc" /\ work[tx[c]] \in Seq(PatchIds)
          BY <2>b, <2>e, <1>k DEF Txs
        <5>2. /\ Growing(work[tx[c]]) /\ Below(work[tx[c]], nextPatch)
              /\ Before(work[tx[c]], queue[c])
          BY <5>1 DEF OInv, InOrder, WorkFirst, OldInv
        <5>3. QED
          BY <5>1, <5>2, <2>g, <2>s, <1>k, JoinedInOrder
      <4>2. QED
        BY <2>e, <2>b, <2>g, <4>1, <1>k DEF OInv, OldInv
    <3>2. RowsFirst'
      BY <2>e, <2>b, <2>g, <1>k, <1>n DEF OInv, RowsFirst
    <3>3. PatchOrder'
      BY <2>e, <2>b DEF OInv, PatchOrder
    <3>4. QED
      BY <2>1, <2>3, <2>4, <3>1, <3>2, <3>3 DEF OInv
  <2>5. QED
    BY <2>a, <2>b
<1>6. ASSUME NEW c \in Clients, ExecFails(c)
      PROVE  OInv'
  <2>e. /\ UNCHANGED <<buffer, saving, tx, hasTxc, work, drained, table, nextPatch, nextTx>>
        /\ pc[c] = "save" /\ back[c] \in {"outside", "fn"}
        /\ \A d \in Clients : /\ pc'[d] = IF d = c THEN back[c] ELSE pc[d]
                              /\ queue'[d] = IF d = c THEN <<>> ELSE queue[d]
    BY <1>6, <1>t, ExecFailsDoes
  <2>1. EmptyInv'
    BY <2>e, <1>k, <1>o, <1>c DEF OInv, EmptyInv
  <2>2. OldInv'
    BY <2>e, NothingInOrder, <1>k, <1>c DEF OInv, OldInv
  <2>3. InOrder'
    BY <2>e, NothingInOrder, <1>k, <1>c DEF OInv, InOrder
  <2>4. WorkFirst'
    BY <2>e, NothingInOrder, <1>k, <1>o, <1>c DEF OInv, WorkFirst
  <2>5. RowsFirst'
    BY <2>e, <1>n, NothingInOrder, <1>k, <1>c DEF OInv, RowsFirst
  <2>6. PatchOrder'
    BY <2>e, <1>k DEF OInv, PatchOrder
  <2>7. QED
    BY <2>1, <2>2, <2>3, <2>4, <2>5, <2>6 DEF OInv
<1>7. ASSUME NEW c \in Clients, SaveReturnsNil(c)
      PROVE  OInv'
  <2>e. /\ UNCHANGED <<buffer, queue, saving, tx, hasTxc, work, drained, table, nextPatch, nextTx>>
        /\ pc[c] = "save" /\ back[c] \in {"outside", "fn"} /\ queue[c] = <<>>
        /\ \A d \in Clients : pc'[d] = IF d = c THEN back[c] ELSE pc[d]
    BY <1>7, <1>t, SaveReturnsNilDoes
  <2>1. EmptyInv'
    BY <2>e, <1>k, <1>o, <1>c DEF OInv, EmptyInv
  <2>2. OldInv'
    BY <2>e, <1>k, <1>c DEF OInv, OldInv
  <2>3. InOrder'
    BY <2>e, <1>k, <1>c DEF OInv, InOrder
  <2>4. WorkFirst'
    BY <2>e, <1>k, <1>o, <1>c DEF OInv, WorkFirst
  <2>5. RowsFirst'
    BY <2>e, <1>k, <1>c DEF OInv, RowsFirst
  <2>6. PatchOrder'
    BY <2>e, <1>k DEF OInv, PatchOrder
  <2>7. QED
    BY <2>1, <2>2, <2>3, <2>4, <2>5, <2>6 DEF OInv
<1>8. ASSUME NEW c \in Clients, Begin(c) \/ BeginFails(c)
      PROVE  OInv'
  <2>e. /\ UNCHANGED <<queue, saving, work, table, nextPatch, drained>>
        /\ pc[c] = "outside" /\ nextTx \in Txs /\ nextTx' = nextTx + 1
        /\ \A d \in Clients : /\ tx'[d] = IF d = c THEN nextTx ELSE tx[d]
                              /\ hasTxc'[d] = IF d = c THEN FALSE ELSE hasTxc[d]
                              /\ d # c => pc'[d] = pc[d]
        /\ pc'[c] \in {"fn", "outside"}
        /\ \A d \in Clients, y \in Contexts :
             buffer'[d][y] = IF d = c /\ y = "txc" THEN <<>> ELSE buffer[d][y]
    BY <1>8, <1>t, NewScopeDoes
  <2>n. queue[c] = <<>> /\ work[nextTx] = <<>> /\ \A t \in Txs : t >= nextTx' => t >= nextTx
    BY <2>e, <1>k DEF OInv, EmptyInv, Txs
  <2>1. EmptyInv'
    <3>0. \A t \in Txs : t >= nextTx' => work'[t] = <<>> /\ drained'[t] = <<>>
      BY <2>e, <2>n, <1>k DEF OInv, EmptyInv
    <3>1. SUFFICES ASSUME NEW d \in Clients
                   PROVE  /\ pc'[d] = "save" => (buffer'[d][saving'[d]] = <<>> /\ (saving'[d] = "txc" => hasTxc'[d]))
                          /\ pc'[d] # "save" => queue'[d] = <<>>
                          /\ ~hasTxc'[d] => (buffer'[d]["txc"] = <<>> /\ (tx'[d] # 0 => work'[tx'[d]] = <<>>))
      BY <3>0 DEF EmptyInv
    <3>2. /\ pc[d] = "save" => buffer[d][saving[d]] = <<>> /\ (saving[d] = "txc" => hasTxc[d])
          /\ pc[d] # "save" => queue[d] = <<>>
          /\ ~hasTxc[d] => buffer[d]["txc"] = <<>> /\ (tx[d] # 0 => work[tx[d]] = <<>>)
          /\ saving[d] \in Contexts
      BY <1>k DEF OInv, EmptyInv
    <3>3. CASE d = c
      BY <3>2, <3>3, <2>e, <2>n, <1>c
    <3>4. CASE d # c
      BY <3>2, <3>4, <2>e, <2>n, <1>c
    <3>5. QED
      BY <3>3, <3>4
  <2>2. OldInv'
    BY <2>e, <2>n, NothingInOrder, <1>k, <1>c DEF OInv, OldInv
  <2>3. InOrder'
    BY <2>e, <2>n, NothingInOrder, <1>k, <1>c DEF OInv, InOrder
  <2>4. WorkFirst'
    BY <2>e, <2>n, NothingInOrder, <1>k, <1>o, <1>c DEF OInv, WorkFirst
  <2>5. RowsFirst'
    BY <2>e, <2>n, <1>n, NothingInOrder, <1>k, <1>c DEF OInv, RowsFirst
  <2>6. PatchOrder'
    BY <2>e, <2>n, <1>k DEF OInv, PatchOrder
  <2>7. QED
    BY <2>1, <2>2, <2>3, <2>4, <2>5, <2>6 DEF OInv
<1>9. ASSUME NEW c \in Clients, NEW res \in {"nil", "unknown"}, CommitTx(c, res)
      PROVE  OInv'
  <2>e. /\ UNCHANGED <<buffer, queue, saving, tx, hasTxc, work, drained, nextPatch, nextTx>>
        /\ pc[c] = "commit" /\ tx[c] \in Txs /\ state[tx[c]] = "active"
        /\ \A d \in Clients : pc'[d] = IF d = c THEN "defer" ELSE pc[d]
        /\ table' = table \o Written(c, tx[c], work[tx[c]])
    BY <1>9, <1>t, CommitTxDoes
  <2> DEFINE s == work[tx[c]]
  <2>s. s \in Seq(PatchIds) /\ Growing(s) /\ Below(s, nextPatch) /\ tx[c] \in 0..MaxTx /\ tx[c] # 0
    BY <2>e, <1>k DEF OInv, InOrder, OldInv, Txs
  <2> HIDE DEF s
  <2>r. /\ DOMAIN table = 1..Len(table) /\ DOMAIN table' = 1..Len(table) + Len(s)
        /\ Len(table) \in Nat /\ Len(s) \in Nat
        /\ \A i \in DOMAIN table : table'[i] = table[i] /\ table[i].tx # tx[c]
        /\ \A i \in DOMAIN table' : i \notin DOMAIN table =>
             /\ i > Len(table) /\ i - Len(table) \in DOMAIN s
             /\ table'[i].patch = s[i - Len(table)] /\ table'[i].client = c
             /\ table'[i].tx = tx[c]
    <3>0. table' = table \o Written(c, tx[c], s)
      BY <2>e DEF s
    <3>1. \A i \in DOMAIN table : table[i].tx # tx[c]
      BY <2>e, <2>s, <1>k DEF KInv, SInv, RowsAreCommitted
    <3>2. table \in Seq(Entry) /\ s \in Seq(PatchIds) /\ tx[c] \in 0..MaxTx
      BY <2>s, <1>k
    <3>3. LET new == table \o Written(c, tx[c], s) IN
          /\ new \in Seq(Entry) /\ Len(table) \in Nat /\ Len(s) \in Nat
          /\ DOMAIN table = 1..Len(table) /\ DOMAIN s = 1..Len(s)
          /\ DOMAIN new = 1..Len(table) + Len(s)
          /\ \A i \in DOMAIN table : i \in DOMAIN new /\ i <= Len(table) /\ new[i] = table[i]
          /\ \A i \in DOMAIN new : i \notin DOMAIN table =>
               /\ i > Len(table) /\ i - Len(table) \in DOMAIN s
               /\ new[i].patch = s[i - Len(table)] /\ new[i].client = c /\ new[i].tx = tx[c]
      BY <3>2, RowsAdded
    <3>4. QED
      BY <3>0, <3>1, <3>3
  <2>d. \A i \in DOMAIN table' : \/ i \in DOMAIN table /\ table'[i] = table[i]
                                 \/ table'[i].tx # 0 /\ \E j \in DOMAIN s : table'[i].patch = s[j]
    BY <2>r, <2>s
  <2>1. EmptyInv'
    BY <2>e, <1>k, <1>o, <1>c DEF OInv, EmptyInv
  <2>2. OldInv'
    BY <2>e, <2>d, <2>s, <1>k, <1>c DEF OInv, OldInv, Below
  <2>3. InOrder'
    BY <2>e, <1>k, <1>c DEF OInv, InOrder
  <2>4. WorkFirst'
    BY <2>e, <1>k, <1>o, <1>c DEF OInv, WorkFirst
  <2>5. RowsFirst'
    BY <2>e, <2>d, <1>k, <1>c DEF OInv, RowsFirst
  <2>6. PatchOrder'
    <3>1. SUFFICES ASSUME NEW i \in DOMAIN table', NEW j \in DOMAIN table', i < j,
                          table'[i].client = table'[j].client, table'[i].tx = table'[j].tx
                   PROVE  table'[i].patch < table'[j].patch
      BY DEF PatchOrder
    <3>2. CASE i \in DOMAIN table /\ j \in DOMAIN table
      BY <3>1, <3>2, <2>r DEF OInv, PatchOrder
    <3>3. CASE i \notin DOMAIN table /\ j \notin DOMAIN table
      <4>1. i - Len(table) < j - Len(table)
        BY <3>1, <2>r
      <4>2. QED
        BY <4>1, <3>1, <3>3, <2>r, <2>s DEF Growing
    <3>4. QED
      BY <3>1, <3>2, <3>3, <2>r
  <2>7. QED
    BY <2>1, <2>2, <2>3, <2>4, <2>5, <2>6 DEF OInv
<1>10. ASSUME NEW c \in Clients,
              \/ FnReturnsNil(c) \/ FnReturnsError(c) \/ FnPanics(c)
              \/ CommitFails(c) \/ DeferredRollback(c)
      PROVE  OInv'
  <2>e. /\ UNCHANGED <<buffer, queue, saving, tx, hasTxc, work, drained, table, nextPatch, nextTx>>
        /\ pc[c] # "save" /\ pc'[c] # "save" /\ \A d \in Clients : d # c => pc'[d] = pc[d]
    BY <1>10, <1>t, ScopeDoes
  <2>1. EmptyInv'
    BY <2>e, <1>k, <1>o, <1>c DEF OInv, EmptyInv
  <2>2. OldInv'
    BY <2>e, <1>k, <1>c DEF OInv, OldInv
  <2>3. InOrder'
    BY <2>e, <1>k, <1>c DEF OInv, InOrder
  <2>4. WorkFirst'
    BY <2>e, <1>k, <1>o, <1>c DEF OInv, WorkFirst
  <2>5. RowsFirst'
    BY <2>e, <1>k, <1>c DEF OInv, RowsFirst
  <2>6. PatchOrder'
    BY <2>e, <1>k DEF OInv, PatchOrder
  <2>7. QED
    BY <2>1, <2>2, <2>3, <2>4, <2>5, <2>6 DEF OInv
<1>11. ASSUME NEW t \in Txs, AutoRollback(t)
      PROVE  OInv'
  BY <1>11 DEF AutoRollback, ctxVars, history, OInv, EmptyInv, OldInv, InOrder, WorkFirst, RowsFirst, PatchOrder
<1>12. CASE UNCHANGED vars
  BY <1>12 DEF vars, OInv, EmptyInv, OldInv, InOrder, WorkFirst, RowsFirst, PatchOrder
<1>13. QED
  BY <1>1, <1>2, <1>3, <1>4, <1>5, <1>6, <1>7, <1>8, <1>9, <1>10, <1>11, <1>12
     DEF Next, CtxStep, ScopeStep
InvSafe == KInv /\ OInv

LEMMA InitOrdered == Init => InvSafe
BY InitType, InitSafe, InitOrder DEF InvSafe, KInv

LEMMA NextOrdered == InvSafe /\ [Next]_vars => InvSafe'
BY NextType, NextSafe, NextOrder DEF InvSafe, KInv

\* Patches of one context reach the database in the order they were added,
\* whatever part of them is lost on the way (db_ctx.go:87-116, 212-228).
THEOREM PatchesInOrder == Spec => []PatchOrder
<1>1. InvSafe => PatchOrder
  BY DEF InvSafe, OInv
<1>2. QED
  BY InitOrdered, NextOrdered, <1>1, PTL DEF Spec

-----------------------------------------------------------------------------
(* What a transaction that TxScope reports as committed has written *)

\* What the running SaveChanges has still to write in the transaction.
ToSave(c) == IF saving[c] = "txc" THEN queue[c] ELSE <<>>

\* Unless a SaveChanges of it failed, a transaction has written what was
\* handed to it but for what is still to be written ...
SavedSoFar ==
  \A c \in Clients : InScope(c) /\ tx[c] \notin failed =>
    drained[tx[c]] = work[tx[c]] \o ToSave(c)

\* ... so that it commits all of it.
SavedAll ==
  \A t \in Txs : state[t] = "committed" /\ t \notin failed => Holds(table, t, drained[t])

NilIsCommitted == \A t \in Txs : told[t] = "nil" => state[t] = "committed"

NInv == SavedSoFar /\ SavedAll /\ NilIsCommitted

\* Rows written for another transaction, or for none, leave those of t alone.
LEMMA RowsStay ==
  ASSUME NEW tab \in Seq(Entry), NEW t \in Txs, NEW patches \in Seq(PatchIds),
         Holds(tab, t, patches),
         NEW c \in Clients, NEW u \in 0..MaxTx, u # t, NEW s \in Seq(PatchIds)
  PROVE  Holds(tab \o Written(c, u, s), t, patches)
<1> DEFINE new == tab \o Written(c, u, s)
<1>2. /\ new \in Seq(Entry) /\ Len(tab) \in Nat /\ Len(s) \in Nat
      /\ DOMAIN tab = 1..Len(tab) /\ DOMAIN s = 1..Len(s)
      /\ DOMAIN new = 1..Len(tab) + Len(s)
      /\ \A i \in DOMAIN tab : i \in DOMAIN new /\ i <= Len(tab) /\ new[i] = tab[i]
      /\ \A i \in DOMAIN new : i \notin DOMAIN tab =>
           /\ i > Len(tab) /\ i - Len(tab) \in DOMAIN s
           /\ new[i].patch = s[i - Len(tab)] /\ new[i].client = c /\ new[i].tx = u
  BY RowsAdded
<1> HIDE DEF new
<1>4. PICK k \in 0..Len(tab) - Len(patches) :
        /\ \A i \in DOMAIN tab : tab[i].tx = t <=> i \in k + 1..k + Len(patches)
        /\ \A j \in DOMAIN patches : tab[k + j].patch = patches[j]
  BY DEF Holds
<1>5. Len(patches) \in Nat /\ DOMAIN patches = 1..Len(patches)
  OBVIOUS
<1>6. Len(new) = Len(tab) + Len(s)
  BY <1>2
<1>7. k \in 0..Len(new) - Len(patches)
  BY <1>2, <1>5, <1>6
<1>8. \A i \in DOMAIN new : new[i].tx = t <=> i \in k + 1..k + Len(patches)
  <2> SUFFICES ASSUME NEW i \in DOMAIN new
               PROVE  new[i].tx = t <=> i \in k + 1..k + Len(patches)
    OBVIOUS
  <2>1. CASE i \in DOMAIN tab
    BY <2>1, <1>2, <1>4
  <2>2. CASE i \notin DOMAIN tab
    <3>1. i > Len(tab) /\ new[i].tx = u
      BY <2>2, <1>2
    <3>2. i \notin k + 1..k + Len(patches)
      BY <3>1, <1>2, <1>5
    <3>3. QED
      BY <3>1, <3>2
  <2>3. QED
    BY <2>1, <2>2
<1>9. \A j \in DOMAIN patches : new[k + j].patch = patches[j]
  <2>1. \A j \in DOMAIN patches : k + j \in DOMAIN tab
    BY <1>2, <1>5
  <2>2. QED
    BY <2>1, <1>2, <1>4
<1>10. QED
  BY <1>7, <1>8, <1>9 DEF new, Holds

\* Rows written for a transaction that had none are its rows.
LEMMA RowsAppear ==
  ASSUME NEW tab \in Seq(Entry), NEW t \in Txs, NEW s \in Seq(PatchIds), NEW c \in Clients,
         \A i \in DOMAIN tab : tab[i].tx # t
  PROVE  Holds(tab \o Written(c, t, s), t, s)
<1> DEFINE new == tab \o Written(c, t, s)
<1>1. t \in 0..MaxTx
  BY DEF Txs
<1>2. /\ new \in Seq(Entry) /\ Len(tab) \in Nat /\ Len(s) \in Nat
      /\ DOMAIN tab = 1..Len(tab) /\ DOMAIN s = 1..Len(s)
      /\ DOMAIN new = 1..Len(tab) + Len(s)
      /\ \A i \in DOMAIN tab : i \in DOMAIN new /\ i <= Len(tab) /\ new[i] = tab[i]
      /\ \A i \in DOMAIN new : i \notin DOMAIN tab =>
           /\ i > Len(tab) /\ i - Len(tab) \in DOMAIN s
           /\ new[i].patch = s[i - Len(tab)] /\ new[i].client = c /\ new[i].tx = t
  BY <1>1, RowsAdded
<1> HIDE DEF new
<1>4. Len(new) = Len(tab) + Len(s)
  BY <1>2
<1>5. Len(tab) \in 0..Len(new) - Len(s)
  BY <1>2, <1>4
<1>6. \A i \in DOMAIN new : new[i].tx = t <=> i \in Len(tab) + 1..Len(tab) + Len(s)
  <2> SUFFICES ASSUME NEW i \in DOMAIN new
               PROVE  new[i].tx = t <=> i \in Len(tab) + 1..Len(tab) + Len(s)
    OBVIOUS
  <2>1. CASE i \in DOMAIN tab
    BY <2>1, <1>2
  <2>2. CASE i \notin DOMAIN tab
    BY <2>2, <1>2
  <2>3. QED
    BY <2>1, <2>2
<1>7. \A j \in DOMAIN s : new[Len(tab) + j].patch = s[j]
  <2> SUFFICES ASSUME NEW j \in DOMAIN s
               PROVE  new[Len(tab) + j].patch = s[j]
    OBVIOUS
  <2>1. Len(tab) + j \in DOMAIN new /\ Len(tab) + j \notin DOMAIN tab
    BY <1>2
  <2>2. (Len(tab) + j) - Len(tab) = j
    BY <1>2
  <2>3. QED
    BY <2>1, <2>2, <1>2
<1>8. QED
  BY <1>5, <1>6, <1>7 DEF new, Holds

LEMMA InitNil == Init => NInv
BY DEF Init, NInv, SavedSoFar, SavedAll, NilIsCommitted, InScope

\* The steps that change neither a table nor a transaction.
LEMMA NilQuiet ==
  ASSUME NInv, UNCHANGED <<tx, state, table, told, work, drained>>, failed \subseteq failed',
         \A c \in Clients : InScope(c)' /\ tx[c] \notin failed' => InScope(c) /\ ToSave(c)' = ToSave(c)
  PROVE  NInv'
<1>1. SavedSoFar'
  BY DEF NInv, SavedSoFar
<1>2. SavedAll'
  BY DEF NInv, SavedAll
<1>3. NilIsCommitted'
  BY DEF NInv, NilIsCommitted
<1>4. QED
  BY <1>1, <1>2, <1>3 DEF NInv

LEMMA NextNil == InvSafe /\ NInv /\ [Next]_vars => NInv'
<1> SUFFICES ASSUME InvSafe, NInv, [Next]_vars PROVE NInv'
  OBVIOUS
<1>t. TInv
  BY DEF InvSafe, KInv
<1>k. /\ \A c \in Clients, x \in Contexts : buffer[c][x] \in Seq(PatchIds)
      /\ \A c \in Clients : queue[c] \in Seq(PatchIds) /\ saving[c] \in Contexts
      /\ \A t \in Txs : work[t] \in Seq(PatchIds) /\ drained[t] \in Seq(PatchIds)
      /\ nextTx \in Nat /\ table \in Seq(Entry)
  BY <1>t, Known
<1>i. \A c \in Clients : InScope(c) => tx[c] \in Txs /\ tx[c] # 0
  BY <1>t, InScopeHasTx DEF Txs
<1>o. /\ \A c \in Clients : tx[c] < nextTx
      /\ \A c, d \in Clients : c # d /\ tx[c] = tx[d] => tx[c] = 0
      /\ \A t \in Txs : t >= nextTx => state[t] = "none" /\ told[t] = "none"
  BY DEF InvSafe, KInv, SInv, OwnTx
<1>s. \A c \in Clients :
        /\ InScope(c) => told[tx[c]] = "none"
        /\ InScope(c) /\ pc[c] # "defer" => state[tx[c]] \in {"active", "rolledback"}
        /\ InScope(c) /\ pc[c] = "defer" /\ ret[c] = "nil" => state[tx[c]] = "committed"
        /\ ~InScope(c) /\ tx[c] # 0 => state[tx[c]] # "active"
  BY DEF InvSafe, KInv, SInv, WhileInScope, AfterScope
<1>q. /\ \A c \in Clients : pc[c] # "save" => queue[c] = <<>>
      /\ \A t \in Txs : t >= nextTx => work[t] = <<>> /\ drained[t] = <<>>
  BY DEF InvSafe, OInv, EmptyInv
<1>e. \A s \in Seq(PatchIds) : s \o <<>> = s
  BY ConcatEmptySeq
<1>1. ASSUME NEW c \in Clients, NEW x \in Contexts, Patch(c, x)
      PROVE  NInv'
  <2>1. UNCHANGED <<queue, saving, pc, back, tx, state, work, table, told, drained, failed>>
    BY <1>1, <1>t, PatchDoes
  <2>2. QED
    BY <2>1, NilQuiet DEF InScope, ToSave
<1>2. ASSUME NEW c \in Clients, UseTx(c)
      PROVE  NInv'
  <2>1. UNCHANGED <<queue, saving, pc, back, tx, state, work, table, told, drained, failed>>
    BY <1>2, <1>t, UseTxDoes
  <2>2. QED
    BY <2>1, NilQuiet DEF InScope, ToSave
<1>3. ASSUME NEW c \in Clients, NEW x \in Contexts, CompilePatch(c, x)
      PROVE  NInv'
  <2>e. /\ UNCHANGED <<tx, state, work, table, told, failed>>
        /\ pc[c] \in {"outside", "fn"}
        /\ \A d \in Clients :
             /\ pc'[d] = IF d = c THEN "save" ELSE pc[d]
             /\ back'[d] = IF d = c THEN pc[c] ELSE back[d]
             /\ saving'[d] = IF d = c THEN x ELSE saving[d]
             /\ queue'[d] = IF d = c THEN buffer[c][x] ELSE queue[d]
        /\ \A t \in Txs : drained'[t] = IF x = "txc" /\ pc[c] = "fn" /\ t = tx[c]
                                          THEN drained[t] \o buffer[c][x] ELSE drained[t]
    BY <1>3, <1>t, CompilePatchDoes
  <2>i. \A d \in Clients : InScope(d)' <=> InScope(d)
    BY <2>e DEF InScope
  <2>f. pc[c] = "fn" => InScope(c)
    BY DEF InScope
  <2>1. SavedSoFar'
    <3> SUFFICES ASSUME NEW d \in Clients, InScope(d)', tx[d] \notin failed
                 PROVE  drained'[tx[d]] = work[tx[d]] \o ToSave(d)'
      BY <2>e DEF SavedSoFar
    <3>1. drained[tx[d]] = work[tx[d]] \o ToSave(d) /\ tx[d] \in Txs /\ tx[d] # 0 /\ InScope(d)
      BY <2>i, <1>i DEF NInv, SavedSoFar
    <3>2. CASE d # c
      <4>1. tx[d] # tx[c]
        BY <3>1, <3>2, <1>o
      <4>2. drained'[tx[d]] = drained[tx[d]] /\ ToSave(d)' = ToSave(d)
        BY <4>1, <3>1, <3>2, <2>e DEF ToSave
      <4>3. QED
        BY <4>2, <3>1
    <3>3. CASE d = c
      <4>1. pc[c] = "fn" /\ ToSave(c) = <<>>
        BY <3>1, <3>3, <2>e, <1>q DEF InScope, ToSave
      <4>2. drained[tx[c]] = work[tx[c]]
        BY <4>1, <3>1, <3>3, <1>k, <1>e
      <4>3. CASE x = "txc"
        <5>1. drained'[tx[c]] = drained[tx[c]] \o buffer[c][x] /\ ToSave(c)' = buffer[c][x]
          BY <4>1, <4>3, <3>1, <3>3, <2>e DEF ToSave
        <5>2. QED
          BY <5>1, <4>2, <3>3
      <4>4. CASE x # "txc"
        <5>1. drained'[tx[c]] = drained[tx[c]] /\ ToSave(c)' = <<>>
          BY <4>4, <3>1, <3>3, <2>e DEF ToSave
        <5>2. QED
          BY <5>1, <4>2, <3>1, <3>3, <1>k, <1>e
      <4>5. QED
        BY <4>3, <4>4
    <3>4. QED
      BY <3>2, <3>3
  <2>2. SavedAll'
    <3>1. \A t \in Txs : state[t] = "committed" => drained'[t] = drained[t]
      BY <2>e, <2>f, <1>s
    <3>2. QED
      BY <3>1, <2>e DEF NInv, SavedAll
  <2>3. NilIsCommitted'
    BY <2>e DEF NInv, NilIsCommitted
  <2>4. QED
    BY <2>1, <2>2, <2>3 DEF NInv
<1>4. ASSUME NEW c \in Clients, NEW x \in Contexts, CompilePanics(c, x)
      PROVE  NInv'
  <2>1. /\ UNCHANGED <<queue, saving, back, tx, state, work, table, told, drained, failed>>
        /\ pc[c] \in {"outside", "fn"}
        /\ \A d \in Clients : pc'[d] = IF d = c THEN (IF pc[c] = "fn" THEN "defer" ELSE "outside") ELSE pc[d]
    BY <1>4, <1>t, CompilePanicsDoes
  <2>2. QED
    BY <2>1, NilQuiet DEF InScope, ToSave
<1>5. ASSUME NEW c \in Clients, NEW n \in 1..MaxPatch, Exec(c, n)
      PROVE  NInv'
  <2> DEFINE s == SubSeq(queue[c], 1, n)
             r == SubSeq(queue[c], n + 1, Len(queue[c]))
  <2>e. /\ UNCHANGED <<saving, pc, back, tx, state, told, drained, failed>>
        /\ pc[c] = "save" /\ n \in 1..Len(queue[c])
        /\ \A d \in Clients : queue'[d] = IF d = c THEN r ELSE queue[d]
        /\ saving[c] = "dbc" => table' = table \o Written(c, 0, s) /\ UNCHANGED work
        /\ saving[c] # "dbc" =>
             /\ saving[c] = "txc" /\ tx[c] \in Txs /\ state[tx[c]] = "active" /\ UNCHANGED table
             /\ \A t \in Txs : work'[t] = IF t = tx[c] THEN work[t] \o s ELSE work[t]
    BY <1>5, <1>t, ExecDoes
  <2>s. s \in Seq(PatchIds) /\ r \in Seq(PatchIds) /\ queue[c] = s \o r
    BY <2>e, <1>k, Cut
  <2> HIDE DEF s, r
  <2>i. \A d \in Clients : InScope(d)' <=> InScope(d)
    BY <2>e DEF InScope
  <2>3. NilIsCommitted'
    BY <2>e DEF NInv, NilIsCommitted
  <2>a. CASE saving[c] = "dbc"
    <3>1. SavedSoFar'
      <4>1. \A d \in Clients : ToSave(d)' = ToSave(d)
        BY <2>a, <2>e DEF ToSave
      <4>2. QED
        BY <4>1, <2>a, <2>e, <2>i DEF NInv, SavedSoFar
    <3>2. SavedAll'
      <4> SUFFICES ASSUME NEW t \in Txs, state[t] = "committed", t \notin failed
                   PROVE  Holds(table', t, drained[t])
        BY <2>e DEF SavedAll
      <4>1. Holds(table, t, drained[t]) /\ table \in Seq(Entry) /\ drained[t] \in Seq(PatchIds)
        BY <1>k DEF NInv, SavedAll
      <4>2. 0 \in 0..MaxTx /\ 0 # t /\ table' = table \o Written(c, 0, s)
        BY <2>a, <2>e, UnitAssumption DEF Txs
      <4>3. QED
        BY <4>1, <4>2, <2>s, RowsStay
    <3>3. QED
      BY <3>1, <3>2, <2>3 DEF NInv
  <2>b. CASE saving[c] # "dbc"
    <3>1. SavedSoFar'
      <4> SUFFICES ASSUME NEW d \in Clients, InScope(d), tx[d] \notin failed
                   PROVE  drained[tx[d]] = work'[tx[d]] \o ToSave(d)'
        BY <2>e, <2>i DEF SavedSoFar
      <4>1. drained[tx[d]] = work[tx[d]] \o ToSave(d) /\ tx[d] \in Txs /\ tx[d] # 0
        BY <1>i DEF NInv, SavedSoFar
      <4>2. CASE d # c
        <5>1. tx[d] # tx[c]
          BY <4>1, <4>2, <1>o
        <5>2. work'[tx[d]] = work[tx[d]] /\ ToSave(d)' = ToSave(d)
          BY <5>1, <4>1, <4>2, <2>e, <2>b DEF ToSave
        <5>3. QED
          BY <5>2, <4>1
      <4>3. CASE d = c
        <5>1. /\ drained[tx[c]] = work[tx[c]] \o (s \o r)
              /\ work'[tx[c]] = work[tx[c]] \o s /\ ToSave(c)' = r
          BY <4>1, <4>3, <2>b, <2>e, <2>s DEF ToSave
        <5>2. work[tx[c]] \o (s \o r) = (work[tx[c]] \o s) \o r
          <6>1. work[tx[c]] \in Seq(PatchIds)
            BY <4>1, <4>3, <1>k
          <6>2. QED
            BY <6>1, <2>s, Joined
        <5>3. QED
          BY <5>1, <5>2, <4>3
      <4>4. QED
        BY <4>2, <4>3
    <3>2. SavedAll'
      BY <2>b, <2>e DEF NInv, SavedAll
    <3>3. QED
      BY <3>1, <3>2, <2>3 DEF NInv
  <2>c. QED
    BY <2>a, <2>b
<1>6. ASSUME NEW c \in Clients, ExecFails(c)
      PROVE  NInv'
  <2>e. /\ UNCHANGED <<saving, back, tx, state, work, table, told, drained>>
        /\ pc[c] = "save" /\ back[c] \in {"outside", "fn"}
        /\ \A d \in Clients : /\ pc'[d] = IF d = c THEN back[c] ELSE pc[d]
                              /\ queue'[d] = IF d = c THEN <<>> ELSE queue[d]
        /\ failed' = IF saving[c] = "txc" /\ back[c] = "fn" THEN failed \cup {tx[c]} ELSE failed
    BY <1>6, <1>t, ExecFailsDoes
  <2>1. failed \subseteq failed'
    BY <2>e
  <2>2. ASSUME NEW d \in Clients, InScope(d)', tx[d] \notin failed'
        PROVE  InScope(d) /\ ToSave(d)' = ToSave(d)
    <3>1. CASE d # c
      BY <2>2, <2>e, <3>1 DEF InScope, ToSave
    <3>2. CASE d = c
      <4>1. back[c] = "fn" /\ saving[c] # "txc"
        BY <2>2, <2>e, <3>2 DEF InScope
      <4>2. QED
        BY <4>1, <2>e, <3>2 DEF InScope, ToSave
    <3>3. QED
      BY <3>1, <3>2
  <2>3. QED
    BY <2>e, <2>1, <2>2, NilQuiet
<1>7. ASSUME NEW c \in Clients, SaveReturnsNil(c)
      PROVE  NInv'
  <2>1. /\ UNCHANGED <<queue, saving, back, tx, state, work, table, told, drained, failed>>
        /\ pc[c] = "save" /\ back[c] \in {"outside", "fn"}
        /\ \A d \in Clients : pc'[d] = IF d = c THEN back[c] ELSE pc[d]
    BY <1>7, <1>t, SaveReturnsNilDoes
  <2>2. QED
    BY <2>1, NilQuiet DEF InScope, ToSave
<1>8. ASSUME NEW c \in Clients, Begin(c) \/ BeginFails(c)
      PROVE  NInv'
  <2>e. /\ UNCHANGED <<queue, saving, back, work, table, drained, failed>>
        /\ pc[c] = "outside" /\ nextTx \in Txs
        /\ \A d \in Clients : /\ tx'[d] = IF d = c THEN nextTx ELSE tx[d]
                              /\ d # c => pc'[d] = pc[d]
        /\ (pc'[c] = "fn" /\ told' = told) \/ (pc'[c] = "outside" /\ told'[nextTx] = "err")
        /\ \A t \in Txs : t # nextTx => state'[t] = state[t] /\ told'[t] = told[t]
        /\ state'[nextTx] = "active" \/ state' = state
    BY <1>8, <1>t, NewScopeDoes
  <2>n. /\ queue[c] = <<>> /\ work[nextTx] = <<>> /\ drained[nextTx] = <<>>
        /\ state[nextTx] = "none" /\ told[nextTx] = "none"
    BY <2>e, <1>q, <1>k, <1>o
  <2>1. SavedSoFar'
    <3> SUFFICES ASSUME NEW d \in Clients, InScope(d)', tx'[d] \notin failed
                 PROVE  drained[tx'[d]] = work[tx'[d]] \o ToSave(d)'
      BY <2>e DEF SavedSoFar
    <3>1. ToSave(d)' = ToSave(d)
      BY <2>e DEF ToSave
    <3>2. CASE d # c
      BY <3>1, <3>2, <2>e DEF NInv, SavedSoFar, InScope
    <3>3. CASE d = c
      <4>1. tx'[d] = nextTx /\ ToSave(d)' = <<>>
        BY <3>1, <3>3, <2>e, <2>n DEF ToSave
      <4>2. <<>> \o <<>> = <<>>
        BY <1>e, <2>n, <1>k, <2>e
      <4>3. QED
        BY <4>1, <4>2, <2>n
    <3>4. QED
      BY <3>2, <3>3
  <2>2. SavedAll'
    <3>1. \A t \in Txs : state'[t] = "committed" => state[t] = "committed"
      BY <2>e, <2>n
    <3>2. QED
      BY <3>1, <2>e DEF NInv, SavedAll
  <2>3. NilIsCommitted'
    BY <2>e, <2>n DEF NInv, NilIsCommitted
  <2>4. QED
    BY <2>1, <2>2, <2>3 DEF NInv
<1>9. ASSUME NEW c \in Clients, NEW res \in {"nil", "unknown"}, CommitTx(c, res)
      PROVE  NInv'
  <2>e. /\ UNCHANGED <<queue, saving, back, tx, work, told, drained, failed>>
        /\ pc[c] = "commit" /\ tx[c] \in Txs /\ state[tx[c]] = "active"
        /\ \A d \in Clients : pc'[d] = IF d = c THEN "defer" ELSE pc[d]
        /\ \A t \in Txs : state'[t] = IF t = tx[c] THEN "committed" ELSE state[t]
        /\ table' = table \o Written(c, tx[c], work[tx[c]])
    BY <1>9, <1>t, CommitTxDoes
  <2>i. InScope(c) /\ \A d \in Clients : InScope(d)' <=> InScope(d)
    BY <2>e DEF InScope
  <2>1. SavedSoFar'
    BY <2>e, <2>i DEF NInv, SavedSoFar, ToSave
  <2>2. SavedAll'
    <3> SUFFICES ASSUME NEW t \in Txs, state'[t] = "committed", t \notin failed
                 PROVE  Holds(table', t, drained[t])
      BY <2>e DEF SavedAll
    <3>1. CASE t # tx[c]
      <4>1. Holds(table, t, drained[t]) /\ table \in Seq(Entry) /\ drained[t] \in Seq(PatchIds)
        BY <3>1, <2>e, <1>k DEF NInv, SavedAll
      <4>2. tx[c] \in 0..MaxTx /\ work[tx[c]] \in Seq(PatchIds)
        BY <2>e, <1>k DEF Txs
      <4>3. Holds(table \o Written(c, tx[c], work[tx[c]]), t, drained[t])
        BY <3>1, <4>1, <4>2, RowsStay
      <4>4. QED
        BY <4>3, <2>e
    <3>2. CASE t = tx[c]
      <4>1. \A i \in DOMAIN table : table[i].tx # tx[c]
        <5>1. tx[c] # 0
          BY <2>i, <1>i
        <5>2. QED
          BY <5>1, <2>e DEF InvSafe, KInv, SInv, RowsAreCommitted
      <4>2. ToSave(c) = <<>>
        BY <2>e, <1>q DEF ToSave
      <4>3. work[tx[c]] \in Seq(PatchIds) /\ table \in Seq(Entry)
        BY <2>e, <1>k
      <4>4. drained[tx[c]] = work[tx[c]] \o <<>>
        BY <3>2, <4>2, <2>i DEF NInv, SavedSoFar
      <4>5. drained[tx[c]] = work[tx[c]]
        BY <4>3, <4>4, <1>e
      <4>6. Holds(table \o Written(c, tx[c], work[tx[c]]), tx[c], work[tx[c]])
        BY <4>1, <4>3, <2>e, RowsAppear
      <4>7. QED
        BY <3>2, <4>5, <4>6, <2>e
    <3>3. QED
      BY <3>1, <3>2
  <2>3. NilIsCommitted'
    BY <2>e DEF NInv, NilIsCommitted
  <2>4. QED
    BY <2>1, <2>2, <2>3 DEF NInv
<1>10. ASSUME NEW c \in Clients,
              \/ FnReturnsNil(c) \/ FnReturnsError(c) \/ FnPanics(c)
              \/ CommitFails(c) \/ DeferredRollback(c)
      PROVE  NInv'
  <2>e. /\ UNCHANGED <<queue, saving, back, tx, work, table, drained, failed>>
        /\ pc[c] \in {"fn", "commit", "defer"} /\ \A d \in Clients : d # c => pc'[d] = pc[d]
        /\ \A t \in Txs :
             /\ \/ state'[t] = state[t]
                \/ state'[t] = "rolledback" /\ t = tx[c] /\ (pc[c] = "commit" \/ state[t] = "active")
             /\ told'[t] = "nil" => \/ told[t] = "nil"
                                    \/ pc[c] = "defer" /\ t = tx[c] /\ ret[c] = "nil"
    BY <1>10, <1>t, ScopeDoes
  <2>i. InScope(c)
    BY <2>e DEF InScope
  <2>1. SavedSoFar'
    <3>1. \A d \in Clients : InScope(d)' => InScope(d) /\ ToSave(d)' = ToSave(d)
      BY <2>e, <2>i DEF InScope, ToSave
    <3>2. QED
      BY <3>1, <2>e DEF NInv, SavedSoFar
  <2>c. \A t \in Txs : state'[t] = "committed" <=> state[t] = "committed"
    BY <2>e, <2>i, <1>s
  <2>2. SavedAll'
    BY <2>e, <2>c DEF NInv, SavedAll
  <2>3. NilIsCommitted'
    BY <2>e, <2>c, <2>i, <1>s DEF NInv, NilIsCommitted
  <2>4. QED
    BY <2>1, <2>2, <2>3 DEF NInv
<1>11. ASSUME NEW t \in Txs, AutoRollback(t)
      PROVE  NInv'
  <2>1. /\ UNCHANGED <<queue, saving, pc, back, tx, work, table, told, drained, failed>>
        /\ state[t] = "active" /\ \A u \in Txs : u # t => state'[u] = state[u]
        /\ state'[t] = "rolledback"
    BY <1>11, <1>t DEF AutoRollback, ctxVars, history, TInv, TypeOK, DatabaseTypes
  <2>2. SavedSoFar'
    BY <2>1 DEF NInv, SavedSoFar, InScope, ToSave
  <2>3. \A u \in Txs : state'[u] = "committed" <=> state[u] = "committed"
    BY <2>1
  <2>4. SavedAll' /\ NilIsCommitted'
    BY <2>1, <2>3 DEF NInv, SavedAll, NilIsCommitted
  <2>5. QED
    BY <2>2, <2>4 DEF NInv
<1>12. CASE UNCHANGED vars
  BY <1>12, NilQuiet DEF vars, InScope, ToSave
<1>13. QED
  BY <1>1, <1>2, <1>3, <1>4, <1>5, <1>6, <1>7, <1>8, <1>9, <1>10, <1>11, <1>12
     DEF Next, CtxStep, ScopeStep

\* When TxScope returned nil and no SaveChanges in it failed, the database has
\* every patch saved in the transaction, once, in order and in one piece
\* (tx_scope.go:14-26, db_ctx.go:87-116).
THEOREM NilIsTheWholeTransaction == Spec => []NilMeansSaved
<1>1. NInv => NilMeansSaved
  BY DEF NInv, SavedAll, NilIsCommitted, NilMeansSaved
<1>2. QED
  BY InitOrdered, NextOrdered, InitNil, NextNil, <1>1, PTL DEF Spec

-----------------------------------------------------------------------------
(* What holds patches *)

Holders == ({"dbc", "txc", "queue", "rows"} \X Clients) \cup ({"work"} \X Txs) \cup {<<"lost", 0>>}

\* The rows of client c that no transaction wrote.
RowsAlone(rows, c) == {i \in DOMAIN rows : rows[i].tx = 0 /\ rows[i].client = c}

PatchesAlone(rows, c) == {rows[i].patch : i \in RowsAlone(rows, c)}

HeldIn(b, q, w, rows, l) ==
  [h \in Holders |->
     CASE h[1] \in Contexts -> Ids(b[h[2]][h[1]])
       [] h[1] = "queue" -> Ids(q[h[2]])
       [] h[1] = "rows" -> PatchesAlone(rows, h[2])
       [] h[1] = "work" -> Ids(w[h[2]])
       [] h[1] = "lost" -> l]

Held == HeldIn(buffer, queue, work, table, lost)

\* One of them has p.
OnlyIn(held, p) ==
  \E h \in Holders : p \in held[h] /\ \A k \in Holders : p \in held[k] => k = h

\* Where a patch is does not depend on who holds a copy of another one.
HeldOnce ==
  /\ \A p \in lost : p < nextPatch
  /\ \A p \in (1..nextPatch - 1) \ copied : OnlyIn(Held, p)

-----------------------------------------------------------------------------
(* Lemmas about holders *)

LEMMA HolderKinds ==
  \A h \in Holders : \/ \E c \in Clients, x \in Contexts : h = <<x, c>>
                     \/ \E c \in Clients : h = <<"queue", c>>
                     \/ \E c \in Clients : h = <<"rows", c>>
                     \/ \E t \in Txs : h = <<"work", t>>
                     \/ h = <<"lost", 0>>
BY DEF Holders, Contexts

LEMMA AreHolders ==
  /\ \A c \in Clients, x \in Contexts : <<x, c>> \in Holders
  /\ \A c \in Clients : <<"queue", c>> \in Holders /\ <<"rows", c>> \in Holders
  /\ \A t \in Txs : <<"work", t>> \in Holders
  /\ <<"lost", 0>> \in Holders
BY DEF Holders, Contexts

LEMMA HeldParts ==
  ASSUME NEW b, NEW q, NEW w, NEW rows, NEW l
  PROVE  LET held == HeldIn(b, q, w, rows, l) IN
         /\ \A c \in Clients, x \in Contexts : held[<<x, c>>] = Ids(b[c][x])
         /\ \A c \in Clients : /\ held[<<"queue", c>>] = Ids(q[c])
                               /\ held[<<"rows", c>>] = PatchesAlone(rows, c)
         /\ \A t \in Txs : held[<<"work", t>>] = Ids(w[t])
         /\ held[<<"lost", 0>>] = l
<1> DEFINE held == HeldIn(b, q, w, rows, l)
<1>1. ASSUME NEW c \in Clients, NEW x \in Contexts
      PROVE  held[<<x, c>>] = Ids(b[c][x])
  <2>1. <<x, c>> \in Holders /\ <<x, c>>[1] = x /\ <<x, c>>[2] = c
    BY AreHolders
  <2>2. x # "queue" /\ x # "rows" /\ x # "work" /\ x # "lost"
    BY DEF Contexts
  <2>3. QED
    BY <2>1, <2>2 DEF HeldIn
<1>2. \A c \in Clients : held[<<"queue", c>>] = Ids(q[c])
  BY AreHolders DEF HeldIn, Contexts
<1>3. \A c \in Clients : held[<<"rows", c>>] = PatchesAlone(rows, c)
  BY AreHolders DEF HeldIn, Contexts
<1>4. \A t \in Txs : held[<<"work", t>>] = Ids(w[t])
  BY AreHolders DEF HeldIn, Contexts
<1>5. held[<<"lost", 0>>] = l
  BY AreHolders DEF HeldIn, Contexts
<1>6. QED
  BY <1>1, <1>2, <1>3, <1>4, <1>5

LEMMA Stayed ==
  ASSUME NEW f, NEW g, NEW p, OnlyIn(f, p), \A h \in Holders : p \in g[h] <=> p \in f[h]
  PROVE  OnlyIn(g, p)
BY DEF OnlyIn

LEMMA Moved ==
  ASSUME NEW f, NEW g, NEW p, OnlyIn(f, p), NEW from \in Holders, NEW to \in Holders, from # to,
         NEW S, p \in S => p \in f[from],
         p \in g[to] <=> p \in f[to] \/ p \in S,
         p \in g[from] <=> p \in f[from] /\ p \notin S,
         \A h \in Holders : h # from /\ h # to => (p \in g[h] <=> p \in f[h])
  PROVE  OnlyIn(g, p)
<1>1. PICK h \in Holders : p \in f[h] /\ \A k \in Holders : p \in f[k] => k = h
  BY DEF OnlyIn
<1>2. CASE p \in S
  BY <1>1, <1>2 DEF OnlyIn
<1>3. CASE p \notin S
  BY <1>1, <1>3 DEF OnlyIn
<1>4. QED
  BY <1>2, <1>3

\* The patches of a sequence that is extended, joined or cut.
LEMMA IdsAre ==
  /\ Ids(<<>>) = {}
  /\ \A s \in Seq(PatchIds), n \in PatchIds : Ids(Append(s, n)) = Ids(s) \cup {n}
  /\ \A s, u \in Seq(PatchIds) : Ids(s \o u) = Ids(s) \cup Ids(u)
  /\ \A s, u \in Seq(PatchIds) : Before(s, u) => Ids(s) \cap Ids(u) = {}
  /\ \A s \in Seq(PatchIds), n \in Nat : Below(s, n) => \A p \in Ids(s) : p < n
<1>1. Ids(<<>>) = {}
  BY DEF Ids
<1>2. ASSUME NEW s \in Seq(PatchIds), NEW n \in PatchIds
      PROVE  Ids(Append(s, n)) = Ids(s) \cup {n}
  <2>1. /\ DOMAIN Append(s, n) = 1..Len(s) + 1 /\ DOMAIN s = 1..Len(s) /\ Len(s) \in Nat
        /\ \A i \in 1..Len(s) + 1 : Append(s, n)[i] = IF i = Len(s) + 1 THEN n ELSE s[i]
    OBVIOUS
  <2>2. \A p : p \in Ids(Append(s, n)) <=> \E i \in 1..Len(s) + 1 : Append(s, n)[i] = p
    BY <2>1 DEF Ids
  <2>3. \A p : p \in Ids(s) <=> \E i \in 1..Len(s) : s[i] = p
    BY <2>1 DEF Ids
  <2>4. Len(s) + 1 \in 1..Len(s) + 1 /\ \A i \in 1..Len(s) : i \in 1..Len(s) + 1 /\ i # Len(s) + 1
    BY <2>1
  <2>5. \A i \in 1..Len(s) + 1 : i # Len(s) + 1 => i \in 1..Len(s)
    BY <2>1
  <2>6. \A p : p \in Ids(Append(s, n)) <=> p \in Ids(s) \/ p = n
    BY <2>1, <2>2, <2>3, <2>4, <2>5
  <2>7. QED
    BY <2>6
<1>3. ASSUME NEW s \in Seq(PatchIds), NEW u \in Seq(PatchIds)
      PROVE  Ids(s \o u) = Ids(s) \cup Ids(u)
  <2>1. /\ DOMAIN (s \o u) = 1..Len(s) + Len(u) /\ DOMAIN s = 1..Len(s) /\ DOMAIN u = 1..Len(u)
        /\ Len(s) \in Nat /\ Len(u) \in Nat
        /\ \A i \in 1..Len(s) + Len(u) : (s \o u)[i] = IF i <= Len(s) THEN s[i] ELSE u[i - Len(s)]
    BY ConcatProperties
  <2>2. \A i \in DOMAIN (s \o u) : \/ i \in DOMAIN s /\ (s \o u)[i] = s[i]
                                   \/ i - Len(s) \in DOMAIN u /\ (s \o u)[i] = u[i - Len(s)]
    BY <2>1
  <2>3. \A i \in DOMAIN s : i \in DOMAIN (s \o u) /\ (s \o u)[i] = s[i]
    BY <2>1
  <2>4. ASSUME NEW i \in DOMAIN u
        PROVE  i + Len(s) \in DOMAIN (s \o u) /\ (s \o u)[i + Len(s)] = u[i]
    <3>1. i + Len(s) \in 1..Len(s) + Len(u) /\ ~(i + Len(s) <= Len(s)) /\ (i + Len(s)) - Len(s) = i
      BY <2>1
    <3>2. QED
      BY <2>1, <3>1
  <2> DEFINE j == s \o u
  <2> HIDE DEF j
  <2>5. ASSUME NEW p, p \in Ids(j)
        PROVE  p \in Ids(s) \/ p \in Ids(u)
    <3>1. PICK i \in DOMAIN j : p = j[i]
      BY <2>5 DEF Ids
    <3>2. QED
      BY <3>1, <2>2 DEF Ids, j
  <2>6. ASSUME NEW p, p \in Ids(s) \/ p \in Ids(u)
        PROVE  p \in Ids(j)
    <3>1. CASE p \in Ids(s)
      BY <3>1, <2>3 DEF Ids, j
    <3>2. CASE p \in Ids(u)
      <4>1. PICK i \in DOMAIN u : p = u[i]
        BY <3>2 DEF Ids
      <4>2. QED
        BY <4>1, <2>4 DEF Ids, j
    <3>3. QED
      BY <2>6, <3>1, <3>2
  <2>7. Ids(j) = Ids(s) \cup Ids(u)
    BY <2>5, <2>6
  <2>8. QED
    BY <2>7 DEF j
<1>4. ASSUME NEW s \in Seq(PatchIds), NEW u \in Seq(PatchIds), Before(s, u)
      PROVE  Ids(s) \cap Ids(u) = {}
  <2>1. \A i \in DOMAIN s, j \in DOMAIN u : s[i] < u[j]
    BY <1>4 DEF Before
  <2>0. (\A i \in DOMAIN s : s[i] \in Nat) /\ (\A i \in DOMAIN u : u[i] \in Nat)
    BY Numbers
  <2>2. \A i \in DOMAIN s, j \in DOMAIN u : s[i] # u[j]
    BY <2>0, <2>1
  <2>3. QED
    BY <2>2 DEF Ids
<1>5. ASSUME NEW s \in Seq(PatchIds), NEW n \in Nat, Below(s, n)
      PROVE  \A p \in Ids(s) : p < n
  BY <1>5 DEF Below, Ids
<1>6. QED
  BY <1>1, <1>2, <1>3, <1>4, <1>5

\* The rows alone of a table that grows.
LEMMA AloneAre ==
  ASSUME NEW tab \in Seq(Entry), NEW c \in Clients, NEW t \in 0..MaxTx, NEW s \in Seq(PatchIds),
         NEW d \in Clients
  PROVE  LET new == tab \o Written(c, t, s) IN
         PatchesAlone(new, d) = IF t = 0 /\ d = c THEN PatchesAlone(tab, d) \cup Ids(s)
                                                  ELSE PatchesAlone(tab, d)
<1> DEFINE new == tab \o Written(c, t, s)
           Old == PatchesAlone(tab, d)
           New == PatchesAlone(new, d)
<1>1. /\ new \in Seq(Entry) /\ Len(tab) \in Nat /\ Len(s) \in Nat
      /\ DOMAIN tab = 1..Len(tab) /\ DOMAIN s = 1..Len(s)
      /\ DOMAIN new = 1..Len(tab) + Len(s)
      /\ \A i \in DOMAIN tab : i \in DOMAIN new /\ i <= Len(tab) /\ new[i] = tab[i]
      /\ \A i \in DOMAIN new : i \notin DOMAIN tab =>
           /\ i > Len(tab) /\ i - Len(tab) \in DOMAIN s
           /\ new[i].patch = s[i - Len(tab)] /\ new[i].client = c /\ new[i].tx = t
  BY RowsAdded
<1> HIDE DEF new
<1>2. \A i \in RowsAlone(tab, d) : i \in RowsAlone(new, d) /\ new[i].patch = tab[i].patch
  BY <1>1 DEF RowsAlone
<1>3. \A i \in RowsAlone(new, d) :
        \/ i \in RowsAlone(tab, d) /\ new[i].patch = tab[i].patch
        \/ t = 0 /\ d = c /\ i - Len(tab) \in DOMAIN s /\ new[i].patch = s[i - Len(tab)]
  BY <1>1 DEF RowsAlone
<1>4. ASSUME t = 0, d = c, NEW j \in DOMAIN s
      PROVE  j + Len(tab) \in RowsAlone(new, d) /\ new[j + Len(tab)].patch = s[j]
  <2>1. j + Len(tab) \in DOMAIN new /\ j + Len(tab) \notin DOMAIN tab /\ (j + Len(tab)) - Len(tab) = j
    BY <1>1
  <2>2. QED
    BY <1>1, <1>4, <2>1 DEF RowsAlone
<1>5. \A p : p \in Old => p \in New
  BY <1>2 DEF PatchesAlone
<1>6. \A p : p \in New => p \in Old \/ (t = 0 /\ d = c /\ p \in Ids(s))
  BY <1>3 DEF Ids, PatchesAlone
<1>7. t = 0 /\ d = c => \A p : p \in Ids(s) => p \in New
  BY <1>4 DEF Ids, PatchesAlone
<1>8. New = IF t = 0 /\ d = c THEN Old \cup Ids(s) ELSE Old
  BY <1>5, <1>6, <1>7
<1>9. QED
  BY <1>8 DEF new
-----------------------------------------------------------------------------
(* The invariant *)

LEMMA HeldNow ==
  /\ \A c \in Clients, x \in Contexts : Held[<<x, c>>] = Ids(buffer[c][x])
  /\ \A c \in Clients : /\ Held[<<"queue", c>>] = Ids(queue[c])
                        /\ Held[<<"rows", c>>] = PatchesAlone(table, c)
  /\ \A t \in Txs : Held[<<"work", t>>] = Ids(work[t])
  /\ Held[<<"lost", 0>>] = lost
BY HeldParts DEF Held

LEMMA HeldNext ==
  /\ \A c \in Clients, x \in Contexts : Held'[<<x, c>>] = Ids(buffer'[c][x])
  /\ \A c \in Clients : /\ Held'[<<"queue", c>>] = Ids(queue'[c])
                        /\ Held'[<<"rows", c>>] = PatchesAlone(table', c)
  /\ \A t \in Txs : Held'[<<"work", t>>] = Ids(work'[t])
  /\ Held'[<<"lost", 0>>] = lost'
BY HeldParts DEF Held

\* A holder none of whose patches move.
LEMMA HeldElse ==
  ASSUME NEW h \in Holders,
         \A c \in Clients, x \in Contexts : h = <<x, c>> => Ids(buffer'[c][x]) = Ids(buffer[c][x]),
         \A c \in Clients : h = <<"queue", c>> => Ids(queue'[c]) = Ids(queue[c]),
         \A c \in Clients : h = <<"rows", c>> => PatchesAlone(table', c) = PatchesAlone(table, c),
         \A t \in Txs : h = <<"work", t>> => Ids(work'[t]) = Ids(work[t]),
         h = <<"lost", 0>> => lost' = lost
  PROVE  Held'[h] = Held[h]
<1>1. ASSUME NEW c \in Clients, NEW x \in Contexts, h = <<x, c>>
      PROVE  Held'[h] = Held[h]
  BY <1>1, HeldNow, HeldNext
<1>2. ASSUME NEW c \in Clients, h = <<"queue", c>>
      PROVE  Held'[h] = Held[h]
  BY <1>2, HeldNow, HeldNext
<1>3. ASSUME NEW c \in Clients, h = <<"rows", c>>
      PROVE  Held'[h] = Held[h]
  BY <1>3, HeldNow, HeldNext
<1>4. ASSUME NEW t \in Txs, h = <<"work", t>>
      PROVE  Held'[h] = Held[h]
  BY <1>4, HeldNow, HeldNext
<1>5. ASSUME h = <<"lost", 0>>
      PROVE  Held'[h] = Held[h]
  BY <1>5, HeldNow, HeldNext
<1>6. QED
  BY <1>1, <1>2, <1>3, <1>4, <1>5, HolderKinds

\* The steps that move no patch.
LEMMA HeldQuiet ==
  ASSUME HeldOnce, UNCHANGED <<buffer, queue, work, table, lost, nextPatch, copied>>
  PROVE  HeldOnce'
BY DEF HeldOnce, Held, OnlyIn

\* The steps that move the patches S from one holder to another.
LEMMA HeldMoved ==
  ASSUME HeldOnce, UNCHANGED <<nextPatch, copied>>,
         NEW from \in Holders, NEW to \in Holders, from # to,
         NEW S, S \subseteq Held[from],
         Held'[to] = Held[to] \cup S, Held'[from] = Held[from] \ S,
         \A h \in Holders : h # from /\ h # to => Held'[h] = Held[h],
         \A p \in S : p < nextPatch
  PROVE  HeldOnce'
<1>1. ASSUME NEW p \in (1..nextPatch - 1) \ copied
      PROVE  OnlyIn(Held', p)
  <2>1. OnlyIn(Held, p)
    BY DEF HeldOnce
  <2>2. QED
    BY <2>1, Moved
<1>2. lost = Held[<<"lost", 0>>] /\ lost' = Held'[<<"lost", 0>>] /\ <<"lost", 0>> \in Holders
  BY HeldNow, HeldNext, AreHolders
<1>3. \A p \in lost' : p \in lost \/ p \in S
  BY <1>2
<1>4. QED
  BY <1>1, <1>3 DEF HeldOnce

LEMMA InitHeld == Init => HeldOnce
BY DEF Init, HeldOnce

LEMMA NextHeld == InvSafe /\ HeldOnce /\ [Next]_vars => HeldOnce'
<1> SUFFICES ASSUME InvSafe, HeldOnce, [Next]_vars PROVE HeldOnce'
  OBVIOUS
<1>t. TInv
  BY DEF InvSafe, KInv
<1>k. /\ \A c \in Clients, x \in Contexts : buffer[c][x] \in Seq(PatchIds)
      /\ \A c \in Clients : queue[c] \in Seq(PatchIds)
      /\ \A t \in Txs : work[t] \in Seq(PatchIds)
      /\ table \in Seq(Entry) /\ nextPatch \in Nat
  BY <1>t, Known
<1>e. /\ \A c \in Clients : /\ pc[c] # "save" => queue[c] = <<>>
                            /\ ~hasTxc[c] => buffer[c]["txc"] = <<>>
  BY DEF InvSafe, OInv, EmptyInv
<1>b. /\ \A c \in Clients, x \in Contexts : \A p \in Ids(buffer[c][x]) : p < nextPatch
      /\ \A c \in Clients : \A p \in Ids(queue[c]) : p < nextPatch
      /\ \A t \in Txs : \A p \in Ids(work[t]) : p < nextPatch
      /\ \A i \in DOMAIN table : table[i].patch < nextPatch
  BY <1>k, IdsAre DEF InvSafe, OInv, OldInv
<1>f. /\ \A c \in Clients, x \in Contexts : nextPatch \notin Ids(buffer[c][x])
      /\ \A c \in Clients : nextPatch \notin Ids(queue[c]) /\ nextPatch \notin PatchesAlone(table, c)
      /\ \A t \in Txs : nextPatch \notin Ids(work[t])
  <2>1. ~(nextPatch < nextPatch)
    BY <1>k
  <2>2. QED
    BY <2>1, <1>b DEF PatchesAlone, RowsAlone
<1>x. "dbc" \in Contexts /\ "txc" \in Contexts /\ "queue" \notin Contexts /\ "rows" \notin Contexts
      /\ "work" \notin Contexts /\ "lost" \notin Contexts
  BY DEF Contexts
<1>1. ASSUME NEW c \in Clients, NEW x \in Contexts, Patch(c, x)
      PROVE  HeldOnce'
  <2>e. /\ UNCHANGED <<queue, work, table, lost, copied>>
        /\ nextPatch \in PatchIds /\ nextPatch' = nextPatch + 1
        /\ \A d \in Clients, y \in Contexts :
             buffer'[d][y] = IF d = c /\ y = x THEN Append(buffer[c][x], nextPatch) ELSE buffer[d][y]
    BY <1>1, <1>t, PatchDoes
  <2>a. Ids(Append(buffer[c][x], nextPatch)) = Ids(buffer[c][x]) \cup {nextPatch}
    BY <2>e, <1>k, IdsAre
  <2>1. ASSUME NEW h \in Holders
        PROVE  /\ nextPatch \notin Held[h]
               /\ Held'[h] = IF h = <<x, c>> THEN Held[h] \cup {nextPatch} ELSE Held[h]
    <3>1. nextPatch \notin Held[h]
      <4>1. nextPatch \notin lost
        BY <1>k DEF HeldOnce
      <4>2. ASSUME NEW d \in Clients, NEW y \in Contexts, h = <<y, d>>
            PROVE  nextPatch \notin Held[h]
        BY <4>2, HeldNow, <1>f
      <4>3. ASSUME NEW d \in Clients, h = <<"queue", d>> \/ h = <<"rows", d>>
            PROVE  nextPatch \notin Held[h]
        BY <4>3, HeldNow, <1>f
      <4>4. ASSUME NEW t \in Txs, h = <<"work", t>>
            PROVE  nextPatch \notin Held[h]
        BY <4>4, HeldNow, <1>f
      <4>5. h = <<"lost", 0>> => nextPatch \notin Held[h]
        BY <4>1, HeldNow
      <4>6. QED
        BY <4>2, <4>3, <4>4, <4>5, HolderKinds
    <3>2. CASE h = <<x, c>>
      BY <3>2, HeldNow, HeldNext, <2>e, <2>a, <3>1
    <3>3. CASE h # <<x, c>>
      <4>1. \A d \in Clients, y \in Contexts : h = <<y, d>> => buffer'[d][y] = buffer[d][y]
        BY <3>3, <2>e
      <4>2. Held'[h] = Held[h]
        BY <4>1, <2>e, HeldElse
      <4>3. QED
        BY <4>2, <3>1, <3>3
    <3>4. QED
      BY <3>2, <3>3
  <2>2. ASSUME NEW p \in (1..nextPatch' - 1) \ copied
        PROVE  OnlyIn(Held', p)
    <3>1. CASE p = nextPatch
      BY <3>1, <2>1, AreHolders DEF OnlyIn
    <3>2. CASE p # nextPatch
      <4>1. p \in (1..nextPatch - 1) \ copied
        BY <3>2, <2>e, <1>k
      <4>2. OnlyIn(Held, p)
        BY <4>1 DEF HeldOnce
      <4>3. \A h \in Holders : p \in Held'[h] <=> p \in Held[h]
        BY <3>2, <2>1
      <4>4. QED
        BY <4>2, <4>3, Stayed
    <3>3. QED
      BY <3>1, <3>2
  <2>3. \A p \in lost : p \in PatchIds /\ p < nextPatch
    BY <1>t DEF HeldOnce, TInv, TypeOK, HistoryTypes
  <2>4. \A p \in lost' : p < nextPatch'
    BY <2>3, <2>e, <1>k DEF PatchIds
  <2>5. QED
    BY <2>2, <2>4, <2>e DEF HeldOnce
<1>2. ASSUME NEW c \in Clients, UseTx(c)
      PROVE  HeldOnce'
  <2>e. /\ UNCHANGED <<queue, work, table, lost, nextPatch>> /\ ~hasTxc[c]
        /\ copied' = copied \cup Ids(buffer[c]["dbc"])
        /\ \A d \in Clients, y \in Contexts :
             buffer'[d][y] = IF d = c /\ y = "txc" THEN buffer[c]["dbc"] ELSE buffer[d][y]
    BY <1>2, <1>t, UseTxDoes
  <2>1. ASSUME NEW p, p \notin Ids(buffer[c]["dbc"]), NEW h \in Holders
        PROVE  p \in Held'[h] <=> p \in Held[h]
    <3>1. ASSUME NEW d \in Clients, NEW y \in Contexts, h = <<y, d>>
          PROVE  p \in Held'[h] <=> p \in Held[h]
      <4>1. Held[h] = Ids(buffer[d][y]) /\ Held'[h] = Ids(buffer'[d][y])
        BY <3>1, HeldNow, HeldNext
      <4>2. CASE d = c /\ y = "txc"
        BY <4>1, <4>2, <2>e, <2>1, <1>e, IdsAre
      <4>3. CASE ~(d = c /\ y = "txc")
        BY <4>1, <4>3, <2>e
      <4>4. QED
        BY <4>2, <4>3
    <3>2. CASE \A d \in Clients, y \in Contexts : h # <<y, d>>
      <4>1. Held'[h] = Held[h]
        BY <3>2, <2>e, HeldElse
      <4>2. QED
        BY <4>1
    <3>3. QED
      BY <3>1, <3>2
  <2>2. ASSUME NEW p \in (1..nextPatch - 1) \ copied'
        PROVE  OnlyIn(Held', p)
    <3>1. OnlyIn(Held, p) /\ p \notin Ids(buffer[c]["dbc"])
      BY <2>e DEF HeldOnce
    <3>2. QED
      BY <3>1, <2>1, Stayed
  <2>3. QED
    BY <2>2, <2>e DEF HeldOnce
<1>3. ASSUME NEW c \in Clients, NEW x \in Contexts, CompilePatch(c, x)
      PROVE  HeldOnce'
  <2>e. /\ UNCHANGED <<work, table, nextPatch, lost, copied>>
        /\ pc[c] \in {"outside", "fn"}
        /\ \A d \in Clients : queue'[d] = IF d = c THEN buffer[c][x] ELSE queue[d]
        /\ \A d \in Clients, y \in Contexts :
             buffer'[d][y] = IF d = c /\ y = x THEN <<>> ELSE buffer[d][y]
    BY <1>3, <1>t, CompilePatchDoes
  <2> DEFINE from == <<x, c>>
             to == <<"queue", c>>
             S == Ids(buffer[c][x])
  <2>h. from \in Holders /\ to \in Holders /\ from # to
    BY AreHolders, <1>x
  <2>1. S \subseteq Held[from] /\ Held'[from] = Held[from] \ S
    BY HeldNow, HeldNext, <2>e, IdsAre
  <2>2. Held'[to] = Held[to] \cup S
    <3>1. queue[c] = <<>> /\ queue'[c] = buffer[c][x]
      BY <2>e, <1>e
    <3>2. Held[to] = Ids(queue[c]) /\ Held'[to] = Ids(queue'[c])
      BY HeldNow, HeldNext
    <3>3. Held[to] = {} /\ Held'[to] = S
      BY <3>1, <3>2, IdsAre
    <3>4. QED
      BY <3>3
  <2>3. \A p \in S : p < nextPatch
    BY <1>b
  <2>4. ASSUME NEW h \in Holders, h # from, h # to
        PROVE  Held'[h] = Held[h]
    <3>1. /\ \A d \in Clients, y \in Contexts : h = <<y, d>> => buffer'[d][y] = buffer[d][y]
          /\ \A d \in Clients : h = <<"queue", d>> => queue'[d] = queue[d]
      BY <2>4, <2>e
    <3>2. QED
      BY <3>1, <2>e, HeldElse
  <2>5. QED
    <3> HIDE DEF from, to, S
    <3>1. QED
      BY <2>e, <2>h, <2>1, <2>2, <2>3, <2>4, HeldMoved
<1>4. ASSUME NEW c \in Clients, NEW x \in Contexts, CompilePanics(c, x)
      PROVE  HeldOnce'
  <2>e. /\ UNCHANGED <<queue, work, table, nextPatch, copied>>
        /\ lost' = lost \cup Ids(buffer[c][x])
        /\ \A d \in Clients, y \in Contexts :
             buffer'[d][y] = IF d = c /\ y = x THEN <<>> ELSE buffer[d][y]
    BY <1>4, <1>t, CompilePanicsDoes
  <2> DEFINE from == <<x, c>>
             to == <<"lost", 0>>
             S == Ids(buffer[c][x])
  <2>h. from \in Holders /\ to \in Holders /\ from # to
    BY AreHolders, <1>x
  <2>1. S \subseteq Held[from] /\ Held'[from] = Held[from] \ S
    <3>1. Held[from] = S /\ Held'[from] = Ids(<<>>)
      BY HeldNow, HeldNext, <2>e, <1>x
    <3>2. QED
      BY <3>1, IdsAre
  <2>2. Held'[to] = Held[to] \cup S
    BY HeldNow, HeldNext, <2>e, IdsAre
  <2>3. \A p \in S : p < nextPatch
    BY <1>b, <1>x
  <2>4. ASSUME NEW h \in Holders, h # from, h # to
        PROVE  Held'[h] = Held[h]
    <3>1. /\ \A d \in Clients, y \in Contexts : h = <<y, d>> => buffer'[d][y] = buffer[d][y]
          /\ \A d \in Clients : h = <<"queue", d>> => queue'[d] = queue[d]
      BY <2>4, <2>e
    <3>2. h = <<"lost", 0>> => lost' = lost
      BY <2>4
    <3>3. QED
      BY <3>1, <3>2, <2>e, HeldElse
  <2>5. QED
    <3>1. UNCHANGED <<nextPatch, copied>>
      BY <2>e
    <3> HIDE DEF from, to, S
    <3>2. QED
      BY <3>1, <2>h, <2>1, <2>2, <2>3, <2>4, HeldMoved
<1>5. ASSUME NEW c \in Clients, NEW n \in 1..MaxPatch, Exec(c, n)
      PROVE  HeldOnce'
  <2> DEFINE s == SubSeq(queue[c], 1, n)
             r == SubSeq(queue[c], n + 1, Len(queue[c]))
  <2>e. /\ UNCHANGED <<buffer, nextPatch, lost, copied>> /\ n \in 1..Len(queue[c])
        /\ \A d \in Clients : queue'[d] = IF d = c THEN r ELSE queue[d]
        /\ saving[c] = "dbc" => table' = table \o Written(c, 0, s) /\ UNCHANGED work
        /\ saving[c] # "dbc" =>
             /\ tx[c] \in Txs /\ UNCHANGED table
             /\ \A t \in Txs : work'[t] = IF t = tx[c] THEN work[t] \o s ELSE work[t]
    BY <1>5, <1>t, ExecDoes
  <2>s. s \in Seq(PatchIds) /\ r \in Seq(PatchIds) /\ queue[c] = s \o r /\ Before(s, r)
    BY <2>e, <1>k, Cut, CutInOrder DEF InvSafe, OInv, InOrder
  <2> HIDE DEF s, r
  <2> DEFINE from == <<"queue", c>>
             to == IF saving[c] = "dbc" THEN <<"rows", c>> ELSE <<"work", tx[c]>>
             S == Ids(s)
  <2>i. Ids(queue[c]) = Ids(s) \cup Ids(r) /\ Ids(s) \cap Ids(r) = {}
    BY <2>s, IdsAre
  <2>h. from \in Holders /\ to \in Holders /\ from # to
    BY <2>e, AreHolders
  <2>1. S \subseteq Held[from] /\ Held'[from] = Held[from] \ S
    <3>1. Held[from] = Ids(queue[c]) /\ Held'[from] = Ids(r)
      BY HeldNow, HeldNext, <2>e
    <3>2. QED
      BY <3>1, <2>i
  <2>3. \A p \in S : p < nextPatch
    BY <1>b, <2>i
  <2>r. ASSUME NEW d \in Clients, saving[c] = "dbc"
        PROVE  Held'[<<"rows", d>>] = IF d = c THEN Held[<<"rows", d>>] \cup S ELSE Held[<<"rows", d>>]
    <3>1. 0 \in 0..MaxTx /\ table \in Seq(Entry) /\ table' = table \o Written(c, 0, s)
      BY <2>r, <2>e, <1>k, UnitAssumption
    <3>2. PatchesAlone(table \o Written(c, 0, s), d) =
            IF d = c THEN PatchesAlone(table, d) \cup Ids(s) ELSE PatchesAlone(table, d)
      BY <3>1, <2>s, AloneAre
    <3>3. QED
      BY <3>1, <3>2, HeldNow, HeldNext
  <2>q. saving[c] # "dbc" => Ids(work[tx[c]] \o s) = Ids(work[tx[c]]) \cup Ids(s)
    BY <2>e, <2>s, <1>k, IdsAre
  <2>2. Held'[to] = Held[to] \cup S
    <3>1. CASE saving[c] = "dbc"
      BY <3>1, <2>r
    <3>2. CASE saving[c] # "dbc"
      BY <3>2, <2>e, <2>q, HeldNow, HeldNext
    <3>3. QED
      BY <3>1, <3>2
  <2>4. ASSUME NEW h \in Holders, h # from, h # to
        PROVE  Held'[h] = Held[h]
    <3>1. \A d \in Clients : h = <<"queue", d>> => queue'[d] = queue[d]
      BY <2>4, <2>e
    <3>2. \A d \in Clients : h = <<"rows", d>> => PatchesAlone(table', d) = PatchesAlone(table, d)
      <4>1. CASE saving[c] = "dbc"
        BY <4>1, <2>4, <2>r, HeldNow, HeldNext
      <4>2. CASE saving[c] # "dbc"
        BY <4>2, <2>e
      <4>3. QED
        BY <4>1, <4>2
    <3>3. \A t \in Txs : h = <<"work", t>> => work'[t] = work[t]
      BY <2>4, <2>e
    <3>4. QED
      BY <3>1, <3>2, <3>3, <2>e, HeldElse
  <2>5. QED
    <3>1. UNCHANGED <<nextPatch, copied>>
      BY <2>e
    <3> HIDE DEF from, to, S
    <3>2. QED
      BY <3>1, <2>h, <2>1, <2>2, <2>3, <2>4, HeldMoved
<1>6. ASSUME NEW c \in Clients, ExecFails(c)
      PROVE  HeldOnce'
  <2>e. /\ UNCHANGED <<buffer, work, table, nextPatch, copied>>
        /\ \A d \in Clients : queue'[d] = IF d = c THEN <<>> ELSE queue[d]
        /\ lost' = lost \cup Ids(queue[c])
    BY <1>6, <1>t, ExecFailsDoes
  <2> DEFINE from == <<"queue", c>>
             to == <<"lost", 0>>
             S == Ids(queue[c])
  <2>h. from \in Holders /\ to \in Holders /\ from # to
    BY AreHolders, <1>x
  <2>1. S \subseteq Held[from] /\ Held'[from] = Held[from] \ S
    <3>1. Held[from] = S /\ Held'[from] = Ids(<<>>)
      BY HeldNow, HeldNext, <2>e, <1>x
    <3>2. QED
      BY <3>1, IdsAre
  <2>2. Held'[to] = Held[to] \cup S
    BY HeldNow, HeldNext, <2>e, IdsAre
  <2>3. \A p \in S : p < nextPatch
    BY <1>b, <1>x
  <2>4. ASSUME NEW h \in Holders, h # from, h # to
        PROVE  Held'[h] = Held[h]
    <3>1. /\ \A d \in Clients, y \in Contexts : h = <<y, d>> => buffer'[d][y] = buffer[d][y]
          /\ \A d \in Clients : h = <<"queue", d>> => queue'[d] = queue[d]
      BY <2>4, <2>e
    <3>2. h = <<"lost", 0>> => lost' = lost
      BY <2>4
    <3>3. QED
      BY <3>1, <3>2, <2>e, HeldElse
  <2>5. QED
    <3>1. UNCHANGED <<nextPatch, copied>>
      BY <2>e
    <3> HIDE DEF from, to, S
    <3>2. QED
      BY <3>1, <2>h, <2>1, <2>2, <2>3, <2>4, HeldMoved
<1>7. ASSUME NEW c \in Clients, SaveReturnsNil(c)
      PROVE  HeldOnce'
  BY <1>7, <1>t, SaveReturnsNilDoes, HeldQuiet
<1>8. ASSUME NEW c \in Clients, Begin(c) \/ BeginFails(c)
      PROVE  HeldOnce'
  <2>e. /\ UNCHANGED <<queue, work, table, nextPatch, copied>>
        /\ lost' = lost \cup Ids(buffer[c]["txc"])
        /\ \A d \in Clients, y \in Contexts :
             buffer'[d][y] = IF d = c /\ y = "txc" THEN <<>> ELSE buffer[d][y]
    BY <1>8, <1>t, NewScopeDoes
  <2> DEFINE from == <<"txc", c>>
             to == <<"lost", 0>>
             S == Ids(buffer[c]["txc"])
  <2>h. from \in Holders /\ to \in Holders /\ from # to
    BY AreHolders, <1>x
  <2>1. S \subseteq Held[from] /\ Held'[from] = Held[from] \ S
    <3>1. Held[from] = S /\ Held'[from] = Ids(<<>>)
      BY HeldNow, HeldNext, <2>e, <1>x
    <3>2. QED
      BY <3>1, IdsAre
  <2>2. Held'[to] = Held[to] \cup S
    BY HeldNow, HeldNext, <2>e, IdsAre
  <2>3. \A p \in S : p < nextPatch
    BY <1>b, <1>x
  <2>4. ASSUME NEW h \in Holders, h # from, h # to
        PROVE  Held'[h] = Held[h]
    <3>1. /\ \A d \in Clients, y \in Contexts : h = <<y, d>> => buffer'[d][y] = buffer[d][y]
          /\ \A d \in Clients : h = <<"queue", d>> => queue'[d] = queue[d]
      BY <2>4, <2>e
    <3>2. h = <<"lost", 0>> => lost' = lost
      BY <2>4
    <3>3. QED
      BY <3>1, <3>2, <2>e, HeldElse
  <2>5. QED
    <3>1. UNCHANGED <<nextPatch, copied>>
      BY <2>e
    <3> HIDE DEF from, to, S
    <3>2. QED
      BY <3>1, <2>h, <2>1, <2>2, <2>3, <2>4, HeldMoved
<1>9. ASSUME NEW c \in Clients, NEW res \in {"nil", "unknown"}, CommitTx(c, res)
      PROVE  HeldOnce'
  <2>e. /\ UNCHANGED <<buffer, queue, work, nextPatch, lost, copied>> /\ tx[c] \in Txs
        /\ table' = table \o Written(c, tx[c], work[tx[c]])
    BY <1>9, <1>t, CommitTxDoes
  <2>1. tx[c] \in 0..MaxTx /\ tx[c] # 0 /\ work[tx[c]] \in Seq(PatchIds) /\ table \in Seq(Entry)
    BY <2>e, <1>k DEF Txs
  <2>2. ASSUME NEW d \in Clients
        PROVE  PatchesAlone(table', d) = PatchesAlone(table, d)
    <3>1. PatchesAlone(table \o Written(c, tx[c], work[tx[c]]), d) = PatchesAlone(table, d)
      BY <2>1, AloneAre
    <3>2. QED
      BY <3>1, <2>e
  <2>3. \A h \in Holders : Held'[h] = Held[h]
    BY <2>2, <2>e, HeldElse
  <2>4. ASSUME NEW p \in (1..nextPatch - 1) \ copied
        PROVE  OnlyIn(Held', p)
    BY <2>3, Stayed DEF HeldOnce
  <2>5. QED
    BY <2>4, <2>e DEF HeldOnce
<1>10. ASSUME NEW c \in Clients,
              \/ FnReturnsNil(c) \/ FnReturnsError(c) \/ FnPanics(c)
              \/ CommitFails(c) \/ DeferredRollback(c)
      PROVE  HeldOnce'
  BY <1>10, <1>t, ScopeDoes, HeldQuiet
<1>11. ASSUME NEW t \in Txs, AutoRollback(t)
      PROVE  HeldOnce'
  BY <1>11, HeldQuiet DEF AutoRollback, ctxVars, history
<1>12. CASE UNCHANGED vars
  BY <1>12, HeldQuiet DEF vars
<1>13. QED
  BY <1>1, <1>2, <1>3, <1>4, <1>5, <1>6, <1>7, <1>8, <1>9, <1>10, <1>11, <1>12
     DEF Next, CtxStep, ScopeStep

-----------------------------------------------------------------------------
(* From the holder to the place in it *)

LEMMA AtOnce ==
  ASSUME NEW s \in Seq(PatchIds), Growing(s), NEW i \in DOMAIN s, NEW j \in DOMAIN s, s[i] = s[j]
  PROVE  i = j
<1>1. i \in Nat /\ j \in Nat /\ s[i] \in Nat /\ s[j] \in Nat
  BY Numbers
<1>2. ~(i < j) /\ ~(j < i)
  BY <1>1 DEF Growing
<1>3. QED
  BY <1>1, <1>2

LEMMA AtIds ==
  ASSUME NEW s, NEW p
  PROVE  p \in Ids(s) <=> \E i \in DOMAIN s : i \in At(p, s)
BY DEF Ids, At

LEMMA PlacesAre ==
  ASSUME NEW p, NEW v
  PROVE  v \in Places(p) <=>
           \/ \E c \in Clients, x \in Contexts : \E i \in At(p, buffer[c][x]) : v = <<x, c, i>>
           \/ \E c \in Clients : \E i \in At(p, queue[c]) : v = <<"queue", c, i>>
           \/ \E t \in Txs : \E i \in At(p, work[t]) : v = <<"work", t, i>>
           \/ \E i \in Alone : table[i].patch = p /\ v = <<"table", 0, i>>
           \/ p \in lost /\ v = <<"lost", 0, 0>>
<1> DEFINE A(c, x) == {<<x, c, i>> : i \in At(p, buffer[c][x])}
           B(c) == {<<"queue", c, i>> : i \in At(p, queue[c])}
           C(t) == {<<"work", t, i>> : i \in At(p, work[t])}
           D == {<<"table", 0, i>> : i \in {j \in Alone : table[j].patch = p}}
           E == {<<"lost", 0, 0>> : q \in {p} \cap lost}
           AA == {A(c, x) : c \in Clients, x \in Contexts}
           BB == {B(c) : c \in Clients}
           CC == {C(t) : t \in Txs}
<1>1. /\ \A c, x : v \in A(c, x) <=> \E i \in At(p, buffer[c][x]) : v = <<x, c, i>>
      /\ \A c : v \in B(c) <=> \E i \in At(p, queue[c]) : v = <<"queue", c, i>>
      /\ \A t : v \in C(t) <=> \E i \in At(p, work[t]) : v = <<"work", t, i>>
      /\ v \in D <=> \E i \in Alone : table[i].patch = p /\ v = <<"table", 0, i>>
      /\ v \in E <=> p \in lost /\ v = <<"lost", 0, 0>>
  OBVIOUS
<1>2. Places(p) = UNION (AA \cup BB \cup CC \cup {D} \cup {E})
  BY DEF Places, A, B, C, D, E, AA, BB, CC
<1> HIDE DEF A, B, C, D, E
<1>3. /\ \A S : S \in AA <=> \E c \in Clients, x \in Contexts : S = A(c, x)
      /\ \A S : S \in BB <=> \E c \in Clients : S = B(c)
      /\ \A S : S \in CC <=> \E t \in Txs : S = C(t)
  OBVIOUS
<1> HIDE DEF AA, BB, CC
<1>4. v \in Places(p) <=> \E S : v \in S /\ (S \in AA \/ S \in BB \/ S \in CC \/ S = D \/ S = E)
  BY <1>2
<1>5. v \in Places(p) <=> \/ \E c \in Clients, x \in Contexts : v \in A(c, x)
                          \/ \E c \in Clients : v \in B(c)
                          \/ \E t \in Txs : v \in C(t)
                          \/ v \in D
                          \/ v \in E
  BY <1>3, <1>4
<1>6. QED
  BY <1>1, <1>5
LEMMA PlaceIsOne ==
  ASSUME InvSafe, NEW p, OnlyIn(Held, p)
  PROVE  \E v : Places(p) = {v}
<1>t. TInv
  BY DEF InvSafe, KInv
<1>k. /\ \A c \in Clients, x \in Contexts : buffer[c][x] \in Seq(PatchIds)
      /\ \A c \in Clients : queue[c] \in Seq(PatchIds)
      /\ \A t \in Txs : work[t] \in Seq(PatchIds)
      /\ table \in Seq(Entry) /\ \A i \in DOMAIN table : table[i].patch \in PatchIds
  BY <1>t, Known
<1>g. /\ \A c \in Clients, x \in Contexts : Growing(buffer[c][x])
      /\ \A c \in Clients : Growing(queue[c])
      /\ \A t \in Txs : Growing(work[t])
  BY DEF InvSafe, OInv, InOrder
<1>1. PICK h \in Holders : p \in Held[h] /\ \A k \in Holders : p \in Held[k] => k = h
  BY DEF OnlyIn
<1>2. /\ \A c \in Clients, x \in Contexts : (\E i : i \in At(p, buffer[c][x])) => h = <<x, c>>
      /\ \A c \in Clients : (\E i : i \in At(p, queue[c])) => h = <<"queue", c>>
      /\ \A t \in Txs : (\E i : i \in At(p, work[t])) => h = <<"work", t>>
      /\ \A i \in Alone : table[i].patch = p =>
           \E c \in Clients : h = <<"rows", c>> /\ i \in RowsAlone(table, c)
      /\ p \in lost => h = <<"lost", 0>>
  <2>1. \A s : (\E i : i \in At(p, s)) => p \in Ids(s)
    BY DEF At, Ids
  <2>2. ASSUME NEW i \in Alone, table[i].patch = p
        PROVE  \E c \in Clients : h = <<"rows", c>> /\ i \in RowsAlone(table, c)
    <3>1. table[i] \in Entry
      BY <1>k DEF Alone
    <3>2. table[i].client \in Clients
      BY <3>1 DEF Entry
    <3>3. i \in RowsAlone(table, table[i].client)
      BY DEF Alone, RowsAlone
    <3>4. p \in Held[<<"rows", table[i].client>>]
      BY <2>2, <3>2, <3>3, HeldNow DEF PatchesAlone
    <3>5. QED
      BY <1>1, <3>2, <3>3, <3>4, AreHolders
  <2>3. ASSUME NEW c \in Clients, NEW x \in Contexts, \E i : i \in At(p, buffer[c][x])
        PROVE  h = <<x, c>>
    <3>1. p \in Held[<<x, c>>]
      BY <2>1, <2>3, HeldNow
    <3>2. <<x, c>> \in Holders
      BY AreHolders
    <3>3. QED
      BY <3>1, <3>2, <1>1
  <2>4. ASSUME NEW c \in Clients, \E i : i \in At(p, queue[c])
        PROVE  h = <<"queue", c>>
    <3>1. p \in Held[<<"queue", c>>]
      BY <2>1, <2>4, HeldNow
    <3>2. QED
      BY <3>1, <1>1, AreHolders
  <2>5. ASSUME NEW t \in Txs, \E i : i \in At(p, work[t])
        PROVE  h = <<"work", t>>
    BY <2>1, <2>5, <1>1, HeldNow, AreHolders
  <2>6. p \in lost => h = <<"lost", 0>>
    BY <1>1, HeldNow, AreHolders
  <2>7. QED
    BY <2>2, <2>3, <2>4, <2>5, <2>6
<1>x. "queue" \notin Contexts /\ "rows" \notin Contexts /\ "work" \notin Contexts /\ "lost" \notin Contexts
  BY DEF Contexts
\* Each kind of holder: the other places of p are none.
<1>3. ASSUME NEW c \in Clients, NEW x \in Contexts, h = <<x, c>>
      PROVE  \E v : Places(p) = {v}
  <2>1. PICK i \in At(p, buffer[c][x]) : TRUE
    BY <1>1, <1>3, HeldNow DEF Ids, At
  <2>2. \A j \in At(p, buffer[c][x]) : j = i
    BY <2>1, <1>k, <1>g, AtOnce DEF At
  <2>3. \A v : v \in Places(p) <=> v = <<x, c, i>>
    <3>1. \A d \in Clients, y \in Contexts : \A j \in At(p, buffer[d][y]) : y = x /\ d = c /\ j = i
      BY <1>2, <1>3, <2>2
    <3>2. /\ \A d \in Clients : \A j \in At(p, queue[d]) : FALSE
          /\ \A t \in Txs : \A j \in At(p, work[t]) : FALSE
          /\ \A j \in Alone : table[j].patch # p
          /\ p \notin lost
      BY <1>2, <1>3, <1>x
    <3>3. QED
      BY <2>1, <3>1, <3>2, PlacesAre
  <2>4. Places(p) = {<<x, c, i>>}
    BY <2>3
  <2>5. QED
    BY <2>4
<1>4. ASSUME NEW c \in Clients, h = <<"queue", c>>
      PROVE  \E v : Places(p) = {v}
  <2>1. PICK i \in At(p, queue[c]) : TRUE
    <3>1. p \in Held[<<"queue", c>>]
      BY <1>1, <1>4
    <3>2. p \in Ids(queue[c])
      BY <3>1, HeldNow
    <3>3. QED
      BY <3>2 DEF Ids, At
  <2>2. \A j \in At(p, queue[c]) : j = i
    BY <2>1, <1>k, <1>g, AtOnce DEF At
  <2>3. \A v : v \in Places(p) <=> v = <<"queue", c, i>>
    <3>1. \A d \in Clients : \A j \in At(p, queue[d]) : d = c /\ j = i
      BY <1>2, <1>4, <2>2
    <3>2. /\ \A d \in Clients, y \in Contexts : \A j \in At(p, buffer[d][y]) : FALSE
          /\ \A t \in Txs : \A j \in At(p, work[t]) : FALSE
          /\ \A j \in Alone : table[j].patch # p
          /\ p \notin lost
      BY <1>2, <1>4, <1>x
    <3>3. QED
      BY <2>1, <3>1, <3>2, PlacesAre
  <2>4. Places(p) = {<<"queue", c, i>>}
    BY <2>3
  <2>5. QED
    BY <2>4
<1>5. ASSUME NEW t \in Txs, h = <<"work", t>>
      PROVE  \E v : Places(p) = {v}
  <2>1. PICK i \in At(p, work[t]) : TRUE
    BY <1>1, <1>5, HeldNow DEF Ids, At
  <2>2. \A j \in At(p, work[t]) : j = i
    BY <2>1, <1>k, <1>g, AtOnce DEF At
  <2>3. \A v : v \in Places(p) <=> v = <<"work", t, i>>
    <3>1. \A u \in Txs : \A j \in At(p, work[u]) : u = t /\ j = i
      BY <1>2, <1>5, <2>2
    <3>2. /\ \A d \in Clients, y \in Contexts : \A j \in At(p, buffer[d][y]) : FALSE
          /\ \A d \in Clients : \A j \in At(p, queue[d]) : FALSE
          /\ \A j \in Alone : table[j].patch # p
          /\ p \notin lost
      BY <1>2, <1>5, <1>x
    <3>3. QED
      BY <2>1, <3>1, <3>2, PlacesAre
  <2>4. Places(p) = {<<"work", t, i>>}
    BY <2>3
  <2>5. QED
    BY <2>4
<1>6. ASSUME NEW c \in Clients, h = <<"rows", c>>
      PROVE  \E v : Places(p) = {v}
  <2>1. PICK i \in RowsAlone(table, c) : table[i].patch = p
    <3>1. p \in Held[<<"rows", c>>]
      BY <1>1, <1>6
    <3>2. p \in PatchesAlone(table, c)
      BY <3>1, HeldNow
    <3>3. QED
      BY <3>2 DEF PatchesAlone
  <2>2. ASSUME NEW j \in Alone, table[j].patch = p
        PROVE  j = i
    <3>1. j \in RowsAlone(table, c)
      BY <1>2, <1>6, <2>2
    <3>2. /\ i \in DOMAIN table /\ j \in DOMAIN table
          /\ table[i].client = table[j].client /\ table[i].tx = table[j].tx
      BY <2>1, <3>1 DEF RowsAlone
    <3>3. i \in Nat /\ j \in Nat /\ p \in Nat
      <4>1. i \in 1..Len(table) /\ j \in 1..Len(table) /\ p \in PatchIds
        BY <3>2, <2>1, <1>k
      <4>2. QED
        BY <4>1 DEF PatchIds
    <3>4. ~(i < j) /\ ~(j < i)
      BY <2>1, <2>2, <3>2, <3>3 DEF InvSafe, OInv, PatchOrder
    <3>5. QED
      BY <3>3, <3>4
  <2>3. \A v : v \in Places(p) <=> v = <<"table", 0, i>>
    <3>1. i \in Alone
      BY <2>1 DEF RowsAlone, Alone
    <3>2. /\ \A d \in Clients, y \in Contexts : \A j \in At(p, buffer[d][y]) : FALSE
          /\ \A d \in Clients : \A j \in At(p, queue[d]) : FALSE
          /\ \A t \in Txs : \A j \in At(p, work[t]) : FALSE
          /\ p \notin lost
      BY <1>2, <1>6, <1>x
    <3>3. QED
      BY <2>1, <2>2, <3>1, <3>2, PlacesAre
  <2>4. Places(p) = {<<"table", 0, i>>}
    BY <2>3
  <2>5. QED
    BY <2>4
<1>7. ASSUME h = <<"lost", 0>>
      PROVE  \E v : Places(p) = {v}
  <2>1. p \in lost
    BY <1>1, <1>7, HeldNow
  <2>2. \A v : v \in Places(p) <=> v = <<"lost", 0, 0>>
    <3>1. /\ \A d \in Clients, y \in Contexts : \A j \in At(p, buffer[d][y]) : FALSE
          /\ \A d \in Clients : \A j \in At(p, queue[d]) : FALSE
          /\ \A t \in Txs : \A j \in At(p, work[t]) : FALSE
          /\ \A j \in Alone : table[j].patch # p
      BY <1>2, <1>7, <1>x
    <3>2. QED
      BY <2>1, <3>1, PlacesAre
  <2>3. Places(p) = {<<"lost", 0, 0>>}
    BY <2>2
  <2>4. QED
    BY <2>3
<1>8. QED
  BY <1>3, <1>4, <1>5, <1>6, <1>7, HolderKinds

\* A patch is pending, being saved, executed or lost: exactly one of these, and
\* in one place, so that no calls, failures and panics execute it twice or make
\* it disappear without an error (db_ctx.go:92-116, 195-196, 212-228).
THEOREM EveryPatchIsAccounted == Spec => []Accounted
<1>1. InvSafe /\ HeldOnce => Accounted
  <2> SUFFICES ASSUME InvSafe, HeldOnce, NEW p \in (1..nextPatch - 1) \ copied
               PROVE  Cardinality(Places(p)) = 1
    BY DEF Accounted
  <2>1. PICK v : Places(p) = {v}
    BY PlaceIsOne DEF HeldOnce
  <2>2. QED
    BY <2>1, FS_Singleton
<1>2. QED
  BY InitOrdered, NextOrdered, InitHeld, NextHeld, <1>1, PTL DEF Spec
=============================================================================
