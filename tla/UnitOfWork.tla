----------------------------- MODULE UnitOfWork -----------------------------
(***************************************************************************)
(* Saving patches with a DBContext, alone and inside TxScope (db_ctx.go,   *)
(* tx_scope.go).                                                           *)
(*                                                                         *)
(* Each client is a goroutine with a DBContext of its own, "dbc", on one   *)
(* database.  It adds patches, saves them, and runs transactions:          *)
(*                                                                         *)
(*   err := TxScope(dbc.DB.Begin())(func(tx *sql.Tx) error {               *)
(*     txc := dbc.UseTx(tx); txc.Patch(...); txc.SaveChanges(); ... })     *)
(*                                                                         *)
(* What fn does is any sequence of those calls, on dbc and on txc; it      *)
(* may ignore the error of a SaveChanges, fail, or panic.  Patches are     *)
(* numbered as they are added.  A compiled statement stands for one or     *)
(* more neighbouring patches, in the order of the buffer: that is what     *)
(* BulkCompiler says of a compiler.  How many is left open here.           *)
(***************************************************************************)
EXTENDS Integers, Sequences, FiniteSets

CONSTANTS
  Clients,
  MaxPatch,    \* bound: patches added in a behaviour
  MaxTx        \* bound: calls of TxScope in a behaviour

ASSUME UnitAssumption == MaxPatch \in Nat /\ MaxTx \in Nat

VARIABLES
  buffer,      \* buffer[c][x]: patchBuffer of the context x of client c
  queue,       \* the patches whose statements SaveChanges has still to execute
  saving,      \* the context of the running SaveChanges
  pc,          \* "outside" or in "fn", in "save"; then "commit", "defer"
  back,        \* where SaveChanges returns to
  tx,          \* the transaction of the client's last TxScope; 0: none yet
  hasTxc,      \* UseTx was called for it
  ret,         \* what the running TxScope is about to return
  state,       \* what the database knows of a transaction
  work,        \* the uncommitted patches of a transaction
  table,       \* the committed patches, and who wrote them
  nextPatch, nextTx,
  \* history
  told,        \* what TxScope returned for a transaction
  drained,     \* the patches CompilePatch took to be saved in a transaction
  failed,      \* transactions one of whose SaveChanges failed
  lost,        \* patches a failed SaveChanges or a discarded context dropped
  copied       \* patches UseTx copied into a second buffer

dbVars == <<state, work, table>>
ctxVars == <<buffer, queue, saving, hasTxc, tx>>
history == <<told, drained, failed, lost, copied>>
vars == <<buffer, queue, saving, pc, back, tx, hasTxc, ret, state, work, table,
          nextPatch, nextTx, told, drained, failed, lost, copied>>

Contexts == {"dbc", "txc"}
PatchIds == 1..MaxPatch
Txs == 1..MaxTx

-----------------------------------------------------------------------------

Written(c, t, patches) ==
  [i \in 1..Len(patches) |-> [patch |-> patches[i], client |-> c, tx |-> t]]

Ids(s) == {s[i] : i \in DOMAIN s}

-----------------------------------------------------------------------------

Init ==
  /\ buffer = [c \in Clients |-> [x \in Contexts |-> <<>>]]
  /\ queue = [c \in Clients |-> <<>>]
  /\ saving = [c \in Clients |-> "dbc"]
  /\ pc = [c \in Clients |-> "outside"]
  /\ back = [c \in Clients |-> "outside"]
  /\ tx = [c \in Clients |-> 0]
  /\ hasTxc = [c \in Clients |-> FALSE]
  /\ ret = [c \in Clients |-> "none"]
  /\ state = [t \in Txs |-> "none"]
  /\ work = [t \in Txs |-> <<>>]
  /\ table = <<>>
  /\ nextPatch = 1
  /\ nextTx = 1
  /\ told = [t \in Txs |-> "none"]
  /\ drained = [t \in Txs |-> <<>>]
  /\ failed = {}
  /\ lost = {}
  /\ copied = {}

Running(c) == pc[c] \in {"outside", "fn"}
Usable(c, x) == x = "txc" => hasTxc[c]

-----------------------------------------------------------------------------
(* DBContext *)

\* Mutant of Patch: the patch is put in front of the pending ones.
PatchInFront(c, x) ==
  /\ Running(c) /\ Usable(c, x)
  /\ nextPatch <= MaxPatch
  /\ buffer' = [buffer EXCEPT ![c][x] = <<nextPatch>> \o @]
  /\ nextPatch' = nextPatch + 1
  /\ UNCHANGED <<queue, saving, pc, back, tx, hasTxc, ret, dbVars, nextTx, history>>

Patch(c, x) ==
  /\ Running(c) /\ Usable(c, x)
  /\ nextPatch <= MaxPatch
  /\ buffer' = [buffer EXCEPT ![c][x] = Append(@, nextPatch)]
  /\ nextPatch' = nextPatch + 1
  /\ UNCHANGED <<queue, saving, pc, back, tx, hasTxc, ret, dbVars, nextTx, history>>

\* The clone gets a copy of the pending patches; dbc keeps its own.
UseTx(c) ==
  /\ pc[c] = "fn"
  /\ ~hasTxc[c]
  /\ hasTxc' = [hasTxc EXCEPT ![c] = TRUE]
  /\ buffer' = [buffer EXCEPT ![c]["txc"] = buffer[c]["dbc"]]
  /\ copied' = copied \cup Ids(buffer[c]["dbc"])
  /\ UNCHANGED <<queue, saving, pc, back, tx, ret, dbVars, nextPatch, nextTx,
                 told, drained, failed, lost>>

\* Mutant of CompilePatch: the buffer is not cleared.
CompilePatchKeeps(c, x) ==
  /\ Running(c) /\ Usable(c, x)
  /\ buffer[c][x] # <<>>
  /\ queue' = [queue EXCEPT ![c] = buffer[c][x]]
  /\ saving' = [saving EXCEPT ![c] = x]
  /\ back' = [back EXCEPT ![c] = pc[c]]
  /\ pc' = [pc EXCEPT ![c] = "save"]
  /\ drained' = IF x = "txc" /\ pc[c] = "fn"
                  THEN [drained EXCEPT ![tx[c]] = @ \o buffer[c][x]]
                  ELSE drained
  /\ UNCHANGED <<buffer, tx, hasTxc, ret, dbVars, nextPatch, nextTx,
                 told, failed, lost, copied>>

\* Mutant of CompilePatch: SaveChanges returns into itself.
CompilePatchReenters(c, x) ==
  /\ Running(c) /\ Usable(c, x)
  /\ buffer[c][x] # <<>>
  /\ queue' = [queue EXCEPT ![c] = buffer[c][x]]
  /\ buffer' = [buffer EXCEPT ![c][x] = <<>>]
  /\ saving' = [saving EXCEPT ![c] = x]
  /\ pc' = [pc EXCEPT ![c] = "save"]
  /\ back' = [back EXCEPT ![c] = "save"]
  /\ drained' = drained
  /\ UNCHANGED <<tx, hasTxc, ret, dbVars, nextPatch, nextTx,
                 told, failed, lost, copied>>

\* SaveChanges: CompilePatch empties the buffer before it compiles.  (With an
\* empty buffer SaveChanges executes nothing.)
CompilePatch(c, x) ==
  /\ Running(c) /\ Usable(c, x)
  /\ buffer[c][x] # <<>>
  /\ queue' = [queue EXCEPT ![c] = buffer[c][x]]
  /\ buffer' = [buffer EXCEPT ![c][x] = <<>>]
  /\ saving' = [saving EXCEPT ![c] = x]
  /\ back' = [back EXCEPT ![c] = pc[c]]
  /\ pc' = [pc EXCEPT ![c] = "save"]
  /\ drained' = IF x = "txc" /\ pc[c] = "fn"
                  THEN [drained EXCEPT ![tx[c]] = @ \o buffer[c][x]]
                  ELSE drained
  /\ UNCHANGED <<tx, hasTxc, ret, dbVars, nextPatch, nextTx,
                 told, failed, lost, copied>>

\* A patch the compiler cannot translate: the panic leaves the buffer empty
\* and, inside fn, unwinds to the deferred Rollback.
CompilePanics(c, x) ==
  /\ Running(c) /\ Usable(c, x)
  /\ buffer[c][x] # <<>>
  /\ buffer' = [buffer EXCEPT ![c][x] = <<>>]
  /\ lost' = lost \cup Ids(buffer[c][x])
  /\ IF pc[c] = "fn"
       THEN /\ pc' = [pc EXCEPT ![c] = "defer"]
            /\ ret' = [ret EXCEPT ![c] = "panic"]
       ELSE UNCHANGED <<pc, ret>>
  /\ UNCHANGED <<queue, saving, back, tx, hasTxc, dbVars, nextPatch, nextTx,
                 told, drained, failed, copied>>

\* One successful QueryRunner.ExecContext, of a statement for the next n
\* patches: on *sql.DB it commits by itself, on the transaction it needs that
\* one to be active.
Exec(c, n) ==
  /\ pc[c] = "save"
  /\ n \in 1..Len(queue[c])
  /\ IF saving[c] = "dbc"
       THEN /\ table' = table \o Written(c, 0, SubSeq(queue[c], 1, n))
            /\ UNCHANGED work
       ELSE /\ state[tx[c]] = "active"
            /\ work' = [work EXCEPT ![tx[c]] = @ \o SubSeq(queue[c], 1, n)]
            /\ UNCHANGED table
  /\ queue' = [queue EXCEPT ![c] = SubSeq(@, n + 1, Len(@))]
  /\ UNCHANGED <<buffer, saving, pc, back, tx, hasTxc, ret, state,
                 nextPatch, nextTx, history>>

\* Mutant of ExecFails: the error is dropped and the loop goes on.
ExecFailsSilently(c) ==
  /\ pc[c] = "save"
  /\ queue[c] # <<>>
  /\ lost' = lost \cup {Head(queue[c])}
  /\ queue' = [queue EXCEPT ![c] = Tail(@)]
  /\ UNCHANGED <<buffer, saving, pc, back, tx, hasTxc, ret, dbVars,
                 nextPatch, nextTx, told, drained, failed, copied>>

\* ToSql or ExecContext fails: SaveChanges returns the error, and the
\* statements that were left are gone.
ExecFails(c) ==
  /\ pc[c] = "save"
  /\ queue[c] # <<>>
  /\ lost' = lost \cup Ids(queue[c])
  /\ failed' = IF saving[c] = "txc" /\ back[c] = "fn" THEN failed \cup {tx[c]} ELSE failed
  /\ queue' = [queue EXCEPT ![c] = <<>>]
  /\ pc' = [pc EXCEPT ![c] = back[c]]
  /\ UNCHANGED <<buffer, saving, back, tx, hasTxc, ret, dbVars,
                 nextPatch, nextTx, told, drained, copied>>

SaveReturnsNil(c) ==
  /\ pc[c] = "save"
  /\ queue[c] = <<>>
  /\ pc' = [pc EXCEPT ![c] = back[c]]
  /\ UNCHANGED <<ctxVars, back, ret, dbVars, nextPatch, nextTx, history>>

-----------------------------------------------------------------------------
(* TxScope *)

\* The previous scope's txc, and what is pending in it, is out of reach now.
NewScope(c) ==
  /\ pc[c] = "outside"
  /\ nextTx <= MaxTx
  /\ nextTx' = nextTx + 1
  /\ tx' = [tx EXCEPT ![c] = nextTx]
  /\ hasTxc' = [hasTxc EXCEPT ![c] = FALSE]
  /\ buffer' = [buffer EXCEPT ![c]["txc"] = <<>>]
  /\ lost' = lost \cup Ids(buffer[c]["txc"])
  /\ UNCHANGED <<queue, saving, back, work, table, nextPatch,
                 drained, failed, copied>>

\* Begin succeeds and fn starts.
Begin(c) ==
  /\ NewScope(c)
  /\ state' = [state EXCEPT ![nextTx] = "active"]
  /\ pc' = [pc EXCEPT ![c] = "fn"]
  /\ ret' = [ret EXCEPT ![c] = "none"]
  /\ UNCHANGED told

\* TxScope(nil, err): the error is returned and fn is not called.
BeginFails(c) ==
  /\ NewScope(c)
  /\ told' = [told EXCEPT ![nextTx] = "err"]
  /\ UNCHANGED <<state, pc, ret>>

FnReturnsNil(c) ==
  /\ pc[c] = "fn"
  /\ pc' = [pc EXCEPT ![c] = "commit"]
  /\ UNCHANGED <<ctxVars, back, ret, dbVars, nextPatch, nextTx, history>>

FnReturnsError(c) ==
  /\ pc[c] = "fn"
  /\ ret' = [ret EXCEPT ![c] = "err"]
  /\ pc' = [pc EXCEPT ![c] = "defer"]
  /\ UNCHANGED <<ctxVars, back, dbVars, nextPatch, nextTx, history>>

FnPanics(c) ==
  /\ pc[c] = "fn"
  /\ ret' = [ret EXCEPT ![c] = "panic"]
  /\ pc' = [pc EXCEPT ![c] = "defer"]
  /\ UNCHANGED <<ctxVars, back, dbVars, nextPatch, nextTx, history>>

\* The outcomes of tx.Commit(): it commits and says so; it commits, but the
\* answer is lost; or it fails, as it does when the transaction is over.
CommitTx(c, result) ==
  /\ pc[c] = "commit"
  /\ state[tx[c]] = "active"
  /\ state' = [state EXCEPT ![tx[c]] = "committed"]
  /\ table' = table \o Written(c, tx[c], work[tx[c]])
  /\ ret' = [ret EXCEPT ![c] = result]
  /\ pc' = [pc EXCEPT ![c] = "defer"]
  /\ UNCHANGED <<ctxVars, back, work, nextPatch, nextTx, history>>

CommitFails(c) ==
  /\ pc[c] = "commit"
  /\ state' = [state EXCEPT ![tx[c]] = "rolledback"]
  /\ ret' = [ret EXCEPT ![c] = "err"]
  /\ pc' = [pc EXCEPT ![c] = "defer"]
  /\ UNCHANGED <<ctxVars, back, work, table, nextPatch, nextTx, history>>

\* Mutants of DeferredRollback: nothing is deferred; the deferred call commits;
\* it undoes a commit; it is not deferred, so that a panic goes past it.
DeferredNothing(c) ==
  /\ pc[c] = "defer"
  /\ told' = [told EXCEPT ![tx[c]] = ret[c]]
  /\ pc' = [pc EXCEPT ![c] = "outside"]
  /\ UNCHANGED <<ctxVars, back, ret, state, work, table, nextPatch, nextTx,
                 drained, failed, lost, copied>>

DeferredCommit(c) ==
  /\ pc[c] = "defer"
  /\ IF state[tx[c]] = "active"
       THEN /\ state' = [state EXCEPT ![tx[c]] = "committed"]
            /\ table' = table \o Written(c, tx[c], work[tx[c]])
       ELSE UNCHANGED <<state, table>>
  /\ told' = [told EXCEPT ![tx[c]] = ret[c]]
  /\ pc' = [pc EXCEPT ![c] = "outside"]
  /\ UNCHANGED <<ctxVars, back, ret, work, nextPatch, nextTx,
                 drained, failed, lost, copied>>

DeferredUndo(c) ==
  /\ pc[c] = "defer"
  /\ state' = [state EXCEPT ![tx[c]] = "rolledback"]
  /\ told' = [told EXCEPT ![tx[c]] = ret[c]]
  /\ pc' = [pc EXCEPT ![c] = "outside"]
  /\ UNCHANGED <<ctxVars, back, ret, work, table, nextPatch, nextTx,
                 drained, failed, lost, copied>>

RollbackNotDeferred(c) ==
  /\ pc[c] = "defer"
  /\ ret[c] # "panic"
  /\ state' = IF state[tx[c]] = "active"
                THEN [state EXCEPT ![tx[c]] = "rolledback"] ELSE state
  /\ told' = [told EXCEPT ![tx[c]] = ret[c]]
  /\ pc' = [pc EXCEPT ![c] = "outside"]
  /\ UNCHANGED <<ctxVars, back, ret, work, table, nextPatch, nextTx,
                 drained, failed, lost, copied>>

\* tx.Rollback() has no effect on a transaction that is over.  Then TxScope
\* returns, or the panic goes on.
DeferredRollback(c) ==
  /\ pc[c] = "defer"
  /\ state' = IF state[tx[c]] = "active"
                THEN [state EXCEPT ![tx[c]] = "rolledback"] ELSE state
  /\ told' = [told EXCEPT ![tx[c]] = ret[c]]
  /\ pc' = [pc EXCEPT ![c] = "outside"]
  /\ UNCHANGED <<ctxVars, back, ret, work, table, nextPatch, nextTx,
                 drained, failed, lost, copied>>

\* database/sql or the server gives a transaction up: its context is
\* cancelled, or its connection is lost.
AutoRollback(t) ==
  /\ state[t] = "active"
  /\ state' = [state EXCEPT ![t] = "rolledback"]
  /\ UNCHANGED <<ctxVars, pc, back, ret, work, table, nextPatch, nextTx, history>>

-----------------------------------------------------------------------------

CtxStep(c) == \/ \E x \in Contexts : Patch(c, x) \/ CompilePatch(c, x) \/ CompilePanics(c, x)
              \/ UseTx(c) \/ ExecFails(c) \/ SaveReturnsNil(c)
              \/ \E n \in 1..MaxPatch : Exec(c, n)

ScopeStep(c) == \/ Begin(c) \/ BeginFails(c)
                \/ FnReturnsNil(c) \/ FnReturnsError(c) \/ FnPanics(c)
                \/ CommitTx(c, "nil") \/ CommitTx(c, "unknown") \/ CommitFails(c)
                \/ DeferredRollback(c)

Next == \/ \E c \in Clients : CtxStep(c) \/ ScopeStep(c)
        \/ \E t \in Txs : AutoRollback(t)

Spec == Init /\ [][Next]_vars

\* Goroutines are scheduled, calls to the database return, and fn ends.
FairSpec == Spec /\ \A c \in Clients : WF_vars(CtxStep(c) \/ ScopeStep(c))
-----------------------------------------------------------------------------
(* Properties *)

Entry == [patch : PatchIds, client : Clients, tx : 0..MaxTx]

ContextTypes ==
  /\ buffer \in [Clients -> [Contexts -> Seq(PatchIds)]]
  /\ queue \in [Clients -> Seq(PatchIds)]
  /\ saving \in [Clients -> Contexts]
  /\ tx \in [Clients -> 0..MaxTx]
  /\ hasTxc \in [Clients -> BOOLEAN]

ControlTypes ==
  /\ pc \in [Clients -> {"outside", "fn", "save", "commit", "defer"}]
  /\ back \in [Clients -> {"outside", "fn"}]
  /\ ret \in [Clients -> {"none", "nil", "unknown", "err", "panic"}]
  /\ nextPatch \in 1..MaxPatch + 1
  /\ nextTx \in 1..MaxTx + 1

DatabaseTypes ==
  /\ state \in [Txs -> {"none", "active", "committed", "rolledback"}]
  /\ work \in [Txs -> Seq(PatchIds)]
  /\ table \in Seq(Entry)

HistoryTypes ==
  /\ told \in [Txs -> {"none", "nil", "unknown", "err", "panic"}]
  /\ drained \in [Txs -> Seq(PatchIds)]
  /\ failed \subseteq Txs
  /\ lost \subseteq PatchIds
  /\ copied \subseteq PatchIds

TypeOK == ContextTypes /\ ControlTypes /\ DatabaseTypes /\ HistoryTypes

\* Where a patch is: pending in a context, queued by a SaveChanges, written in a
\* transaction, written without one, or lost.
At(p, patches) == {i \in DOMAIN patches : patches[i] = p}
Alone == {i \in DOMAIN table : table[i].tx = 0}

Places(p) ==
  UNION (  {{<<x, c, i>> : i \in At(p, buffer[c][x])} : c \in Clients, x \in Contexts}
         \cup {{<<"queue", c, i>> : i \in At(p, queue[c])} : c \in Clients}
         \cup {{<<"work", t, i>> : i \in At(p, work[t])} : t \in Txs}
         \cup {{<<"table", 0, i>> : i \in {j \in Alone : table[j].patch = p}}}
         \cup {{<<"lost", 0, 0>> : q \in {p} \cap lost}})

\* A patch is pending, being saved, executed or lost: exactly one of these, and
\* in one place, so that no sequence of calls, failures and panics executes it
\* twice, and none makes it disappear without an error.  Only the patches that
\* UseTx copied while they were pending are exempt: each of the two contexts has
\* its own (db_ctx.go:92-93, 195-196, 212-228).
Accounted == \A p \in (1..nextPatch - 1) \ copied : Cardinality(Places(p)) = 1

\* Of these rows, those of t are those of the patches, in their order and in
\* one piece.
Holds(rows, t, patches) ==
  \E k \in 0..Len(rows) - Len(patches) :
    /\ \A i \in DOMAIN rows : rows[i].tx = t <=> i \in k + 1..k + Len(patches)
    /\ \A j \in DOMAIN patches : rows[k + j].patch = patches[j]

\* When TxScope returned nil and no SaveChanges in it failed, the database has
\* every patch saved in the transaction, once and in the order they were saved,
\* and nothing of another session in between.
NilMeansSaved ==
  \A t \in Txs : told[t] = "nil" /\ t \notin failed => Holds(table, t, drained[t])

\* When TxScope returned an error, other than for a Commit whose answer was
\* lost, or was left by a panic, the database has nothing of the transaction
\* (tx_scope.go:14-26).
NotNilMeansNothing ==
  \A i \in DOMAIN table :
    table[i].tx # 0 => told[table[i].tx] \notin {"err", "panic"}

\* Outside TxScope no transaction of the client is left open: "unused TxScope
\* leaks a db connection" (tx_scope_test.go:94) is the only way to leak one.
NoOpenTxOutside ==
  \A c \in Clients : pc[c] = "outside" /\ tx[c] # 0 => state[tx[c]] # "active"

\* Patches of one context reach the database in the order they were added,
\* also when a part of them is lost to a failed SaveChanges on the way.
PatchOrder ==
  \A i, j \in DOMAIN table :
    i < j /\ table[i].client = table[j].client /\ table[i].tx = table[j].tx
      => table[i].patch < table[j].patch

\* A finished transaction stays as it ended, whatever the deferred Rollback or
\* a DBContext that still refers to it does: "tx.Rollback() has no effect for
\* already commited tx" (tx_scope.go:19) and "txc returns an error
\* sql.ErrTxDone after committed" (example_test.go).
FinishedIsFinal ==
  [][\A t \in Txs : state[t] \in {"committed", "rolledback"}
       => state'[t] = state[t] /\ work'[t] = work[t]]_vars

\* "it automatically commit/rollback given transaction" (tx_scope_test.go):
\* every transaction ends once fn does, and TxScope returns.
TxEnds == \A t \in Txs : state[t] = "active" ~> told[t] # "none"
=============================================================================
