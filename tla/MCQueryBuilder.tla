-------------------------- MODULE MCQueryBuilder ---------------------------
(* Include called in every order on up to six builders; every kind of       *)
(* condition on columns that may be NULL, also with NULL as an argument;    *)
(* and paging and order together, on both dialects.                         *)
EXTENDS QueryBuilder

CONSTANTS l1, l2, l3

MCLoaders == {l1, l2, l3}

(* A post's deletion time is a *time.Time, its note a sql.NullString; its   *)
(* order is never NULL.                                                     *)
MCRows == << [deleted |-> Null, note |-> 1, order |-> 2],
             [deleted |-> 1, note |-> Null, order |-> 1],
             [deleted |-> 2, note |-> 2, order |-> 2] >>

Conds(col, ops, args) ==
  {[col |-> col, op |-> op, arg |-> arg] : op \in ops, arg \in args}

MCConds ==
  Conds("deleted", {"Eq", "NotEq"}, {1, Null}) \cup
  Conds("deleted", {"In", "NotIn"}, {{}, {1}, {1, Null}}) \cup
  Conds("deleted", {"Lt", "LtOrEq", "Gt", "GtOrEq"}, {1, Null}) \cup
  Conds("deleted", {"Between", "NotBetween"}, {<<1, 1>>, <<Null, 1>>, <<2, Null>>}) \cup
  Conds("note", {"NotEq", "Lt", "GtOrEq"}, {NoValue}) \cup
  Conds("note", {"Like", "NotLike"}, {{2}, NoValue}) \cup
  Conds("order", {"GtOrEq"}, {2})

Keys == {[col |-> "deleted", desc |-> TRUE], [col |-> "order", desc |-> FALSE]}

Calls == {"Count", "Query", "QueryRow"}

Undeleted == Conds("deleted", {"Eq"}, {Null})

MCPlans ==
  { [most |-> 6, includes |-> {<<l1>>, <<l2>>, <<l1, l2, l3>>},
     conds |-> {{}}, orders |-> {}, limits |-> {}, offsets |-> {}, calls |-> {},
     dialect |-> "sqlite3", cached |-> FALSE],
    [most |-> 3, includes |-> {}, conds |-> {{c} : c \in MCConds},
     orders |-> Keys, limits |-> {0, 2}, offsets |-> {1}, calls |-> Calls,
     dialect |-> "postgres", cached |-> FALSE] } \cup
  { [most |-> 4, includes |-> {}, conds |-> {Conds("deleted", {"NotEq"}, {Null, 1}), Undeleted},
     orders |-> Keys, limits |-> 0..1, offsets |-> 0..2, calls |-> Calls,
     dialect |-> d, cached |-> d = "postgres"] : d \in Dialects }
=============================================================================
