----------------------------- MODULE MCEntities -----------------------------
(***************************************************************************)
(* A blog with posts, a table of two key columns, one with nothing but a   *)
(* key, one without a key, and one with a field that is not exported.      *)
(***************************************************************************)
EXTENDS Entities

CONSTANTS zero, x

Field(name, type, tag) == [name |-> name, type |-> type, tag |-> tag]
Plain(name) == Field(name, [k |-> "ident", name |-> "int"], <<>>)
Pk == "primary_key" :> [name |-> "", omitempty |-> FALSE]
PkField(name) == Field(name, [k |-> "ident", name |-> "int"], Pk)
Struct(fs) == [file |-> "blog.go", type |-> [k |-> "struct", fields |-> fs]]
Star(n) == [k |-> "star", of |-> [k |-> "ident", name |-> n]]
T(n) == <<"blog", n>>

MCDecls ==
  T("Blog") :> Struct(<<PkField("ID"), Field("Name", [k |-> "ident", name |-> "string"], "column" :> [name |-> "", omitempty |-> TRUE]),
     Field("Posts", [k |-> "array", of |-> Star("Post")], "foreign_key" :> << <<"id", "blog_id">> >>)>>) @@
  T("Post") :> Struct(<<PkField("ID"), Plain("BlogID"), Field("Blog", Star("Blog"), "foreign_key" :> << <<"blog_id", "id">> >>)>>) @@
  T("Seat") :> Struct(<<PkField("Row"), PkField("No"), Plain("Name"), Plain("Price")>>) @@
  T("Mark") :> Struct(<<PkField("ID")>>) @@
  T("Log") :> Struct(<<Plain("Name")>>) @@
  T("Secret") :> Struct(<<PkField("ID"), Plain("cache")>>)

MCImports == << "blog", "blog.go" >> :> {}
MCPkgName == "blog" :> "blog"
MCSnake == "ID" :> "id" @@ "Name" :> "name" @@ "Posts" :> "posts" @@ "BlogID" :> "blog_id" @@ "Blog" :> "blog"
  @@ "Row" :> "row" @@ "Price" :> "price" @@ "No" :> "no" @@ "cache" :> "cache" @@ "Post" :> "post" @@ "Seat" :> "seat"
  @@ "Mark" :> "mark" @@ "Log" :> "log" @@ "Secret" :> "secret"

MCTables == {"blog", "post", "seat", "mark", "log", "secret"}
MCColumns == {"id", "name", "blog_id", "row", "no", "price", "cache"}
MCGoroutines == {"g", "h"}

\* Two goroutines that register; one that uses what it registered.
MCBoth == "g" :> <<T("Post"), T("Seat")>> @@ "h" :> <<T("Blog"), T("Post")>>
MCBlog == "g" :> <<T("Post"), T("Blog")>> @@ "h" :> <<>>
MCOthers == "g" :> <<>> @@ "h" :> <<T("Blog"), T("Seat"), T("Mark"), T("Log"), T("Secret")>>
MCToRegister == {MCBoth, MCBlog, MCOthers}
MCMaxOps == MCBoth :> 0 @@ MCBlog :> 4 @@ MCOthers :> 3

MCTypeOf == "b" :> T("Blog") @@ "p" :> T("Post") @@ "q" :> T("Post") @@ "s" :> T("Seat")
  @@ "m" :> T("Mark") @@ "l" :> T("Log") @@ "c" :> T("Secret")

Row3(t, cells) == [table |-> t, cells |-> [c \in Columns |-> IF c \in DOMAIN cells THEN cells[c] ELSE Null]]
MCDatabases ==
  {<<Row3("blog", "id" :> x @@ "name" :> x), Row3("seat", "row" :> x @@ "no" :> x @@ "name" :> x),
     Row3("seat", "row" :> x @@ "no" :> zero @@ "name" :> x)>>}
=============================================================================
