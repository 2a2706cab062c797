------------------------------ MODULE MCCommand ------------------------------
(***************************************************************************)
(* Source packages for the generator: "blog" and its tests; and, each in a *)
(* package of its own, what the generator does not expect.                 *)
(***************************************************************************)
EXTENDS Generate

Id(n) == [k |-> "ident", name |-> n]
Sel(p, n) == [k |-> "sel", pkg |-> p, name |-> n]
Star(t) == [k |-> "star", of |-> t]
List(t) == [k |-> "array", of |-> t]
Fixed(t) == [k |-> "fixed", of |-> t]

\* The types and the tags of the fields below.
Types ==
  "int" :> Id("int") @@ "string" :> Id("string") @@ "error" :> Id("error") @@ "byte" :> Id("byte")
  @@ "hidden" :> Id("hidden") @@ "State" :> Id("State") @@ "Timestamp" :> Id("Timestamp")
  @@ "Blog" :> Id("Blog") @@ "*Blog" :> Star(Id("Blog")) @@ "[]int" :> List(Id("int")) @@ "[]*Post" :> List(Star(Id("Post")))
  @@ "**Blog" :> Star(Star(Id("Blog"))) @@ "[]*hidden" :> List(Star(Id("hidden")))
  @@ "Node" :> Sel("tree", "Node") @@ "*Node in tree" :> Star(Id("Node"))
  @@ "[]Post" :> List(Id("Post")) @@ "[]Blog" :> List(Id("Blog")) @@ "Post" :> Id("Post") @@ "[1]Post" :> Fixed(Id("Post")) @@ "[]Note" :> List(Id("Note"))
  @@ "UUID" :> Sel("uuid", "UUID") @@ "*UUID" :> Star(Sel("uuid", "UUID")) @@ "[]UUID" :> List(Sel("uuid", "UUID"))
  @@ "other UUID" :> Sel("guuid", "UUID") @@ "Time" :> Sel("time", "Time") @@ "*Time" :> Star(Sel("time", "Time"))
  @@ "Source" :> Sel("time", "Source") @@ "Null" :> Sel("sql", "NullString") @@ "[]Null" :> List(Sel("sql", "NullString"))
  @@ "*Base" :> Star(Sel("base", "Base")) @@ "[]Base" :> List(Sel("base", "Base"))
  @@ "interface" :> [k |-> "interface"] @@ "[16]byte" :> Fixed(Id("byte"))

Column(name, omit) == [name |-> name, omitempty |-> omit]
Pk == "goen" :> "" @@ "primary_key" :> Column("", FALSE)
Fk(c, r) == "foreign_key" :> << <<c, r>> >>
Tags ==
  "" :> <<>> @@ "pk" :> Pk @@ "pk blogs" :> (Pk @@ "table" :> "blogs") @@ "pk view" :> (Pk @@ "view" :> "") @@ "ignore" :> ("ignore" :> "")
  @@ "ord" :> ("column" :> Column("ord", TRUE)) @@ "blog" :> ("column" :> Column("blog", FALSE))
  @@ "id:blog_id" :> Fk("id", "blog_id") @@ "blog_id:id" :> Fk("blog_id", "id") @@ "id:blog" :> Fk("id", "blog")
  @@ "blog:id" :> Fk("blog", "id") @@ "id:id" :> Fk("id", "id")
  @@ "id:id twice" :> ("foreign_key" :> << <<"id", "id">>, <<"name", "id">> >>)

IdField == <<"ID", "int", "pk">>

\* The structs, with their fields, and the other types; each with its file.
StructRows ==
  <<"blog", "Blog">> :> <<"blog.go",
      <<"ID", "UUID", "pk blogs">>, <<"Name", "string", "">>, <<"cache", "int", "">>, <<"Raw", "[]int", "">>,
      <<"Posts", "[]*Post", "id:blog_id">>, <<"Skipped", "error", "ignore">> >> @@
  <<"blog", "Post">> :> <<"post.go",
      <<"", "Timestamp", "">>, IdField, <<"BlogID", "*UUID", "">>, <<"Order", "string", "ord">>,
      <<"DeletedAt", "*Time", "">>, <<"Blog", "*Blog", "blog_id:id">> >> @@
  <<"blog", "Timestamp">> :> <<"post.go", <<"CreatedAt", "Time", "">> >> @@
  <<"blog", "hidden">> :> <<"post.go", IdField, <<"Name", "error", "">> >> @@
  \* A type of database/sql, which every generated file imports by its own name.
  <<"null", "Blog">> :> <<"blog.go", IdField, <<"Name", "Null", "">> >> @@
  \* The same below a list; and a list of another package's type.
  <<"nulls", "Blog">> :> <<"blog.go", IdField, <<"Name", "[]Null", "">> >> @@
  <<"ids", "Blog">> :> <<"blog.go", IdField, <<"Raw", "[]UUID", "">> >> @@
  \* Paths that differ in a dash and a dot; a type that is not exported.
  <<"safe", "Blog">> :> <<"blog.go", IdField, <<"Raw", "UUID", "">>, <<"Name", "other UUID", "">> >> @@
  <<"small", "Blog">> :> <<"blog.go", IdField, <<"Name", "hidden", "">> >> @@
  \* An embedded struct of another package, with a type of that package.
  <<"far", "Blog">> :> <<"blog.go", IdField, <<"", "*Base", "">> >> @@
  <<"base", "Base">> :> <<"base.go", <<"State", "State", "">>, <<"CreatedAt", "Time", "">> >> @@
  \* A relation field with the column name of a later one; a field that is not
  \* exported with the name of one that is; an array; no entity.
  <<"keys", "Blog">> :> <<"blog.go", IdField, <<"Posts", "[]Post", "id:blog">>, <<"Fixed", "[1]Post", "id:id">>,
      <<"Notes", "[]Note", "id:blog_id">>, <<"Good", "[]Post", "id:blog_id">> >> @@
  <<"keys", "Post">> :> <<"blog.go",
      IdField, <<"Blog", "*Blog", "blog:id">>, <<"BlogKey", "int", "blog">>, <<"BlogID", "int", "">> >> @@
  <<"keys", "Note">> :> <<"blog.go", <<"BlogID", "int", "">> >> @@
  \* Relations to values, to a pointer, to a struct that is not exported or another
  \* package's; to one row that two columns refer to; columns with the
  \* names of a method that a view does not have, of one that it has, of a loader
  \* and of an embedded field.
  <<"list", "Blog">> :> <<"blog.go", IdField, <<"Posts", "[]Blog", "id:id">> >> @@
  <<"value", "Blog">> :> <<"blog.go", IdField, <<"Name", "Post", "id:id">> >> @@
  <<"value", "Post">> :> <<"blog.go", IdField>> @@
  <<"deep", "Blog">> :> <<"blog.go", IdField, <<"Blog", "**Blog", "id:id">> >> @@
  <<"inner", "Blog">> :> <<"blog.go", IdField, <<"Posts", "[]*hidden", "id:id">> >> @@
  <<"inner", "hidden">> :> <<"blog.go", <<"ID", "int", "">> >> @@
  <<"forest", "Blog">> :> <<"blog.go", <<"", "Node", "">> >> @@
  <<"tree", "Node">> :> <<"tree.go", IdField, <<"Node", "*Node in tree", "id:id">> >> @@
  <<"key", "Blog">> :> <<"blog.go", IdField, <<"Name", "int", "">>, <<"Blog", "*Blog", "id:id twice">> >> @@
  <<"view", "Blog">> :> <<"blog.go", <<"ID", "int", "pk view">>, <<"Insert", "int", "">>, <<"Blog", "*Blog", "id:id">> >> @@
  <<"method", "Blog">> :> <<"blog.go", IdField, <<"Insert", "int", "">> >> @@
  <<"loader", "Blog">> :> <<"blog.go", IdField, <<"IncludeBlog", "int", "">>, <<"Blog", "*Blog", "id:id">> >> @@
  <<"twice", "Blog">> :> <<"blog.go", IdField, <<"CreatedAt", "Time", "">>, <<"", "Timestamp", "">> >> @@
  <<"twice", "Timestamp">> :> <<"blog.go", <<"CreatedAt", "Time", "">> >> @@
  \* Structs that stop the generator: an embedded interface, outside of any
  \* entity; a byte; a relation to another package.
  <<"iface", "Blog">> :> <<"blog.go", IdField>> @@
  <<"iface", "Reader">> :> <<"blog.go", <<"", "Source", "">> >> @@
  <<"byte", "Blog">> :> <<"blog.go", IdField, <<"Raw", "byte", "">> >> @@
  <<"cross", "Blog">> :> <<"blog.go", IdField, <<"Posts", "[]Base", "id:id">> >> @@
  \* External types.
  <<"time", "Time">> :> <<"time.go", <<"wall", "int", "">> >> @@
  <<"database/sql", "NullString">> :> <<"sql.go", <<"String", "string", "">> >>
NamedRows ==
  <<"small", "hidden">> :> <<"blog.go", "string">> @@ <<"base", "State">> :> <<"base.go", "int">> @@
  <<"time", "Source">> :> <<"time.go", "interface">> @@
  <<"x/go.uuid", "UUID">> :> <<"uuid.go", "[16]byte">> @@ <<"x/go-uuid", "UUID">> :> <<"uuid.go", "[16]byte">>

FieldOfRow(row, types, tags) == [name |-> row[1], type |-> types[row[2]], tag |-> tags[row[3]]]
DeclsOf(structs, named, types, tags) ==
  [t \in DOMAIN structs |->
     [file |-> structs[t][1],
      type |-> [k |-> "struct", fields |-> [i \in 1..Len(structs[t]) - 1 |-> FieldOfRow(structs[t][i + 1], types, tags)]]]]
  @@ [t \in DOMAIN named |-> [file |-> named[t][1], type |-> types[named[t][2]]]]
MCDecls == DeclsOf(StructRows, NamedRows, Types, Tags)

Dirs == {"blog", "null", "nulls", "ids", "safe", "small", "far", "base", "keys", "iface", "byte", "cross", "gen",
         "list", "value", "deep", "forest", "key", "view", "method", "loader", "twice", "inner", "tree",
         "time", "database/sql", "x/go.uuid", "x/go-uuid"}
Files == {"blog.go", "post.go", "base.go", "time.go", "sql.go", "uuid.go", "tree.go"}
MCImports ==
  [f \in Dirs \X Files |->
     {[name |-> "", path |-> "time"], [name |-> "", path |-> "database/sql"], [name |-> "uuid", path |-> "x/go.uuid"],
      [name |-> "guuid", path |-> "x/go-uuid"], [name |-> "", path |-> "base"], [name |-> "", path |-> "tree"]}]

MCPkgName == [d \in Dirs |-> IF d \in {"x/go.uuid", "x/go-uuid"} THEN "uuid"
                             ELSE IF d = "database/sql" THEN "sql" ELSE d]
               @@ [d \in RequiredImports |-> "other"]
MCSafeName == [d \in Dirs |-> IF d \in {"x/go.uuid", "x/go-uuid"} THEN "x_go_uuid" ELSE d]
                @@ ("database/sql" :> "database_sql" @@ "" :> "")
MCBaseName == [d \in Dirs |-> d]
MCOtherPkgs == [d \in Dirs |-> IF d = "blog" THEN {[name |-> "blog_test", test |-> TRUE]} ELSE {}]
MCSnake == "ID" :> "id" @@ "Name" :> "name" @@ "cache" :> "cache" @@ "Raw" :> "raw" @@ "Posts" :> "posts"
  @@ "BlogID" :> "blog_id" @@ "Order" :> "order" @@ "DeletedAt" :> "deleted_at" @@ "Blog" :> "blog"
  @@ "CreatedAt" :> "created_at" @@ "State" :> "state" @@ "Fixed" :> "fixed" @@ "Notes" :> "notes"
  @@ "Good" :> "good" @@ "BlogKey" :> "blog_key" @@ "Post" :> "post" @@ "Note" :> "note"
  @@ "Timestamp" :> "timestamp" @@ "Skipped" :> "skipped"
  @@ "Insert" :> "insert" @@ "Node" :> "node" @@ "IncludeBlog" :> "include_blog"
MCUnexported == {"cache", "hidden", "wall"}
MCNameOrder == "Blog" :> 1 @@ "Note" :> 2 @@ "Post" :> 3 @@ "Timestamp" :> 4 @@ "Node" :> 5

Output(d, n) == [dir |-> d, name |-> n]
MCOutputs == {Output("blog", "goen.go"), Output("small", "goen.go"), Output("gen", "goen.go"), Output("gen", "blog.go")}
MCArgument(src, out, p) == [src |-> src, out |-> out, p |-> p]
MCArguments ==
  {MCArgument("blog", o, p) : o \in {Output("blog", "goen.go"), Output("gen", "goen.go"), Output("gen", "blog.go"), Stdout},
                              p \in {"", "gen"}}
  \cup {MCArgument("blog", Output("gen", "goen.go"), "blog")}
  \cup {MCArgument("small", o, "") : o \in {Output("small", "goen.go"), Output("gen", "goen.go")}}
  \cup {MCArgument("inner", Stdout, p) : p \in {"", "gen"}}
  \cup {MCArgument(s, Stdout, "") : s \in {"null", "nulls", "ids", "safe", "far", "keys", "iface", "byte", "cross"}
                                          \cup {"list", "value", "deep", "forest", "key", "view", "method", "loader", "twice"}}
=============================================================================
