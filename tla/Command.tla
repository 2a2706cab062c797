------------------------------- MODULE Command -------------------------------
(***************************************************************************)
(* The command goen (cmd/goen/main.go) with the generator's walk over the  *)
(* source package (generator/generator.go), run again and again on the     *)
(* same directories.  Calls to the file system can fail, and the process   *)
(* can be killed at any point.                                             *)
(*                                                                         *)
(* An output is Stdout or a [dir, name].  What a file holds is its text:   *)
(* "none", "stub", the line that keeps go build away, "broken", without a  *)
(* package clause, "cut", cut short behind it, or "code", what the         *)
(* generator made of one package.                                          *)
(***************************************************************************)
EXTENDS Generator

CONSTANTS
  Outputs,     \* the files a run may write
  Arguments,   \* what a run may be given: [src, out, p]; no -p is ""
  OtherPkgs,   \* [name, test]: the packages of the other files of a directory
  BaseName,    \* filepath.Base of each directory
  NameOrder,   \* the order of the entities' names
  MaxRuns,     \* bound: runs
  MaxFaults    \* bound: failing calls and kills

Stdout == [dir |-> "", name |-> "-"]

\* The entities of one directory have names of their own, which have an order.
ASSUME CommandAssumption ==
  /\ MaxRuns \in Nat /\ MaxFaults \in Nat /\ Stdout \notin Outputs
  /\ \A o \in Outputs : o.dir \in DOMAIN BaseName /\ o.dir \in DOMAIN OtherPkgs /\ BaseName[o.dir] # ""
  /\ \A a \in Arguments : a.out \in Outputs \cup {Stdout}
  /\ \A t, u \in {d \in DOMAIN Decls : walked[d].entity} :
       /\ t = <<t[1], t[2]>> /\ NameOrder[t[2]] \in Int
       /\ NameOrder[t[2]] = NameOrder[u[2]] => t[2] = u[2]

\* Imported under no name of their own by every generated file.
RequiredImports == {"context", "database/sql", "github.com/Masterminds/squirrel", "github.com/kamichidu/goen"}

VARIABLES
  file,     \* what each output holds
  args,     \* the arguments of this run
  pc,       \* "idle" between runs, "create", "stub", "check", "parse", "walk", "write"
  exit,     \* how the last run ended: 0, 1, 128, 2 for a panic, 9 for a kill
  pkgName,  \* OutPkgName
  imports, tables,   \* pkgData; of a table, the struct it was made of
  todo,     \* the objects of the package not yet looked at
  runs, faults,
  failed,   \* history: a call of this run failed, or it was killed
  made      \* history: the arguments and the code of the runs that ended with 0

vars == <<file, args, pc, exit, pkgName, imports, tables, todo, runs, faults, failed, made>>
pkgData == <<pkgName, imports, tables, todo>>
history == <<runs, faults, failed, made>>

\* What is said of a source directory and a file to write, whatever is in it.
Beside == args.out.dir = args.src

Init ==
  /\ file = [o \in Outputs |-> [text |-> "none"]]
  /\ args = (CHOOSE a \in Arguments : TRUE) /\ pc = "idle" /\ exit = 0
  /\ pkgName = "" /\ imports = {} /\ tables = <<>> /\ todo = {}
  /\ runs = 0 /\ faults = 0 /\ failed = FALSE /\ made = {}

Exit(status) ==
  /\ pc' = "idle" /\ exit' = status
  /\ pkgName' = "" /\ imports' = {} /\ tables' = <<>> /\ todo' = {}

Holds(text) == file' = [file EXCEPT ![args.out] = [text |-> text]]

\* A call of the system fails, or the process is killed.
Fault == faults < MaxFaults /\ faults' = faults + 1 /\ failed' = TRUE
            /\ UNCHANGED <<args, runs, made>>

Start(a) ==
  /\ pc = "idle" /\ runs < MaxRuns
  /\ args' = a /\ runs' = runs + 1 /\ failed' = FALSE
  /\ pkgName' = a.p
  /\ pc' = IF a.out = Stdout THEN "parse" ELSE "create"
  /\ UNCHANGED <<file, exit, imports, tables, todo, faults, made>>

\* os.MkdirAll or os.Create.
CreateFails == pc = "create" /\ Fault /\ Exit(1) /\ UNCHANGED file

\* An old file is truncated.
Create ==
  /\ pc = "create"
  /\ Holds("broken")
  /\ pc' = "stub"
  /\ UNCHANGED <<args, exit, pkgData, history>>

\* Mutant of WriteStub: the file stays empty until the code is there.
WriteNoStub == pc = "stub" /\ pc' = "check" /\ UNCHANGED <<file, args, exit, pkgData, history>>

\* The stub, and the way back to the beginning of the file.
WriteStub ==
  /\ pc = "stub"
  /\ Holds("stub")
  /\ pc' = "check"
  /\ UNCHANGED <<args, exit, pkgData, history>>

WriteStubFails ==
  /\ pc = "stub" /\ Fault
  /\ \E left \in {"broken", "stub"} : Holds(left)
  /\ Exit(1)

-----------------------------------------------------------------------------
(* asts.AssumeImport: which package is in a directory *)

Written(dir, texts) == {o \in Outputs : o.dir = dir /\ file[o].text \in texts}

\* The packages go/build sees: neither stubs nor tests count.
BuildPkgs(dir) ==
  {PkgName[t[1]] : t \in {d \in DOMAIN Decls : d[1] = dir}} \cup {p.name : p \in {q \in OtherPkgs[dir] : ~q.test}}
  \cup {file[o].package : o \in Written(dir, {"code", "cut"})}

AssumeImportPanics(dir) == Written(dir, {"broken"}) # {} \/ \E p, q \in BuildPkgs(dir) : p # q
AssumedName(dir) ==
  IF BuildPkgs(dir) = {} THEN BaseName[dir] ELSE CHOOSE p \in BuildPkgs(dir) : TRUE

CheckPanics ==
  /\ pc = "check"
  /\ ~Beside /\ AssumeImportPanics(args.out.dir)
  /\ Exit(2)
  /\ UNCHANGED <<file, args, history>>

\* -p says another package than the directory of the output.
Conflict ==
  /\ pc = "check"
  /\ ~Beside /\ ~AssumeImportPanics(args.out.dir)
  /\ args.p \notin {"", AssumedName(args.out.dir)}
  /\ Exit(128)
  /\ UNCHANGED <<file, args, history>>

CheckPackage ==
  /\ pc = "check"
  /\ ~Beside => /\ ~AssumeImportPanics(args.out.dir)
                /\ args.p \in {"", AssumedName(args.out.dir)}
  /\ pkgName' = IF Beside THEN args.p ELSE AssumedName(args.out.dir)
  /\ pc' = "parse"
  /\ UNCHANGED <<file, args, exit, imports, tables, todo, history>>

-----------------------------------------------------------------------------
(* ParseDir *)

\* excludeGlobs: every file with the base name of the output.
Excluded(name) == name = args.out.name

Objects == {t \in DOMAIN Decls : t[1] = args.src /\ ~Excluded(Decls[t].file)}

\* The package clauses of the files that are parsed, a stub's being "_".
ParsedPkgs ==
  {PkgName[t[1]] : t \in Objects}
  \cup {p.name : p \in {q \in OtherPkgs[args.src] : q.test}}
  \cup {file[o].package : o \in {x \in Written(args.src, {"code"}) : ~Excluded(x.name)}}
  \cup {"_" : o \in {x \in Written(args.src, {"stub"}) : ~Excluded(x.name)}}

ParsesNot == \E o \in Written(args.src, {"broken", "cut"}) : ~Excluded(o.name)
Several == \E p, q \in ParsedPkgs : p # q

ParseFails ==
  /\ pc = "parse"
  /\ \/ ParsesNot
     \/ Several /\ ~AssumeImportPanics(args.src) /\ AssumedName(args.src) \notin ParsedPkgs
  /\ Exit(1)
  /\ UNCHANGED <<file, args, history>>

\* AssumeImport is asked for the source package, too: to tell several apart,
\* and to import it from another one.
SrcPanics == (Several \/ pkgName # "") /\ AssumeImportPanics(args.src)

\* A nil package, if no file was left; or AssumeImport panics.
ParsePanics ==
  /\ pc = "parse" /\ ~ParsesNot
  /\ ParsedPkgs = {} \/ SrcPanics
  /\ Exit(2)
  /\ UNCHANGED <<file, args, history>>

\* ParseDir and walkPkg, up to the loop over the files.
Parse ==
  /\ pc = "parse" /\ ~ParsesNot
  /\ ~SrcPanics
  /\ \E p \in ParsedPkgs :
       /\ Several => p = AssumedName(args.src)
       /\ pkgName' = IF pkgName = "" THEN p ELSE pkgName
       /\ todo' = {t \in Objects : PkgName[t[1]] = p}
  /\ imports' = {[name |-> "", path |-> i] : i \in RequiredImports}
                  \cup (IF pkgName = "" THEN {} ELSE {[name |-> ".", path |-> args.src]})
  /\ pc' = "walk"
  /\ UNCHANGED <<file, args, exit, tables, history>>

WalkPanics ==
  /\ pc = "walk"
  /\ {t \in todo : walked[t].panics} # {}
  /\ Exit(2)
  /\ UNCHANGED <<file, args, history>>

\* addImportAs: the first import of a path stays.
AddImports(paths) ==
  imports \cup {[name |-> SafeName[i], path |-> i] :
                  i \in {j \in ToSet(paths) : \A other \in imports : other.path # j}}

\* Mutant of Visit: an object that is no entity ends the walk over its file.
VisitBreaks(t, look) ==
  /\ ~look.panics
  /\ IF look.entity
     THEN /\ tables' = Append(tables, t) /\ imports' = AddImports(look.imports)
          /\ todo' = todo \ {t}
     ELSE todo' = {o \in todo : Decls[o].file # Decls[t].file} /\ UNCHANGED <<tables, imports>>

\* What is done with an object, given what comes of looking at it.
Visit(t, look) ==
  /\ ~look.panics
  /\ todo' = todo \ {t}
  /\ IF look.entity
     THEN tables' = Append(tables, t) /\ imports' = AddImports(look.imports)
     ELSE UNCHANGED <<tables, imports>>

\* Files and their objects are in maps, and come in any order.
Walk(t) ==
  /\ pc = "walk" /\ t \in todo
  /\ Visit(t, walked[t])
  /\ UNCHANGED <<file, args, pc, exit, pkgName, history>>

\* ts with its elements in the order of their names.
Sorted(ts) ==
  CHOOSE s \in {[i \in DOMAIN ts |-> ts[p[i]]] : p \in Bijection(DOMAIN ts, DOMAIN ts)} :
    \A i, j \in DOMAIN s : i < j => NameOrder[s[i][2]] <= NameOrder[s[j][2]]

\* Mutant of EndWalk: the tables stay in the order of the walk.
EndWalkUnsorted ==
  /\ pc = "walk" /\ todo = {}
  /\ pc' = "write"
  /\ UNCHANGED <<file, args, exit, pkgData, history>>

\* The tables are put in the order of their entities' names.  Generate and the
\* filters only format them, and a filter that fails is passed over.
EndWalk ==
  /\ pc = "walk" /\ todo = {}
  /\ tables' = Sorted(tables)
  /\ pc' = "write"
  /\ UNCHANGED <<file, args, exit, pkgName, imports, todo, history>>

-----------------------------------------------------------------------------

Code == [text |-> "code", package |-> pkgName, imports |-> imports, tables |-> tables]

Write ==
  /\ pc = "write"
  /\ file' = IF args.out = Stdout THEN file ELSE [file EXCEPT ![args.out] = Code]
  /\ made' = made \cup {[args |-> args, code |-> Code]}
  /\ Exit(0)
  /\ UNCHANGED <<args, runs, faults, failed>>

WriteFails ==
  /\ pc = "write" /\ Fault
  /\ \E left \in {[text |-> "stub"], [text |-> "broken"], [text |-> "cut", package |-> pkgName]} :
       file' = IF args.out = Stdout THEN file ELSE [file EXCEPT ![args.out] = left]
  /\ Exit(1)

Killed == pc # "idle" /\ Fault /\ Exit(9) /\ UNCHANGED file

Next ==
  \/ \E a \in Arguments : Start(a)
  \/ CreateFails \/ Create \/ WriteStub \/ WriteStubFails
  \/ CheckPanics \/ Conflict \/ CheckPackage
  \/ ParseFails \/ ParsePanics \/ Parse
  \/ \E t \in todo : Walk(t)
  \/ WalkPanics \/ EndWalk \/ Write \/ WriteFails \/ Killed

Spec == Init /\ [][Next]_vars

-----------------------------------------------------------------------------
(* Properties *)

\* The entities of the source directory, but for those in a file that has the
\* base name of the output.
Entities(a) == {t \in DOMAIN Decls : t[1] = a.src /\ walked[t].entity /\ Decls[t].file # a.out.name}

\* "goen finds structs that have this struct tag" (README.md:70): once, in an
\* order that is not that of the walk ("keep order for idempotency",
\* generator.go:155), and all of them that are exported (generator.go:223-229)
\* and not in a file named like the output (main.go:149).
EveryEntityOnce ==
  \A m \in made :
    /\ ToSet(m.code.tables) = Entities(m.args)
    /\ \A i, j \in DOMAIN m.code.tables :
         i < j => NameOrder[m.code.tables[i][2]] < NameOrder[m.code.tables[j][2]]

\* Two runs with the same arguments make the same code, whatever failed or was
\* killed or written between them, and in whatever order the maps came.  (Imports
\* are a set here: generator.go:191 appends them in the order of the maps, and
\* only gofmt or goimports, which can be switched off, sort them.)
RerunsAgree == \A m, n \in made : m.args = n.args => m.code = n.code

\* A run in which no call failed exits with an error only for what it was given,
\* or for what earlier runs left in other files than its own output: never for
\* the remains of a run that failed or was killed while it wrote the same file
\* ("avoiding invalid go file while generating this file", main.go:137).
OwnOutputIsHarmless ==
  LET others == {o \in Outputs \ {args.out} : o.dir \in {args.src, args.out.dir}}
  IN pc = "idle" /\ exit # 0 /\ ~failed =>
       \/ \E t \in Objects : walked[t].panics
       \/ Objects = {}
       \/ exit = 128 /\ ~Beside /\ args.p # ""
       \/ \E o \in others : file[o].text \in {"broken", "cut"}
       \/ \E o \in others : file[o].text = "code" /\ file[o].package # PkgName[o.dir]
=============================================================================
