--------------------------------- MODULE Cli ---------------------------------
(***************************************************************************)
(* cmd/qdeno and cmd/deno-openssl: what their command lines mean, and the  *)
(* files that runs of them leave behind, when runs meet in one place, fail *)
(* halfway or are killed.                                                  *)
(*                                                                         *)
(* Both tools parse alike.  A path is a place, the directory of a project  *)
(* or the prefix given with --out, and a file's name there.                *)
(***************************************************************************)
EXTENDS Integers, Sequences, FiniteSets

CONSTANTS Process,     \* runs of the tools
          Text,        \* texts of arguments and names of flags
          Line,        \* command lines that are run
          Parsed,      \* arguments that Parse is compared on
          ProjectName, \* the texts scaffold takes for a name
          GoodBits,    \* the texts that name a modulus length Web Crypto has
          GoodCurve,   \* and those that name a curve
          PathOf,      \* the paths some texts name
          Present,     \* paths of files from before
          Nobody

Word(text) == [form |-> "word", text |-> text]                           \* text
Flag(name) == [form |-> "flag", name |-> name]                           \* --name
Assign(name, text) == [form |-> "assign", name |-> name, text |-> text]  \* --name=text

Token ==
  {Word(text) : text \in Text} \cup {Flag(name) : name \in Text}
    \cup {Assign(name, text) : name \in Text, text \in Text}

Tool == {"qdeno", "deno-openssl"}

PemFile  == {"crt.pem", "key.pem", "pub.pem"}
FileName == {"deno.json", "README.md", "main.ts", "service.proto"} \cup PemFile

ASSUME ParsedAssumption == Parsed \subseteq Seq(Token)
ASSUME LineAssumption == Line \subseteq [tool : Tool, argv : Parsed]
ASSUME NobodyAssumption == Nobody \notin Process

VARIABLES run,  \* the runs: where they are and what they are to do
          file, \* the files there are: who opened them last, and what is in them
          dir   \* the directories there are

cliVars == <<run, file, dir>>

Idle ==
  [phase |-> "idle", exit |-> 0, place |-> "", todo |-> <<>>, line |-> Nobody,
   found |-> FALSE, touched |-> FALSE, fault |-> FALSE, alone |-> FALSE]

CliInit ==
  /\ run = [p \in Process |-> Idle]
  /\ file = [path \in Present |-> [by |-> Nobody, holds |-> "whole"]]
  /\ dir = {path.at : path \in Present}

-----------------------------------------------------------------------------
(* Command lines.  The value of a flag is <<text>>, or <<>> for true.      *)

\* The token after i is the value of the flag at i.
Valued(argv, i) == argv[i].form = "flag" /\ i < Len(argv) /\ argv[i + 1].form = "word"

\* Mutant: the value of a flag is not skipped.
AfterFlag(argv, i) == i + 1

\* Where the loop goes on after token i.
After(argv, i) == IF Valued(argv, i) THEN i + 2 ELSE i + 1

FlagValue(argv, i) ==
  IF argv[i].form = "assign" THEN <<argv[i].text>>
  ELSE IF Valued(argv, i) THEN <<argv[i + 1].text>> ELSE <<>>

NothingParsed == [positionals |-> <<>>, flags |-> <<>>]

\* A flag that is set again later keeps the later value.
SetBefore(flags, name, value) ==
  [x \in DOMAIN flags \cup {name} |-> IF x \in DOMAIN flags THEN flags[x] ELSE value]

\* What the loop adds at token i to what it adds behind it.
Added(argv, i, behind) ==
  IF argv[i].form = "word" THEN [behind EXCEPT !.positionals = <<argv[i].text>> \o @]
  ELSE [behind EXCEPT !.flags = SetBefore(@, argv[i].name, FlagValue(argv, i))]

\* parseArgs: parse[i] is what the tokens from i on add.  The first is the command.
Parse(argv) ==
  LET parse[i \in 1 .. Len(argv) + 1] ==
        IF i > Len(argv) THEN NothingParsed ELSE Added(argv, i, parse[After(argv, i)])
  IN  IF argv = <<>> THEN NothingParsed ELSE parse[2]

Command(argv) ==
  IF argv = <<>> THEN "help" ELSE IF argv[1].form = "word" THEN argv[1].text ELSE "--"

Positional(parsed, i) == IF i \in DOMAIN parsed.positionals THEN parsed.positionals[i] ELSE ""

Truthy(parsed, name) == name \in DOMAIN parsed.flags /\ parsed.flags[name] # <<"">>

FlagString(parsed, name, fallback) ==
  IF name \in DOMAIN parsed.flags /\ parsed.flags[name] # <<>> THEN parsed.flags[name][1] ELSE fallback

\* Mutant: any value but the empty string is taken for true.
ForcedTruthy(parsed) == Truthy(parsed, "force")

Forced(parsed) == "force" \in DOMAIN parsed.flags /\ parsed.flags["force"] = <<>>

TemplateFiles(kind) ==
  <<"deno.json", "README.md", "main.ts">> \o IF kind = "grpc" THEN <<"service.proto">> ELSE <<>>

\* importParams and generateKey take the options.
Usable(parsed) ==
  CASE FlagString(parsed, "algorithm", "ec") = "ec"  -> FlagString(parsed, "curve", "P-256") \in GoodCurve
    [] FlagString(parsed, "algorithm", "ec") = "rsa" ->
         Truthy(parsed, "bits") => FlagString(parsed, "bits", "true") \in GoodBits
    [] OTHER -> FlagString(parsed, "algorithm", "ec") = "ed25519"

Exit(code) == [phase |-> "ended", exit |-> code, place |-> "", todo |-> <<>>]

GoOn(phase, place, todo) == [phase |-> phase, exit |-> 0, place |-> place, todo |-> todo]

\* run of qdeno, up to its first await.
PlanQdeno(argv) ==
  LET parsed == Parse(argv)
      kind   == Positional(parsed, 1)
      name   == Positional(parsed, 2)
  IN  CASE Command(argv) = "help" \/ Truthy(parsed, "help") -> Exit(0)
        [] Command(argv) \notin {"help", "new"} /\ ~Truthy(parsed, "help") -> Exit(1)
        [] OTHER ->
             IF kind \notin {"http", "grpc"} \/ name \notin ProjectName THEN Exit(1)
             ELSE GoOn(IF Forced(parsed) THEN "making" ELSE "checking",
                       FlagString(parsed, "dir", name), TemplateFiles(kind))

\* run of deno-openssl and its handlers, likewise.
PlanOpenssl(argv) ==
  LET parsed == Parse(argv)
      Generating(files) == GoOn("generating", FlagString(parsed, "out", ""), files)
  IN  CASE Command(argv) = "help" -> Exit(0)
        [] Command(argv) = "keypair" ->
             IF Usable(parsed) THEN Generating(<<"key.pem", "pub.pem">>) ELSE Exit(1)
        [] Command(argv) = "cert" ->
             IF FlagString(parsed, "algorithm", "ec") \in {"rsa", "ec", "ed25519"}
             THEN Generating(<<"crt.pem", "key.pem", "pub.pem">>) ELSE Exit(1)
        [] Command(argv) = "pem-info" ->
             IF Positional(parsed, 1) = "" THEN Exit(1)
             ELSE GoOn("reading", Positional(parsed, 1), <<>>)
        [] OTHER -> Exit(1)

Plan(line) == IF line.tool = "qdeno" THEN PlanQdeno(line.argv) ELSE PlanOpenssl(line.argv)

-----------------------------------------------------------------------------
(* Runs.  alone, found, touched and fault are only looked at by the        *)
(* properties: whether no other run had its place since this one started,  *)
(* whether the place was there then, whether it made or opened anything,   *)
(* and whether the machine failed it.                                      *)

Live == {p \in Process : run[p].phase \notin {"idle", "ended"}}

Uses(q, place) == run[q].phase # "idle" /\ run[q].place = place

Begun(line) ==
  LET plan == Plan(line)
  IN  [phase |-> plan.phase, exit |-> plan.exit, place |-> plan.place, todo |-> plan.todo, line |-> line,
       found |-> plan.place \in dir, touched |-> FALSE, fault |-> FALSE,
       alone |-> \A q \in Live : ~Uses(q, plan.place)]

Start(p, line) ==
  LET begun == Begun(line)
  IN  /\ run[p].phase = "idle"
      /\ run' = [q \in Process |->
           IF q = p THEN begun
           ELSE IF Uses(q, begun.place) THEN [run[q] EXCEPT !.alone = FALSE] ELSE run[q]]
      /\ UNCHANGED <<file, dir>>

Ended(r, code) == [r EXCEPT !.phase = "ended", !.exit = code]

\* The step of p that it awaits fails, and run reports it.
Failed(p) == run' = [run EXCEPT ![p] = Ended([@ EXCEPT !.fault = TRUE], 1)]

\* exists, to which any failure of the stat is absence.
Check(p) ==
  /\ run[p].phase = "checking"
  /\ \/ run[p].place \in dir /\ run' = [run EXCEPT ![p] = Ended(@, 1)]
     \/ run[p].place \notin dir /\ run' = [run EXCEPT ![p].phase = "making"]
     \/ run' = [run EXCEPT ![p].phase = "making", ![p].fault = TRUE]
  /\ UNCHANGED <<file, dir>>

Make(p) ==
  /\ run[p].phase = "making"
  /\ \/ /\ dir' = dir \cup {run[p].place}
        /\ run' = [run EXCEPT ![p].phase = "opening", ![p].touched = TRUE]
     \/ Failed(p) /\ UNCHANGED dir
  /\ UNCHANGED file

\* The library of cert may not come; keys always do.  Without a prefix they are printed.
Generate(p) ==
  /\ run[p].phase = "generating"
  /\ \/ run[p].place # "" /\ run' = [run EXCEPT ![p].phase = "opening"]
     \/ run[p].place = "" /\ run' = [run EXCEPT ![p] = Ended(@, 0)]
     \/ run[p].line.argv[1] = Word("cert") /\ Failed(p)
  /\ UNCHANGED <<file, dir>>

\* readTextFile and fromPem; of a file that is being written either may come.
Read(p) ==
  LET text == run[p].place
      path == IF text \in DOMAIN PathOf THEN PathOf[text] ELSE [at |-> "", name |-> ""]
      key  == path \in DOMAIN file /\ path.name \in PemFile
  IN  /\ run[p].phase = "reading"
      /\ \/ key /\ file[path].holds # "empty" /\ run' = [run EXCEPT ![p] = Ended(@, 0)]
         \/ ~(key /\ file[path].holds = "whole") /\ run' = [run EXCEPT ![p] = Ended(@, 1)]
      /\ UNCHANGED <<file, dir>>

Current(p) == [at |-> run[p].place, name |-> Head(run[p].todo)]

Holds(path, content) ==
  file' = [other \in DOMAIN file \cup {path} |-> IF other = path THEN content ELSE file[other]]

\* Mutant: the write is not awaited.
OpenUnawaited(p) ==
  /\ run[p].phase = "opening"
  /\ \/ /\ Holds(Current(p), [by |-> p, holds |-> "empty"])
        /\ run' = [run EXCEPT ![p] =
             IF Len(@.todo) = 1 THEN Ended([@ EXCEPT !.touched = TRUE], 0)
             ELSE [@ EXCEPT !.touched = TRUE, !.todo = Tail(@)]]
     \/ Failed(p) /\ UNCHANGED file
  /\ UNCHANGED dir

\* writeTextFile opens the file and empties it.
Open(p) ==
  /\ run[p].phase = "opening"
  /\ \/ /\ Holds(Current(p), [by |-> p, holds |-> "empty"])
        /\ run' = [run EXCEPT ![p].phase = "filling", ![p].touched = TRUE]
     \/ Failed(p) /\ UNCHANGED file
  /\ UNCHANGED dir

(***************************************************************************)
(* It writes from the start of the file.  What another run has written in  *)
(* between may be longer, and shows below what this one writes.            *)
(***************************************************************************)
Fill(p) ==
  LET path == Current(p)
      rest == Tail(run[p].todo)
  IN  /\ run[p].phase = "filling"
      /\ \/ /\ \/ Holds(path, [by |-> p, holds |-> "whole"])
               \/ file[path].holds # "empty" /\ Holds(path, [by |-> p, holds |-> "part"])
            /\ run' = [run EXCEPT ![p] =
                 IF rest = <<>> THEN Ended(@, 0)
                 ELSE [@ EXCEPT !.phase = "opening", !.todo = rest]]
         \/ Failed(p) /\ (UNCHANGED file \/ Holds(path, [by |-> p, holds |-> "part"]))
      /\ UNCHANGED dir

Kill(p) ==
  /\ p \in Live
  /\ run' = [run EXCEPT ![p] = Ended([@ EXCEPT !.fault = TRUE], 137)]
  /\ \/ UNCHANGED file
     \/ run[p].phase = "filling" /\ Holds(Current(p), [by |-> p, holds |-> "part"])
  /\ UNCHANGED dir

CliNext ==
  \E p \in Process :
    \/ \E line \in Line : Start(p, line)
    \/ Check(p) \/ Make(p) \/ Generate(p) \/ Read(p) \/ Open(p) \/ Fill(p) \/ Kill(p)

CliSpec == CliInit /\ [][CliNext]_cliVars

-----------------------------------------------------------------------------
(* Properties.                                                             *)

\* The index of the last token that sets flag name, or 0.
LastSet(argv, name) ==
  LET sets == {i \in 2 .. Len(argv) : argv[i].form \in {"flag", "assign"} /\ argv[i].name = name}
  IN  CHOOSE i \in sets \cup {0} : \A j \in sets : j <= i

Taken(argv, i) == i > 2 /\ argv[i].form = "word" /\ argv[i - 1].form = "flag"

\* What a command line says of a flag: nothing, <<>> or <<text>>.
Says(argv, name) ==
  LET i == LastSet(argv, name)
  IN  IF argv[i].form = "assign" THEN <<argv[i].text>>
      ELSE IF i < Len(argv) /\ argv[i + 1].form = "word" THEN <<argv[i + 1].text>> ELSE <<>>

(***************************************************************************)
(* Flags and positionals are told apart as documented, whatever the order: *)
(* a text right after --name is its value and no positional, the others    *)
(* are positionals in order, and the last mention of a flag counts.        *)
(***************************************************************************)
ParseMeetsReference ==
  (\A p \in Process : run[p].phase = "idle") =>
    \A argv \in Parsed :
      LET parsed == Parse(argv)
          free   == {i \in 2 .. Len(argv) : argv[i].form = "word" /\ ~Taken(argv, i)}
      IN  /\ DOMAIN parsed.flags =
               {argv[i].name : i \in {j \in 2 .. Len(argv) : argv[j].form # "word"}}
          /\ \A name \in DOMAIN parsed.flags : parsed.flags[name] = Says(argv, name)
          /\ Len(parsed.positionals) = Cardinality(free)
          /\ \A i \in free :
               parsed.positionals[Cardinality({j \in free : j <= i})] = argv[i].text

Written(p) ==
  {name \in FileName :
     LET path == [at |-> run[p].place, name |-> name]
     IN  path \in DOMAIN file /\ file[path] = [by |-> p, holds |-> "whole"]}

Wanted(p) == LET todo == Plan(run[p].line).todo IN {todo[i] : i \in DOMAIN todo}

(***************************************************************************)
(* The exit code tells what is there.  After 0 all files of a run that had *)
(* its place to itself are there, whole and its own, and no others if it   *)
(* made the directory (a prefix of the same text is not in it); after 1    *)
(* without a failure of the machine, the run has made and changed nothing. *)
(***************************************************************************)
ExitCodeTells ==
  \A p \in Process :
    run[p].phase = "ended" =>
      /\ run[p].exit = 0 /\ run[p].alone /\ run[p].place # "" =>
           /\ Wanted(p) \subseteq Written(p)
           /\ run[p].place \in dir /\ ~run[p].found =>
                \A path \in DOMAIN file :
                  path.at = run[p].place /\ path.name \notin PemFile => path.name \in Wanted(p)
      /\ run[p].exit = 1 /\ ~run[p].fault => ~run[p].touched

(***************************************************************************)
(* Unless --force is given, and is not taken for the flag of a value, a    *)
(* run of qdeno touches no directory that was there when it began.         *)
(* One case is left out, because there the code does overwrite: when the   *)
(* stat of the directory fails (fault), exists answers that there is none. *)
(* A directory that another run makes after this one began is not found.   *)
(***************************************************************************)
UnforcedKeepsWhatItFound ==
  [][\A p \in Process :
       /\ run[p].phase # "idle" /\ run[p].line.tool = "qdeno" /\ run[p].found
       /\ run'[p].touched /\ ~run[p].fault
       => LastSet(run[p].line.argv, "force") # 0 /\ Says(run[p].line.argv, "force") = <<>>]_cliVars
=============================================================================
