-------------------------------- MODULE MCCli --------------------------------
(* TLC instance of Cli: two runs among nineteen command lines.             *)
EXTENDS Cli, TLC

Q(argv) == [tool |-> "qdeno", argv |-> argv]
O(argv) == [tool |-> "deno-openssl", argv |-> argv]

New(rest) == <<Word("new")>> \o rest

MCLine ==
  { Q(<<>>), Q(<<Word("bogus")>>), Q(<<Flag("help")>>),
    Q(New(<<Word("http"), Flag("help")>>)), Q(New(<<Word("http"), Word("1bad"), Flag("force")>>)),
    Q(New(<<Word("http"), Word("svc")>>)),
    Q(New(<<Word("grpc"), Word("svc"), Flag("force")>>)),
    Q(New(<<Flag("force"), Word("http"), Word("grpc"), Word("svc")>>)),
    Q(New(<<Word("http"), Word("svc"), Assign("force", "true")>>)),
    Q(New(<<Word("grpc"), Word("api"), Flag("dir"), Word("svc")>>)),
    Q(New(<<Word("http"), Word("api"), Flag("force"), Flag("dir"), Word("old")>>)),
    Q(New(<<Word("http"), Word("old"), Flag("force"), Word("svc")>>)),
    O(<<Word("keypair"), Flag("out"), Word("tls")>>),
    O(<<Word("keypair"), Assign("algorithm", "rsa"), Flag("bits"), Assign("out", "tls")>>),
    O(<<Word("cert"), Flag("algorithm"), Word("dsa"), Assign("out", "tls")>>),
    O(<<Word("cert"), Assign("out", "tls")>>), O(<<Word("keypair"), Flag("out")>>),
    O(<<Word("pem-info")>>), O(<<Word("pem-info"), Word("tls.key.pem")>>) }

MCToken ==
  {Word("a"), Word("b"), Flag("f"), Flag("g"), Assign("f", "c"), Assign("f", "")}

MCParsed == {line.argv : line \in MCLine} \cup {New(s) : s \in UNION {[1 .. n -> MCToken] : n \in 0 .. 4}}

TextsOf(token) == {token[field] : field \in DOMAIN token \ {"form"}}

MCText == UNION {UNION {TextsOf(argv[i]) : i \in DOMAIN argv} : argv \in MCParsed}

MCPathOf == [text \in {"tls.key.pem"} |-> [at |-> "tls", name |-> "key.pem"]]

MCPresent == {[at |-> "old", name |-> "main.ts"]}

Symmetry == Permutations(Process)
=============================================================================
