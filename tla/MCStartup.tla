------------------------------ MODULE MCStartup ------------------------------
EXTENDS Startup

MCName == {"api", "coin_selection_strategy", "components_to_skip", "download_dir", "fixed_peers", "hub_timeout",
           "jurisdiction", "max_key_fee", "save_blobs", "streaming_server", "tcp_port"}
MCKind == [api |-> "string", coin_selection_strategy |-> "string_choice", components_to_skip |-> "strings",
           download_dir |-> "path", fixed_peers |-> "servers", hub_timeout |-> "float",
           jurisdiction |-> "string", max_key_fee |-> "max_key_fee", save_blobs |-> "toggle",
           streaming_server |-> "string", tcp_port |-> "integer"]
MCDefaultValue == [api |-> Text("h:5"), coin_selection_strategy |-> Text("standard"),
                   components_to_skip |-> List(<<>>), download_dir |-> Text("x"),
                   fixed_peers |-> List(<<>>), hub_timeout |-> Scalar("float", "5.0"),
                   jurisdiction |-> Nil, max_key_fee |-> Nil, save_blobs |-> Scalar("bool", "true"),
                   streaming_server |-> Text("h:6"), tcp_port |-> Number("5")]
MCUse == [n \in MCName |->
            CASE n \in {"api", "streaming_server"} -> "listen" [] n = "components_to_skip" -> "skip"
              [] n = "download_dir" -> "directory" [] n = "jurisdiction" -> "optional"
              [] n = "max_key_fee" -> "later" [] OTHER -> "plain"]
MCRequires == [dht |-> {}, hash_announcer |-> {"dht"}]
MCAlias == [peer_port |-> "tcp_port"]

MCSetting == {"api", "fixed_peers", "hub_timeout", "max_key_fee", "save_blobs", "tcp_port"}
MCRootSetting == {"api"}
MCAction == [api |-> "store", fixed_peers |-> "append", hub_timeout |-> "store",
             max_key_fee |-> "many", save_blobs |-> "toggle", tcp_port |-> "store"]

MCLine == {<<Start>>, <<Command>>, <<Start, Flag>>, <<Start, Option("tcp_port")>>,
           <<Attached("api", "1"), Start, NoOption("save_blobs"), Attached("fixed_peers", "h:5")>>,
           <<Start, Option("tcp_port"), Word("x")>>,
           <<Start, Option("max_key_fee"), Word("5"), Word("usd"), Attached("tcp_port", "1")>>}
\* At most three tokens after start, and at most one root option before it.
Vocabulary ==
    {Start, End, Command, Flag, Word("5"), Attached("api", "5"), Abbreviation({"tcp_port"}, "--tcp"),
     Abbreviation({"max_key_fee", "save_blobs"}, "--")}
    \cup {Option(n) : n \in MCSetting} \cup {NoOption(n) : n \in {"save_blobs", "max_key_fee"}}
MCTyped == {pre \o <<Start>> \o rest :
              pre \in {<<>>, <<Attached("api", "1")>>}, rest \in UNION {[1 .. k -> Vocabulary] : k \in 0 .. 3}}
           \cup {<<Command>>, <<Flag>>, <<Option("api"), Start>>, <<End, Start>>, <<Word("5")>>}

MCEnvironment == {NoValues, [NoValues EXCEPT !["save_blobs"] = Text("true")],
                  [NoValues EXCEPT !["tcp_port"] = Text("5")]}

Entries(changes) == Yaml([k \in Key |-> IF k \in DOMAIN changes THEN changes[k] ELSE NoNode])
MCFile == {EmptyFile, Malformed,
           Entries([peer_port |-> Node("plain", "5"), tcp_port |-> Node("plain", "1")]),
           Entries([tcp_port |-> Node("quoted", "x")]),
           Entries([save_blobs |-> Node("quoted", "true")]),
           Entries([hub_timeout |-> Node("plain", "1"), jurisdiction |-> Node("quoted", "5")]),
           Entries([jurisdiction |-> Node("plain", "5")])}
MCRevisions == {1, 2, 3, 5, 6, 7, 8, 9, 10, 12, 14, 15, 16, Missing}

MCRawValue == {Text(t) : t \in {"5", "1.5", "true", "null", "x", "", "h:6", JSONList, "[", "5 usd", "standard"}}
              \cup {Number("5"), Number("99999999999999999999"), Scalar("float", "1e20"), Scalar("bool", "false"), Nil,
                    List(<<Text("dht")>>), List(<<Text("dht"), Text("hash_announcer")>>),
                    List(<<Text("h:99999999999999999999"), Text("x")>>),
                    Fee(Number("5"), Text("USD")), Fee(Number("5"), Text("usd"))}

\* Hubs: a is a name of the address 1, and c of 2; 3 and 4 are hubs the others tell of.
MCHub == {"a", "c", "1", "2", "3", "4"}
MCAddress == [s \in MCHub |-> CASE s = "a" -> "1" [] s = "c" -> "2" [] OTHER -> s]
Answer(pong, country, accepts, peers, news) ==
    [pong |-> pong, country |-> country, accepts |-> accepts, peers |-> peers, news |-> news]
Away == Answer("silent", "US", FALSE, <<>>, <<>>)
Answers(one, two) == [s \in MCHub |-> CASE s = "1" -> one [] s = "2" -> two [] OTHER -> Away]
Hubs(servers, explicit, jurisdiction, answers) ==
    [wallet |-> TRUE, servers |-> servers, explicit |-> explicit, jurisdiction |-> jurisdiction,
     answers |-> answers]
NoWallet == [Hubs(<<>>, TRUE, NoCountry, Answers(Away, Away)) EXCEPT !.wallet = FALSE]
\* Two hubs and three lists; a jurisdiction and an unreadable list; servers set by the user.
MCNetwork ==
    {NoWallet,
     Hubs(<<"1">>, FALSE, NoCountry, [Answers(Answer("available", "US", TRUE, <<"3">>, <<"2">>), Away)
                                      EXCEPT !["3"] = Answer("available", "US", TRUE, <<"4">>, <<>>)]),
     Hubs(<<"a", "c">>, FALSE, "US", Answers(Answer("available", "FR", TRUE, <<>>, <<>>),
                                             Answer("available", "US", TRUE, <<Skipped, "3", Faulty>>, <<>>))),
     Hubs(<<"a", "c">>, FALSE, NoCountry, Answers(Answer("busy", "US", TRUE, <<>>, <<>>),
                                                  Answer("available", "US", FALSE, <<>>, <<>>))),
     Hubs(<<"a", "c">>, TRUE, NoCountry, Answers(Away, Answer("silent", "US", TRUE, <<"3">>, <<"4">>)))}
MCHubFile == {NoHubFile, BadHubFile, ("3" :> "FR")}
===============================================================================
