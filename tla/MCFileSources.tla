--------------------------- MODULE MCFileSources ---------------------------
(***************************************************************************)
(* A small instance of FileSources for TLC: the OpenAPI document of one    *)
(* target, two feeds that may name three (the id of one goes on where      *)
(* that of another ends), and two consumer maps.                           *)
(***************************************************************************)
EXTENDS FileSources, TLC

Api == <<"a">>
Nest == <<"a", "b">>

MCSources ==
    <<[kind |-> "openapi", target |-> Api],
      [kind |-> "feed", target |-> None], [kind |-> "feed", target |-> None],
      [kind |-> "map", target |-> None], [kind |-> "map", target |-> None]>>

File(document) ==
    [opens |-> TRUE, bytes |-> MaxSourceBytes, utf8 |-> TRUE,
     suffix |-> "yaml", keys |-> <<"k", "l">>, document |-> document]

\* The ways in which a file cannot be read at all.
Defective(file) ==
    {[file EXCEPT !.opens = FALSE],
     [file EXCEPT !.bytes = MaxSourceBytes + 1],
     [file EXCEPT !.utf8 = FALSE],
     [file EXCEPT !.suffix = "txt"],
     [file EXCEPT !.keys = <<"k", "l", "k">>]}

Says(deprecated, deprecation, sunset, active) ==
    [deprecated |-> deprecated, deprecation_at |-> deprecation,
     sunset_at |-> sunset, active |-> active]

Operation(deprecated, extension) ==
    [wellTyped |-> TRUE, deprecated |-> deprecated, extension |-> extension]

Operations ==
    {Operation(FALSE, None), Operation(TRUE, None),
     [Operation(TRUE, None) EXCEPT !.wellTyped = FALSE],
     Operation(FALSE, Says(FALSE, None, None, TRUE)),
     Operation(TRUE, Says(FALSE, None, None, FALSE)),
     Operation(FALSE, Says(FALSE, 2, 1, TRUE)),
     Operation(FALSE, Says(FALSE, 1, 1, TRUE))}

OpenApi(operations) ==
    [supportedVersion |-> TRUE, rootedPaths |-> TRUE, operations |-> operations]

Documents ==
    {OpenApi([o \in {"get /x", "put /x"} |->
                 IF o = "get /x" THEN op ELSE Operation(TRUE, None)]) :
        op \in Operations}
    \cup {[OpenApi(<<>>) EXCEPT !.supportedVersion = FALSE],
          [OpenApi(<<>>) EXCEPT !.rootedPaths = FALSE]}

Item(target, key, endpoint, evidence) ==
    [target |-> target, key |-> key, endpoint |-> endpoint,
     scope |-> IF endpoint = None THEN "service" ELSE "endpoint",
     evidence |-> evidence]

Deprecated == Says(TRUE, None, None, TRUE)

\* The first two are stored in one row; the keys of the last are long.
Items ==
    {Item(Api, <<"b", "c">>, None, Deprecated),
     Item(Nest, <<"c">>, None, Deprecated),
     Item(<<"z">>, <<"b", "c">>, "get /x", Deprecated),
     Item(Nest, <<"c", "c", "c">>, None, Deprecated)}

BadItems ==
    {Item(Api, <<"c">>, None, Says(FALSE, None, None, TRUE)),
     Item(Api, <<"c">>, None, Says(FALSE, 2, 1, TRUE)),
     [Item(Api, <<"c">>, None, Deprecated) EXCEPT !.scope = "endpoint"]}

Feed(items) == [supportedVersion |-> TRUE, signals |-> items]

Feeds ==
    {Feed(<<>>)} \cup {Feed(<<s>>) : s \in Items \cup BadItems}
    \cup {Feed(<<s, t>>) : s, t \in Items}
    \cup {[Feed(<<>>) EXCEPT !.supportedVersion = FALSE]}

Map(consumers, dependencies) ==
    [supportedVersion |-> TRUE,
     consumers |-> [n \in 1..Len(consumers) |->
                       [id |-> consumers[n], payload |-> "p"]],
     dependencies |-> [n \in 1..Len(dependencies) |->
                          [consumer |-> dependencies[n][1],
                           endpoint |-> dependencies[n][2]]]]

Maps ==
    {Map(<<>>, <<>>), Map(<<"c">>, <<>>), Map(<<"d">>, <<>>),
     Map(<<"c", "c">>, <<>>),
     Map(<<"c">>, <<<<"c", "x">>>>), Map(<<"d">>, <<<<"d", "x">>>>),
     Map(<<"d">>, <<<<"c", "x">>>>),
     Map(<<"c">>, <<<<"c", "x">>, <<"c", "y">>>>),
     Map(<<"c">>, <<<<"c", "x">>, <<"c", "x">>>>),
     [Map(<<>>, <<>>) EXCEPT !.supportedVersion = FALSE]}

Holding(documents) == {File(d) : d \in documents}

MCContents ==
    <<Holding(Documents) \cup Defective(File(OpenApi(<<>>))),
      Holding(Feeds), Holding(Feeds), Holding(Maps), Holding(Maps)>>

=============================================================================
