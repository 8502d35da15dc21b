------------------------------ MODULE MCAccess ------------------------------
(* Small instances of Access for TLC. *)
EXTENDS Access

MCNames == STRING

MCExt == [n \in {Index, "terminald.js", "terminald.css", "v1.2"} |->
            CASE n = Index -> "html" [] n = "terminald.js" -> "javascript"
              [] n = "terminald.css" -> "css" [] n = "v1.2" -> "2"]

\* A built frontend, the checked-in fallback alone, and a directory given to the library.
Built    == {<<"dist", Index>>, <<"dist">> \o Script, <<"dist">> \o Stylesheet, <<Index>>}
MCBuilds ==
  {[external |-> {}, embedded |-> Built, useDist |-> TRUE],
   [external |-> {}, embedded |-> {<<Index>>}, useDist |-> TRUE],
   [external |-> {<<Index>>, Script, Stylesheet}, embedded |-> Built, useDist |-> TRUE]}

AB == <<"a", Colon, "b">>
Option(text)  == [from |-> "option", text |-> text]
InFile(text)  == [from |-> "file", text |-> text]
MCAuths == {Nowhere, Option(AB), Option(<<"a">>), InFile(AB), InFile(AB \o <<LF>>),
            InFile(AB \o <<CR, LF>>), InFile(AB \o <<LF, LF>>), InFile(AB \o <<CR>>),
            Option(AB \o <<Colon>>), InFile(<<>>)}

NoOwn == [auth |-> Nowhere, socket |-> FALSE, command |-> <<>>]
MCServerArgs ==
  {[subcommand |-> "server", top |-> NoOwn, own |-> [auth |-> a, socket |-> FALSE, command |-> <<"sh">>]] :
     a \in MCAuths}
  \cup {[subcommand |-> "none", top |-> [auth |-> a, socket |-> u, command |-> c], own |-> NoOwn] :
     a \in {Nowhere, Option(AB)}, u \in BOOLEAN, c \in {<<>>, <<"sh">>}}
  \cup {[subcommand |-> "version", top |-> NoOwn, own |-> NoOwn]}

Url(scheme, path) == [scheme |-> scheme, path |-> path]
MCClientArgs ==
  {[subcommand |-> "client", top |-> NoOwn, own |-> [auth |-> a, connect |-> Url("http", <<"">>)]] :
     a \in MCAuths}
  \cup {[subcommand |-> "client", top |-> NoOwn, own |-> [auth |-> Nowhere, connect |-> u]] :
     u \in {Url("https", <<"aaa">>), Url("ws", <<"aaa", "v1.2">>), Url("ftp", <<"">>)}}

At(mount, paths) == {[mount |-> mount, path |-> mount \o p] : p \in paths}
MCPaths ==
  At(<<>>, {<<"">>, <<Index>>, <<"a", Index>>, <<"", "">>, <<"v1.2">>, <<"auth", "check", "">>,
            <<"auth", "check">>, <<"dist", Index>>, <<"ws">>, <<"ws", "">>, <<"a", "assets", "terminald.js">>})
  \cup At(<<"aaa">>, {<<>>, <<"">>, <<Index>>})
  \cup At(<<"example", "bbb">>, {<<>>, <<"">>, <<"c">>})
  \cup At(<<"v1.2">>, {<<>>, <<"">>})
  \cup At(<<"assets">>, {<<"">>}) \cup At(<<"my-assets">>, {<<>>})

MCTail == {"assets", "my-assets"}

MCTyped == {AB, <<"a", Colon, "c">>}

MCClientSays == {Input(<<7>>), Size(0, U16Max), Size(U16Max + 1, 2)}
MCServerSays == {OutputOf(<<7>>), ErrorOf(<<"read">>), ExitedWith(0), ExitedWith(-1), ExitedWith(130)}
=============================================================================
