------------------------------- MODULE Access -------------------------------
(***************************************************************************)
(* One visit to a server, from the two command lines to the messages: the  *)
(* server is started with its arguments; a browser opens a page of it,     *)
(* below whatever path a proxy mounts it at, is redirected and asked for   *)
(* the credential, loads the page's files, and the page checks the         *)
(* credential and opens the WebSocket; or the command-line client opens    *)
(* it; and then both sides send messages.                                  *)
(*                                                                         *)
(* main.rs (run), server.rs (serve), client.rs (run, up to the connection) *)
(* and, of the page, the requests it makes; what the page and the client   *)
(* do besides is in BrowserApp and CliClient.  A proxy passes on the paths    *)
(* below the one it mounts the server at, as they are.                     *)
(***************************************************************************)
EXTENDS HttpDispatch, Frames

CONSTANTS Builds,       \* the asset configurations a server may have
          ServerArgs,   \* the command lines a server may be started with
          ClientArgs,   \* and the command-line client
          Paths,        \* where a browser is sent: [mount, path], the mount <<>> for "/"
          Typed,        \* the credentials its user may type
          ClientSays,   \* the messages clients send: sizes may exceed a u16
          ServerSays,   \* the messages the server sends
          MaxSaid       \* bound: the messages in each direction

ASSUME AccessAssumption == MaxSaid \in Nat

\* What a client may send, and what a server says of itself: its own texts are not the
\* one with which it answers what it could not decode.
ASSUME MessagesAssumption ==
  /\ ClientSays \subseteq [kind : {"input"}, value : Seq(Nat)]
                        \cup [kind : {"resize"}, value : Seq([cols : Nat, rows : Nat])]
  /\ ServerSays \subseteq [kind : {"output"}, value : Seq(Nat)]
                        \cup [kind : {"error"}, value : Seq(STRING) \ {<<"invalid">>}]
                        \cup [kind : {"exited"}, value : -(I32Max + 1) .. I32Max]

VARIABLES server,   \* what the server was asked to do, with its assets
          client,   \* the visitor's program, its credential, and the mount it goes to
          request,  \* the request under way, if any
          reply,    \* the last response, with the request it answers, if any
          stage,    \* how far the visit has come
          page,     \* the path of the page shown and the file it is, if any
          missing,  \* the page's files that have not been loaded
          toServer, \* frames on the WebSocket
          toClient,
          given,    \* history: the credential arguments of "server" and "client"
          said,     \* history: the messages sent, by "server" and by "client"
          heard     \* history: what the other side made of them

visit == <<server, client, given, request, reply, stage, page, missing>>
wires == <<toServer, toClient, said, heard>>
vars  == <<visit, wires>>

Nowhere  == [from |-> "nowhere", text |-> <<>>]
NoServer == [mode |-> "none"]
NoClient == [program |-> "none", auth |-> None, mount |-> <<>>]

\* What index.html of a built frontend refers to; the fallback refers to nothing.
Script     == <<"assets", "terminald.js">>
Stylesheet == <<"assets", "terminald.css">>
FilesOf(index) == IF index[1] \in {"dist", "external"} THEN {Script, Stylesheet} ELSE {}

\* A frontend is there as a whole or not at all, beside whatever else is in its directory,
\* and the only pages are named index.html.
ASSUME BuildsAssumption ==
  \A assets \in Builds :
    /\ \A p \in assets.external \cup assets.embedded : ContentType(p) = "html" => Last(p) = Index
    /\ {<<Index>>, Script, Stylesheet} \cap assets.external \in {{}, {<<Index>>, Script, Stylesheet}}
    /\ LET dist == {<<"dist">> \o p : p \in {<<Index>>, Script, Stylesheet}}
       IN  dist \cap assets.embedded \in {{}, dist}

\* A proxy mounts a server at a path without a trailing slash, which is not a page itself.
\* A path that begins with two slashes is not one that is redirected: its Location would
\* begin with two slashes as well, and name another host.
ASSUME PathsAssumption ==
  \A to \in Paths : /\ to.path \in Seq(Names) \ {<<>>} /\ to.mount \in Seq(Names)
                    /\ IsPrefix(to.mount, to.path)
                    /\ to.mount # <<>> => Last(to.mount) \notin {"", Index}
                    /\ to.path[1] = "" => Last(to.path) \in {""} \cup DOMAIN Ext

-----------------------------------------------------------------------------
(* The server's process. *)

Arguments(args) == IF args.subcommand = "none" THEN args.top ELSE args.own

\* What clap makes of a command line, and what a user who knows how types.
ASSUME ArgumentsAssumption ==
  /\ \A args \in ServerArgs \cup ClientArgs :
       /\ args.subcommand \in {"server", "client", "version", "none"}
       /\ Arguments(args).auth \in CredentialArgs
  /\ \A args \in ClientArgs : args.subcommand = "client" =>
       args.own.connect.path \in Seq(Names) \ {<<>>}
  /\ \A c \in Typed : c \in Seq(STRING) /\ IsCredential(c)

\* serve: the listener may fail to bind, a Unix socket because the path exists.
Serve(args, assets) ==
  /\ server = NoServer
  /\ LET asked == IntoMode(args)
     IN  \/ /\ asked.mode = "server"
            /\ server' = [mode |-> "server", auth |-> asked.auth, assets |-> assets]
         \/ server' = FailedMode
  /\ given' = [given EXCEPT !.server = Arguments(args).auth]
  /\ UNCHANGED <<client, request, reply, stage, page, missing, wires>>

Answer ==
  /\ request # None /\ server.mode = "server"
  /\ LET r == request[1]
     IN  reply' = Some([to |-> r, is |-> IF IsPrefix(client.mount, r.path) THEN Dispatch(server, r)
                                         ELSE Status(404)])
  /\ request' = None
  /\ UNCHANGED <<server, client, given, stage, page, missing, wires>>

-----------------------------------------------------------------------------
(* The visitor's program. *)

Header(auth) == IF auth = None THEN None ELSE Some(Basic(auth[1]))

Ask(path, auth, upgrade) ==
  request' = Some([method |-> "GET", path |-> path, header |-> Header(auth), upgrade |-> upgrade])

\* A program has taken the reply when it has moved on: the reply is only kept.
Replied(code) == request = None /\ reply # None /\ reply[1].is.code = code

\* client::run, with --connect normalised.
RunClient(args) ==
  /\ stage = "start" /\ server.mode = "server"
  /\ LET asked == IntoMode(args)
         fine  == asked.mode = "client" /\ WsScheme(asked.connect.scheme) # None
     IN  /\ client' = [NoClient EXCEPT !.program = "cli", !.auth = IF fine THEN asked.auth ELSE None]
         /\ given' = [given EXCEPT !.client = Arguments(args).auth]
         /\ stage' = IF fine THEN "socket" ELSE "failed"
         /\ IF fine THEN Ask(WebSocketPath(asked.connect.path), asked.auth, TRUE)
            ELSE UNCHANGED request
  /\ UNCHANGED <<server, reply, page, missing, wires>>

Visit(to) ==
  /\ stage = "start" /\ server.mode = "server"
  /\ client' = [program |-> "browser", auth |-> None, mount |-> to.mount]
  /\ stage' = "visiting" /\ Ask(to.path, None, FALSE)
  /\ UNCHANGED <<server, given, reply, page, missing, wires>>

\* A browser follows the redirect, with the credential it has.
FollowRedirect ==
  /\ stage = "visiting" /\ Replied(308)
  /\ Ask(reply[1].is.location[1], client.auth, FALSE)
  /\ reply' = None
  /\ UNCHANGED <<server, client, given, stage, page, missing, wires>>

\* It asks for the credential once, and keeps it for the origin.
Challenged(c) ==
  /\ stage = "visiting" /\ Replied(401)
  /\ IF client.auth = None
     THEN /\ client' = [client EXCEPT !.auth = Some(NewCredential(c))]
          /\ given' = [given EXCEPT !.client = [from |-> "option", text |-> c]]
          /\ Ask(reply[1].to.path, client'.auth, FALSE)
          /\ reply' = None /\ UNCHANGED stage
     ELSE stage' = "failed" /\ UNCHANGED <<client, given, request, reply>>
  /\ UNCHANGED <<server, page, missing, wires>>

\* The page, or an error, or a file that is not a page.
ShowPage ==
  /\ stage = "visiting" /\ \E code \in {200, 204, 400, 404} : Replied(code)
  /\ LET shown == reply[1].is.code = 200 /\ reply[1].is.type = "html"
         file  == reply[1].is.file
     IN  /\ stage'   = IF shown THEN "page" ELSE "failed"
         /\ page'    = IF shown THEN Some([path |-> reply[1].to.path, file |-> file[1]]) ELSE None
         /\ missing' = IF shown THEN FilesOf(file[1]) ELSE {}
  /\ UNCHANGED <<server, client, given, request, reply, wires>>

LoadFile(name) ==
  /\ stage = "page" /\ name \in missing
  /\ stage' = "loading" /\ missing' = missing \ {name}
  /\ Ask(Relative(page[1].path, name), client.auth, FALSE)
  /\ UNCHANGED <<server, client, given, reply, page, wires>>

\* Without its script the page does nothing; it does without the stylesheet.
FileArrives ==
  /\ stage = "loading" /\ request = None
  /\ LET ran == reply[1].is.code = 200 /\ reply[1].is.type = "javascript"
     IN  stage' = IF Last(reply[1].to.path) = Last(Script) /\ ~ran THEN "failed" ELSE "page"
  /\ UNCHANGED <<server, client, given, request, reply, page, missing, wires>>

\* connect(): the auth check, once the script runs, and then the socket.
CheckAuth ==
  /\ stage = "page" /\ FilesOf(page[1].file) # {} /\ missing = {}
  /\ stage' = "checking" /\ Ask(AuthCheckPath(page[1].path), client.auth, FALSE)
  /\ UNCHANGED <<server, client, given, reply, page, missing, wires>>

OpenSocket ==
  /\ stage = "checking" /\ Replied(204)
  /\ stage' = "socket" /\ Ask(WebSocketPath(page[1].path), client.auth, TRUE)
  /\ UNCHANGED <<server, client, given, reply, page, missing, wires>>

Opened ==
  /\ stage = "socket" /\ request = None
  /\ stage' = IF Replied(101) THEN "open" ELSE "failed"
  /\ UNCHANGED <<server, client, given, request, reply, page, missing, wires>>

-----------------------------------------------------------------------------
(* Messages.  The sizes of the command-line client are u16 already.          *)

ClientSpeaks(m) ==
  /\ stage = "open" /\ Len(said.client) < MaxSaid
  /\ client.program = "cli" /\ m.kind = "resize" => IsSize(m.value)
  /\ said' = [said EXCEPT !.client = Append(@, m)]
  /\ toServer' = Append(toServer, ClientEncode(m))
  /\ UNCHANGED <<visit, toClient, heard>>

ServerSpeaks(m) ==
  /\ stage = "open" /\ Len(said.server) < MaxSaid
  /\ said' = [said EXCEPT !.server = Append(@, m)]
  /\ toClient' = Append(toClient, ServerEncode(m))
  /\ UNCHANGED <<visit, toServer, heard>>

\* (mutant) A size that does not fit is cut to its low bits.
ServerHearsCut ==
  /\ stage = "open" /\ toServer # <<>>
  /\ LET f == Head(toServer)
         m == IF f[1] # Prefix.resize THEN ClientDecode(f)
              ELSE Size(f[2].cols % (U16Max + 1), f[2].rows % (U16Max + 1))
     IN  heard' = [heard EXCEPT !.server = Append(@, m)]
  /\ toServer' = Tail(toServer)
  /\ UNCHANGED <<visit, toClient, said>>

\* What does not decode is answered with an error, and the session goes on.
ServerHears ==
  /\ stage = "open" /\ toServer # <<>>
  /\ LET m == ClientDecode(Head(toServer))
     IN  /\ heard' = [heard EXCEPT !.server = Append(@, m)]
         /\ IF m = Undecodable
            THEN /\ toClient' = Append(toClient, ServerEncode(ErrorOf(<<"invalid">>)))
                 /\ said' = [said EXCEPT !.server = Append(@, ErrorOf(<<"invalid">>))]
            ELSE UNCHANGED <<toClient, said>>
  /\ toServer' = Tail(toServer)
  /\ UNCHANGED visit

\* An exit, or an error in the command-line client, ends the visit.
ClientHears ==
  /\ stage = "open" /\ toClient # <<>>
  /\ LET m == ServerDecode(Head(toClient), client.program)
     IN  /\ heard' = [heard EXCEPT !.client = Append(@, m)]
         /\ stage' = IF m.kind \in {"output"} \cup (IF client.program = "browser" THEN {"error"} ELSE {})
                     THEN stage ELSE "ended"
  /\ toClient' = Tail(toClient)
  /\ UNCHANGED <<server, client, given, request, reply, page, missing, toServer, said>>

-----------------------------------------------------------------------------
Init ==
  /\ server = NoServer /\ client = NoClient /\ request = None /\ reply = None
  /\ given = [server |-> Nowhere, client |-> Nowhere]
  /\ stage = "start" /\ page = None /\ missing = {}
  /\ toServer = <<>> /\ toClient = <<>>
  /\ said = [server |-> <<>>, client |-> <<>>] /\ heard = said

Next ==
  \/ \E args \in ServerArgs, assets \in Builds : Serve(args, assets)
  \/ \E args \in ClientArgs : RunClient(args)
  \/ \E to \in Paths : Visit(to)
  \/ \E c \in Typed : Challenged(c)
  \/ \E name \in missing : LoadFile(name)
  \/ Answer \/ FollowRedirect \/ ShowPage \/ FileArrives \/ CheckAuth \/ OpenSocket \/ Opened
  \/ \E m \in ClientSays : ClientSpeaks(m)
  \/ \E m \in ServerSays : ServerSpeaks(m)
  \/ ServerHears \/ ClientHears

Spec == Init /\ [][Next]_vars

-----------------------------------------------------------------------------
(* Properties. *)

\* Every variable has its type: a request is one a browser or the client makes,
\* a reply answers such a request, and the stages are those of a visit.
Requests == [method : {"GET"}, path : Seq(Names) \ {<<>>}, header : Seq([scheme : {"Basic"},
             encoded : Seq(STRING)]), upgrade : BOOLEAN]

TypeOK ==
  /\ server.mode \in {"none", "failed", "server"}
  /\ client.program \in {"none", "browser", "cli"}
  /\ request = None \/ request[1] \in Requests
  /\ reply # None => /\ reply[1].to \in Requests
                      /\ reply[1].is.code \in {101, 200, 204, 308, 400, 401, 404}
  /\ stage \in {"start", "visiting", "page", "loading", "checking", "socket", "open",
                "ended", "failed"}
  /\ page # None => page[1].path \in Seq(Names)
  /\ missing \subseteq {Script, Stylesheet}
  /\ \A f \in {toServer, toClient} : \A i \in DOMAIN f : f[i][1] \in 0 .. 4

\* The server refuses exactly the requests that do not carry the credential that
\* was meant for it: the one line of its file, whatever its line ending, or its
\* option as it stands.  So a file written with an editor on one side and an
\* option on the other agree.  Above its mount it is the proxy that replies.
Meant(arg) ==
  LET ends == {i \in DOMAIN arg.text : arg.text[i] \in {CR, LF}}
  IN  IF arg.from = "nowhere" THEN None
      ELSE IF arg.from = "option" \/ ends = {} THEN Some(arg.text)
      ELSE Some(SubSeq(arg.text, 1, (CHOOSE i \in ends : \A j \in ends : i <= j) - 1))

Admission ==
  reply # None /\ IsPrefix(client.mount, reply[1].to.path) =>
    (reply[1].is.code = 401 <=> Meant(given.server) \notin {None, Meant(given.client)})

\* A page that was shown gets what it needs wherever it is mounted: every file it
\* refers to is the one of its build and arrives as what it is, its check of the
\* credential passes and its socket is accepted.  The command-line client reaches
\* the socket, or is refused for its credential, from any path.  The exceptions are the
\* files of a page below a name that ends in "assets", which RelativePath takes for
\* the directory of the files, and those of a page that is not the one the server has
\* for "/": the embedded one beside a directory's, under its own name, dist/index.html.
PageComplete ==
  request = None /\ reply # None =>
    LET answer == reply[1].is
    IN  /\ stage = "loading" /\ (\A i \in DOMAIN page[1].path : page[1].path[i] \notin AssetsTail)
              /\ File(server.assets, <<Index>>) = Some(page[1].file) =>
             \E name \in {Script, Stylesheet} :
               /\ answer.code = 200 /\ answer.file = Some(<<page[1].file[1]>> \o name)
               /\ answer.type = ContentType(name) /\ Last(reply[1].to.path) = Last(name)
        /\ stage = "checking" => answer.code = 204
        /\ stage = "socket"   => answer.code \in {101} \cup (IF client.program = "cli" THEN {401} ELSE {})

\* Each side hears what the other said, in order and complete; only a size that
\* does not fit its two bytes is not taken, and it is answered with an error.
Fits(m) == IF m.kind = "resize" /\ ~IsSize(m.value) THEN Undecodable ELSE m

MessagesArrive ==
  /\ IsPrefix(heard.server, [i \in DOMAIN said.client |-> Fits(said.client[i])])
  /\ IsPrefix(heard.client, said.server)
  /\ Cardinality({i \in DOMAIN heard.server : heard.server[i] = Undecodable})
       = Cardinality({i \in DOMAIN said.server : said.server[i]= ErrorOf(<<"invalid">>)})
=============================================================================
