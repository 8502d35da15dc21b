---------------------------- MODULE HttpDispatch ----------------------------
(***************************************************************************)
(* What the server answers to a request: crates/terminald-server/src/      *)
(* routes.rs (dispatch), auth.rs and assets.rs; and which URLs the page    *)
(* (frontend/src/terminal/urls.ts) and the command-line client             *)
(* (client.rs, resolve_ws_url) derive from theirs.                         *)
(*                                                                         *)
(* A path is the sequence of what stands between its slashes: "/" is       *)
(* <<"">>, "/a" is <<"a">> and "/a/" is <<"a", "">>.                       *)
(***************************************************************************)
EXTENDS CommandLine

CONSTANTS Names,     \* what may stand between two slashes
          Ext,       \* those with a dot in them, and what follows the last
          AssetsTail \* those that end in "assets"

Index == "index.html"

\* The names the program has of its own; those of its files are what they look like.
ASSUME NamesAssumption ==
  /\ {"", "ws", "auth", "check", "assets", "terminald.js", "terminald.css"} \subseteq Names
  /\ {Index, "terminald.js", "terminald.css"} \subseteq DOMAIN Ext /\ "" \notin DOMAIN Ext
  /\ Ext[Index] = "html" /\ Ext["terminald.js"] = "javascript" /\ Ext["terminald.css"] = "css"
  /\ "assets" \in AssetsTail

-----------------------------------------------------------------------------
(* auth.rs.  The encoding is base64, which keeps different pairs apart.      *)

Basic(c) == [scheme |-> "Basic", encoded |-> BasicPair(c)]

\* AuthConfig::validate_headers: header is the optional Authorization header.
Authorized(auth, header) ==
  \/ auth = None
  \/ header # None /\ header[1] = Basic(auth[1])

-----------------------------------------------------------------------------
(* assets.rs. *)

LeadingSlashes(path) ==
  LET named == {i \in DOMAIN path : path[i] # ""}
  IN  IF named = {} THEN Len(path) ELSE CHOOSE i \in 0 .. Len(path) :
        i + 1 \in named /\ \A j \in named : i < j

\* asset_relative_path: without an extension it is the page, and otherwise what
\* follows the first "assets/" anywhere in the path, if there is one.
RelativePath(path) ==
  LET p    == SubSeq(path, LeadingSlashes(path) + 1, Len(path))
      dirs == {i \in 1 .. Len(p) - 1 : p[i] \in AssetsTail}
  IN  IF p = <<>> \/ Last(p) \notin DOMAIN Ext THEN <<Index>>
      ELSE IF dirs = {} THEN p
      ELSE <<"assets">> \o SubSeq(p, (CHOOSE i \in dirs : \A j \in dirs : i <= j) + 1, Len(p))

ContentType(path) ==
  LET name == Last(path) IN IF name \in DOMAIN Ext THEN Ext[name] ELSE "octet-stream"

\* AssetConfig::load, with assets = [external, embedded, useDist]: the files of
\* the directory given, if any, then the built frontend, then the fallback.
Candidates(assets, path) ==
  {p \in {<<"dist">> \o path, path} : p \in assets.embedded /\ (assets.useDist \/ p[1] # "dist")}

File(assets, path) ==
  IF path \in assets.external THEN Some(<<"external">> \o path)
  ELSE LET found == Candidates(assets, path)
       IN  IF found = {} THEN None
           ELSE IF <<"dist">> \o path \in found THEN Some(<<"dist">> \o path) ELSE Some(path)

-----------------------------------------------------------------------------
(* routes.rs.  A request is [method, path, header, upgrade].                 *)

Response(code, file, type, location) ==
  [code |-> code, file |-> file, type |-> type, location |-> location]
Status(code)     == Response(code, None, "none", None)
RedirectTo(path) == Response(308, None, "none", Some(path))

IsAuthCheck(path) == IsSuffix(<<"auth", "check">>, path)
IsWs(path)        == Last(path) = "ws"

\* is_extensionless_without_trailing_slash
NeedsSlash(r) == r.method = "GET" /\ Last(r.path) # "" /\ Last(r.path) \notin DOMAIN Ext

Asset(assets, path) ==
  LET relative == RelativePath(path)
      file     == File(assets, relative)
  IN  IF Contains(path, "..") \/ file = None THEN Status(404)
      ELSE Response(200, file, ContentType(relative), None)

\* (mutant) Without the redirect.
DispatchUnslashed(s, r) ==
  IF ~Authorized(s.auth, r.header) THEN Status(401)
  ELSE IF IsAuthCheck(r.path) THEN Status(204)
  ELSE IF IsWs(r.path) THEN Status(IF r.upgrade THEN 101 ELSE 400)
  ELSE Asset(s.assets, r.path)

\* (mutant) A refusal without the challenge.
DispatchForbidding(s, r) ==
  IF ~Authorized(s.auth, r.header) THEN Status(403) ELSE DispatchUnslashed(s, r)

\* Every route asks for the credential first, whatever else it would answer.
Dispatch(s, r) ==
  IF ~Authorized(s.auth, r.header) THEN Status(401)
  ELSE CASE IsAuthCheck(r.path) -> Status(204)
         [] IsWs(r.path)        -> Status(IF r.upgrade THEN 101 ELSE 400)
         [] OTHER               -> IF NeedsSlash(r) THEN RedirectTo(Append(r.path, ""))
                                   ELSE Asset(s.assets, r.path)

-----------------------------------------------------------------------------
(* The URLs that are derived from the page's and from --connect's.           *)

\* A relative reference replaces what follows the last slash.
Relative(base, reference) == Front(base) \o reference
Slashed(path)             == IF Last(path) = "" THEN path ELSE Append(path, "")

WebSocketPath(path) == Relative(Slashed(path), <<"ws">>)
AuthCheckPath(path) == Relative(Slashed(path), <<"auth", "check">>)

\* resolve_ws_url refuses other schemes.
WsScheme(scheme) == CASE scheme \in {"http", "ws"}   -> Some("ws")
                      [] scheme \in {"https", "wss"} -> Some("wss")
                      [] OTHER                       -> None
=============================================================================
