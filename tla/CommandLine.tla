---------------------------- MODULE CommandLine ----------------------------
(***************************************************************************)
(* From the arguments clap has parsed to what the program is asked to do:  *)
(* crates/terminald-cli/src/args.rs and args/credentials.rs, with          *)
(* Credential::new of terminald-server's auth.rs.                          *)
(*                                                                         *)
(* A text is a sequence of characters, an optional value a sequence of at  *)
(* most one.                                                               *)
(***************************************************************************)
EXTENDS Naturals, Sequences, SequencesExt

None    == <<>>
Some(x) == <<x>>

\* CredentialArgs: clap refuses the option and the file at once.
CredentialArgs == [from : {"nowhere", "option", "file"}, text : Seq(STRING)]

Colon == ":"  CR == "CR"  LF == "LF"  NUL == "NUL"

\* Credential::new and to_basic_pair: the first colon ends the user's name, and
\* what is encoded is the two with a colon between them.
IsCredential(text) == Contains(text, Colon)

NewCredential(text) ==
  LET colon == SelectInSeq(text, LAMBDA c : c = Colon)
  IN  [username |-> SubSeq(text, 1, colon - 1),
       password |-> SubSeq(text, colon + 1, Len(text))]

BasicPair(c) == c.username \o <<Colon>> \o c.password

-----------------------------------------------------------------------------
\* One line ending is removed from the file, and only one.
Line(text) == IF IsSuffix(<<CR, LF>>, text) THEN SubSeq(text, 1, Len(text) - 2)
              ELSE IF IsSuffix(<<LF>>, text) THEN Front(text) ELSE text

\* (mutant) The file as it stands.
ValueWhole(arg) == arg.text

Value(arg) == IF arg.from = "file" THEN Line(arg.text) ELSE arg.text

\* CredentialArgs::resolve fails, or gives a credential, or none.
Unresolved(arg) ==
  \/ arg.from = "file" /\ \E c \in {CR, LF, NUL} : Contains(Line(arg.text), c)
  \/ arg.from # "nowhere" /\ ~IsCredential(Value(arg))

Resolve(arg) == IF arg.from = "nowhere" THEN None ELSE Some(NewCredential(Value(arg)))

-----------------------------------------------------------------------------
(* Cli::into_mode.  The arguments before the subcommand, "top", count only   *)
(* when there is none; "own" are those of the subcommand.  A server's        *)
(* arguments are [auth, socket, command], a client's [auth, connect].        *)

FailedMode == [mode |-> "failed"]

ServerMode(a) ==
  IF a.command = <<>> \/ Unresolved(a.auth) THEN FailedMode
  ELSE [mode |-> "server", auth |-> Resolve(a.auth), socket |-> a.socket, command |-> a.command]

ClientMode(a) ==
  IF Unresolved(a.auth) THEN FailedMode
  ELSE [mode |-> "client", auth |-> Resolve(a.auth), connect |-> a.connect]

IntoMode(args) ==
  CASE args.subcommand = "server"  -> ServerMode(args.own)
    [] args.subcommand = "client"  -> ClientMode(args.own)
    [] args.subcommand = "version" -> [mode |-> "version"]
    [] args.subcommand = "none"    -> ServerMode(args.top)
=============================================================================
