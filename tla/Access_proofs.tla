---------------------------- MODULE Access_proofs ----------------------------
(***************************************************************************)
(* Proofs about a visit, whatever the credentials, the paths, the names,   *)
(* the builds and the messages are: a server refuses exactly the requests  *)
(* that do not carry the credential that was meant for it; each side hears *)
(* what the other said; and a page that was shown gets what it needs       *)
(* wherever it is mounted.                                                 *)
(***************************************************************************)
EXTENDS Access, ByteStreams_proofs, FiniteSetTheorems

\* The least of a set of positions is one of them, and the first.
LEMMA FirstOf ==
  ASSUME NEW n \in Nat, NEW T, T \subseteq 1..n, T # {}
  PROVE  /\ (CHOOSE i \in T : \A j \in T : i <= j) \in T
         /\ \A j \in T : (CHOOSE i \in T : \A k \in T : i <= k) <= j
<1>1. T \in SUBSET Nat
  OBVIOUS
<1>2. \E i \in T : \A j \in T : i <= j
  BY <1>1, LeastNumber
<1> DEFINE least == CHOOSE i \in T : \A j \in T : i <= j
<1>3. least \in T /\ \A j \in T : least <= j
  BY <1>2
<1> QED
  BY <1>3

\* A sequence is its beginning, one element and its end.
LEMMA CutAt ==
  ASSUME NEW V, NEW s \in Seq(V), NEW k \in 1..Len(s)
  PROVE  /\ SubSeq(s, 1, k - 1) \in Seq(V)
         /\ SubSeq(s, 1, k - 1) \o <<s[k]>> \o SubSeq(s, k + 1, Len(s)) = s
<1>1. k - 1 \in Nat /\ k - 1 <= Len(s) /\ k \in Nat /\ k <= Len(s) /\ s[k] \in V
  OBVIOUS
<1>2. SubSeq(s, 1, k - 1) \in Seq(V)
  BY <1>1, SplitFacts
<1>3. /\ SubSeq(s, 1, k) \in Seq(V) /\ SubSeq(s, k + 1, Len(s)) \in Seq(V)
      /\ SubSeq(s, 1, k) \o SubSeq(s, k + 1, Len(s)) = s
  BY <1>1, SplitFacts
<1>4. SubSeq(s, 1, k) = SubSeq(s, 1, k - 1) \o <<s[k]>>
  OBVIOUS
<1> QED
  BY <1>2, <1>3, <1>4

-----------------------------------------------------------------------------
(* Credentials. *)

Texts == Seq(STRING)

\* The pair that is encoded is the text the credential was made of: with the first
\* colon for a separator, the password may have more.
LEMMA PairIsText ==
  ASSUME NEW text \in Texts, IsCredential(text)
  PROVE  BasicPair(NewCredential(text)) = text
<1> DEFINE T == {i \in 1..Len(text) : text[i] = Colon}
           k == CHOOSE i \in T : \A j \in T : i <= j
<1> HIDE DEF k, T
<1>1. Len(text) \in Nat /\ T \subseteq 1..Len(text) /\ T # {}
  BY DEF IsCredential, Contains, Texts, T
<1>2. k \in 1..Len(text) /\ text[k] = Colon
  <2>1. k \in T
    BY <1>1, FirstOf DEF k
  <2> QED
    BY <2>1 DEF T
<1>3. SelectInSeq(text, LAMBDA c : c = Colon) = k
  BY <1>1 DEF SelectInSeq, Min, k, T
<1>4. /\ NewCredential(text).username = SubSeq(text, 1, k - 1)
      /\ NewCredential(text).password = SubSeq(text, k + 1, Len(text))
  BY <1>3 DEF NewCredential
<1>5. SubSeq(text, 1, k - 1) \o <<text[k]>> \o SubSeq(text, k + 1, Len(text)) = text
  BY <1>2, CutAt DEF Texts
<1> QED
  BY <1>2, <1>4, <1>5, Zenon DEF BasicPair

\* What a text that ends in a line ending ends in.
LEMMA Endings ==
  ASSUME NEW text \in Texts
  PROVE  /\ IsSuffix(<<LF>>, text) => Len(text) >= 1 /\ text[Len(text)] = LF
         /\ IsSuffix(<<CR, LF>>, text) => /\ Len(text) >= 2 /\ text[Len(text)] = LF
                                          /\ text[Len(text) - 1] = CR
<1>1. Len(text) \in Nat
  BY DEF Texts
<1>2. Len(Reverse(text)) = Len(text) /\ Reverse(text) \in Seq(STRING)
  BY <1>1 DEF Reverse, Texts
<1>3. \A i \in 1..Len(text) : Reverse(text)[i] = text[(Len(text) - i) + 1]
  BY DEF Reverse
<1>4. ASSUME IsSuffix(<<LF>>, text) PROVE Len(text) >= 1 /\ text[Len(text)] = LF
  <2>1. Reverse(<<LF>>) = <<LF>>
    BY DEF Reverse
  <2>2. 1 <= Len(text) /\ SubSeq(<<LF>>, 1, 1) = SubSeq(Reverse(text), 1, 1)
    BY <1>2, <1>4, <2>1 DEF IsSuffix, IsPrefix
  <2>3. SubSeq(<<LF>>, 1, 1)[1] = LF /\ SubSeq(Reverse(text), 1, 1)[1] = Reverse(text)[1]
    BY <1>1, <1>2, <2>2
  <2> QED
    BY <1>1, <1>3, <2>2, <2>3
<1>5. ASSUME IsSuffix(<<CR, LF>>, text)
      PROVE  Len(text) >= 2 /\ text[Len(text)] = LF /\ text[Len(text) - 1] = CR
  <2>1. Reverse(<<CR, LF>>) = <<LF, CR>>
    BY DEF Reverse
  <2>2. 2 <= Len(text) /\ SubSeq(<<LF, CR>>, 1, 2) = SubSeq(Reverse(text), 1, 2)
    BY <1>2, <1>5, <2>1 DEF IsSuffix, IsPrefix
  <2>3. /\ SubSeq(<<LF, CR>>, 1, 2)[1] = LF /\ SubSeq(Reverse(text), 1, 2)[1] = Reverse(text)[1]
        /\ SubSeq(<<LF, CR>>, 1, 2)[2] = CR /\ SubSeq(Reverse(text), 1, 2)[2] = Reverse(text)[2]
    BY <1>1, <1>2, <2>2
  <2> QED
    BY <1>1, <1>3, <2>2, <2>3
<1> QED
  BY <1>4, <1>5

\* A text that lacks a character has none of it anywhere.
LEMMA Lacks ==
  ASSUME NEW text \in Texts, NEW c, ~Contains(text, c), NEW i \in 1..Len(text)
  PROVE  text[i] # c
BY DEF Contains

\* One line is left of a file when one line ending at most is taken off and what
\* is left has none: the line is what comes before the first.
LEMMA OneLine ==
  ASSUME NEW text \in Texts, \A c \in {CR, LF} : ~Contains(Line(text), c)
  PROVE  LET ends == {i \in DOMAIN text : text[i] \in {CR, LF}}
         IN  /\ Line(text) \in Texts
             /\ Line(text) = IF ends = {} THEN text
                  ELSE SubSeq(text, 1, (CHOOSE i \in ends : \A j \in ends : i <= j) - 1)
<1> DEFINE n == Len(text)
           ends == {i \in 1..n : text[i] \in {CR, LF}}
           first == CHOOSE i \in ends : \A j \in ends : i <= j
<1>1. n \in Nat /\ DOMAIN text = 1..n /\ ends \subseteq 1..n /\ text = SubSeq(text, 1, n)
  BY DEF Texts
<1> HIDE DEF n, ends, first
<1>e. \A i \in 1..n : i \in ends <=> text[i] \in {CR, LF}
  BY DEF ends
<1>l. n = Len(text)
  BY DEF n
<1>2. \E m \in 0..n : /\ Line(text) = SubSeq(text, 1, m) /\ m + 1 \in ends \cup {n + 1}
  <2>1. CASE IsSuffix(<<CR, LF>>, text)
    <3>1. n >= 2 /\ text[n - 1] = CR /\ Line(text) = SubSeq(text, 1, n - 2)
      BY <1>l, <2>1, Endings DEF Line
    <3>2. n - 1 \in ends /\ n - 2 \in 0..n /\ (n - 2) + 1 = n - 1
      BY <1>1, <1>e, <3>1
    <3> QED
      BY <3>1, <3>2
  <2>2. CASE ~IsSuffix(<<CR, LF>>, text) /\ IsSuffix(<<LF>>, text)
    <3>1. n >= 1 /\ text[n] = LF /\ Line(text) = SubSeq(text, 1, n - 1)
      BY <1>l, <2>2, Endings DEF Line, Front
    <3>2. n \in ends /\ n - 1 \in 0..n /\ (n - 1) + 1 = n
      BY <1>1, <1>e, <3>1
    <3> QED
      BY <3>1, <3>2
  <2>3. CASE ~IsSuffix(<<CR, LF>>, text) /\ ~IsSuffix(<<LF>>, text)
    BY <1>1, <2>3 DEF Line
  <2> QED
    BY <2>1, <2>2, <2>3
<1>3. PICK m \in 0..n : Line(text) = SubSeq(text, 1, m) /\ m + 1 \in ends \cup {n + 1}
  BY <1>2
<1>4. /\ Line(text) \in Texts /\ Len(Line(text)) = m
      /\ \A i \in 1..m : Line(text)[i] = text[i]
  <2>1. m \in Nat /\ m <= Len(text)
    BY <1>1, <1>3, <1>l
  <2> QED
    BY <1>3, <2>1, SplitFacts DEF Texts
<1>5. \A i \in 1..m : i \notin ends
  <2> SUFFICES ASSUME NEW i \in 1..m PROVE i \notin ends
    OBVIOUS
  <2>1. Line(text)[i] # CR /\ Line(text)[i] # LF
    BY <1>4, Lacks
  <2> QED
    BY <1>1, <1>3, <1>4, <1>e, <2>1
<1>6. CASE ends = {}
  BY <1>1, <1>3, <1>4, <1>6 DEF ends
<1>7. CASE ends # {}
  <2>1. first \in ends /\ \A j \in ends : first <= j
    BY <1>1, <1>7, FirstOf DEF first
  <2>2. first = m + 1
    BY <1>1, <1>3, <1>5, <2>1
  <2> QED
    BY <1>1, <1>3, <1>4, <1>7, <2>2, (m + 1) - 1 = m DEF first, ends
<1> QED
  BY <1>6, <1>7

\* An argument that resolves stands for what was meant, which is a credential.
LEMMA ResolvedIsMeant ==
  ASSUME NEW arg, arg \in CredentialArgs, ~Unresolved(arg), arg.from # "nowhere"
  PROVE  \E t \in Texts : /\ IsCredential(t) /\ Meant(arg) = Some(t)
                          /\ Resolve(arg) = Some(NewCredential(t))
<1>1. arg.text \in Texts /\ arg.from \in {"option", "file"}
  BY DEF CredentialArgs, Texts
<1>2. Value(arg) \in Texts /\ Meant(arg) = Some(Value(arg))
  <2>1. CASE arg.from = "option"
    BY <1>1, <2>1 DEF Value, Meant
  <2>2. CASE arg.from = "file"
    <3>1. \A c \in {CR, LF} : ~Contains(Line(arg.text), c)
      BY <2>2 DEF Unresolved
    <3> QED
      BY <1>1, <2>2, <3>1, OneLine DEF Value, Meant
  <2> QED
    BY <1>1, <2>1, <2>2
<1> QED
  BY <1>2 DEF Unresolved, Resolve

\* Different texts are different credentials on the wire.
LEMMA HeadersDiffer ==
  ASSUME NEW s \in Texts, NEW t \in Texts, IsCredential(s), IsCredential(t)
  PROVE  Basic(NewCredential(s)) = Basic(NewCredential(t)) <=> s = t
<1>1. /\ Basic(NewCredential(s)).encoded = s
      /\ Basic(NewCredential(t)).encoded = t
  BY PairIsText DEF Basic
<1> QED
  BY <1>1

-----------------------------------------------------------------------------
(* The two sides. *)

\* A side that has its credential from an argument has what it resolves to.
Holds(auth, arg) == arg \in CredentialArgs /\ ~Unresolved(arg) /\ auth = Resolve(arg)

\* Two such sides agree exactly when they were meant to.
LEMMA AgreeAsMeant ==
  ASSUME NEW auth, NEW own, NEW arg, NEW given1, Holds(auth, arg), Holds(own, given1)
  PROVE  Authorized(auth, Header(own)) <=> Meant(arg) \in {None, Meant(given1)}
<1>1. ASSUME NEW a, NEW g, Holds(a, g)
      PROVE  \/ Meant(g) = None /\ a = None
             \/ \E t \in Texts : IsCredential(t) /\ Meant(g) = <<t>> /\ a = <<NewCredential(t)>>
  BY <1>1, ResolvedIsMeant DEF Holds, Meant, Resolve, Some
<1>2. CASE auth = None /\ Meant(arg) = None
  BY <1>2 DEF Authorized
<1>3. ASSUME NEW s \in Texts, IsCredential(s), Meant(arg) = <<s>>, auth = <<NewCredential(s)>>
      PROVE  Authorized(auth, Header(own)) <=> Meant(arg) \in {None, Meant(given1)}
  <2>1. CASE own = None /\ Meant(given1) = None
    BY <1>3, <2>1 DEF Authorized, Header, None
  <2>2. ASSUME NEW t \in Texts, IsCredential(t), Meant(given1) = <<t>>,
               own = <<NewCredential(t)>>
        PROVE  Authorized(auth, Header(own)) <=> Meant(arg) \in {None, Meant(given1)}
    <3>1. Authorized(auth, Header(own)) <=> Basic(NewCredential(t)) = Basic(NewCredential(s))
      BY <1>3, <2>2 DEF Authorized, Header, None, Some
    <3>2. Meant(arg) \in {None, Meant(given1)} <=> s = t
      BY <1>3, <2>2 DEF None
    <3> QED
      BY <1>3, <2>2, <3>1, <3>2, HeadersDiffer
  <2> QED
    BY <1>1, <2>1, <2>2
<1> QED
  BY <1>1, <1>2, <1>3

\* What the command line makes of the credential.
LEMMA ModesHold ==
  ASSUME NEW args \in ServerArgs \cup ClientArgs, IntoMode(args).mode \in {"server", "client"}
  PROVE  Holds(IntoMode(args).auth, Arguments(args).auth)
<1>1. /\ args.subcommand \in {"server", "client", "version", "none"}
      /\ Arguments(args).auth \in CredentialArgs
  BY ArgumentsAssumption
<1>2. IntoMode(args) \in {ServerMode(Arguments(args)), ClientMode(Arguments(args)),
                          [mode |-> "version"]}
  BY <1>1 DEF IntoMode, Arguments
<1> QED
  BY <1>1, <1>2 DEF ServerMode, ClientMode, FailedMode, Holds
-----------------------------------------------------------------------------
(* The visit. *)

\* Both sides have the credential they were given, except a client that has failed
\* before it asked for anything; and there is no visit without a server.
Idle == request = None /\ reply = None

SidesKnown ==
  /\ server.mode = "server" => Holds(server.auth, given.server)
  /\ server.mode # "server" => stage = "start"
  /\ stage = "start" => Idle /\ client = NoClient /\ given.client = Nowhere
  /\ (Idle /\ stage = "failed") \/ Holds(client.auth, given.client)
  /\ given = [server |-> given.server, client |-> given.client]
  /\ client = [program |-> client.program, auth |-> client.auth, mount |-> client.mount]

\* A request carries the client's credential, whichever program made it.
HeaderKnown == request # None => request[1].header = Header(client.auth)

\* A reply of the server is for the credential the client still has.
ReplyKnown ==
  reply # None /\ IsPrefix(client.mount, reply[1].to.path) =>
    (reply[1].is.code = 401 <=> ~Authorized(server.auth, Header(client.auth)))

AdmissionInv == SidesKnown /\ HeaderKnown /\ ReplyKnown

\* The credential is looked at before anything else.
LEMMA RefusedFirst ==
  ASSUME NEW s, NEW r
  PROVE  Dispatch(s, r).code = 401 <=> ~Authorized(s.auth, r.header)
<1>1. /\ Status(401).code = 401 /\ Status(204).code # 401 /\ Status(101).code # 401
      /\ Status(400).code # 401 /\ Status(404).code # 401
      /\ \A f, t : Response(200, f, t, None).code # 401
  BY DEF Status, Response
<1> DEFINE slashed == Append(r.path, "")
<1> HIDE DEF slashed
<1>2. RedirectTo(slashed).code # 401
  BY DEF RedirectTo, Response
<1> QED
  <2>1. ~Authorized(s.auth, r.header) => Dispatch(s, r) = Status(401)
    BY Zenon DEF Dispatch
  <2>2. ASSUME NEW a, NEW q PROVE Asset(a, q).code # 401
    <3>1. \E f, t : Asset(a, q) \in {Status(404), Response(200, f, t, None)}
      BY DEF Asset
    <3> QED
      BY <1>1, <3>1
  <2>3. ASSUME Authorized(s.auth, r.header) PROVE Dispatch(s, r).code # 401
    <3>1. CASE IsAuthCheck(r.path) \/ IsWs(r.path)
      BY <1>1, <2>3, <3>1, ZenonT(30) DEF Dispatch
    <3>2. CASE ~IsAuthCheck(r.path) /\ ~IsWs(r.path)
      <4>1. Dispatch(s, r) = IF NeedsSlash(r) THEN RedirectTo(slashed) ELSE Asset(s.assets, r.path)
        BY <2>3, <3>2 DEF Dispatch, slashed
      <4> QED
        <5>1. CASE NeedsSlash(r)
          BY <1>2, <4>1, <5>1
        <5>2. CASE ~NeedsSlash(r)
          BY <2>2, <4>1, <5>2
        <5> QED
          BY <5>1, <5>2
    <3> QED
      BY <3>1, <3>2
  <2> QED
    BY <1>1, <2>1, <2>3

\* Every step keeps what is known of both sides; most leave it alone.
LEMMA AdmissionStep == AdmissionInv /\ [Next]_vars => AdmissionInv'
<1> SUFFICES ASSUME AdmissionInv, [Next]_vars PROVE AdmissionInv'
  OBVIOUS
<1> USE DEF AdmissionInv
<1>0. \A x : Some(x) # None /\ Some(x)[1] = x
  BY DEF Some, None
<1>q. ASSUME UNCHANGED <<server, client, given>>, reply' = reply \/ reply' = None,
             stage # "start", stage' # "start", stage # "failed",
             request' = request \/ request' = None \/ request'[1].header = Header(client.auth)
      PROVE  AdmissionInv'
  BY <1>q DEF SidesKnown, HeaderKnown, ReplyKnown, Idle
<1>1. ASSUME NEW args \in ServerArgs, NEW assets \in Builds, Serve(args, assets)
      PROVE  AdmissionInv'
  <2>1. /\ server = NoServer /\ stage = "start" /\ Idle
        /\ UNCHANGED <<client, request, reply, stage>>
    BY <1>1 DEF Serve, SidesKnown, NoServer
  <2>2. /\ given'.server = Arguments(args).auth /\ given'.client = given.client
        /\ given' = [server |-> given'.server, client |-> given'.client]
    BY <1>1 DEF Serve, SidesKnown
  <2>3. server'.mode = "server" => Holds(server'.auth, given'.server)
    <3>1. CASE server' = FailedMode
      BY <3>1 DEF FailedMode
    <3>2. CASE IntoMode(args).mode = "server" /\ server'.auth = IntoMode(args).auth
      <4>1. Holds(IntoMode(args).auth, Arguments(args).auth)
        BY <3>2, ModesHold
      <4> QED
        BY <2>2, <3>2, <4>1
    <3> QED
      BY <1>1, <3>1, <3>2 DEF Serve
  <2> QED
    BY <2>1, <2>2, <2>3 DEF SidesKnown, HeaderKnown, ReplyKnown, Idle
<1>2. CASE Answer
  <2>1. /\ UNCHANGED <<server, client, given, stage>> /\ request' = None /\ request # None
        /\ reply' = Some([to |-> request[1],
                          is |-> IF IsPrefix(client.mount, request[1].path)
                                 THEN Dispatch(server, request[1]) ELSE Status(404)])
    BY <1>2 DEF Answer
  <2>2. /\ reply'[1].to = request[1]
        /\ IsPrefix(client.mount, request[1].path) => reply'[1].is = Dispatch(server, request[1])
    BY <1>0, <2>1
  <2>3. request[1].header = Header(client.auth)
    BY <2>1 DEF HeaderKnown
  <2>4. Dispatch(server, request[1]).code = 401 <=> ~Authorized(server.auth, Header(client.auth))
    BY <2>3, RefusedFirst
  <2>5. stage # "start" /\ Holds(client.auth, given.client)
    BY <2>1 DEF SidesKnown, Idle
  <2>6. SidesKnown' /\ HeaderKnown'
    BY <2>1, <2>5 DEF SidesKnown, HeaderKnown, Idle
  <2>7. ReplyKnown'
    <3>1. client' = client /\ server' = server
      BY <2>1
    <3>2. IsPrefix(client.mount, request[1].path) => reply'[1].is.code = Dispatch(server, request[1]).code
      BY <2>2
    <3> QED
      BY <2>2, <2>4, <3>1, <3>2, ZenonT(30) DEF ReplyKnown
  <2> QED
    BY <2>6, <2>7
<1>3. ASSUME NEW args \in ClientArgs, RunClient(args) PROVE AdmissionInv'
  <2>1. /\ Idle /\ reply' = reply /\ server' = server /\ server.mode = "server"
        /\ given'.server = given.server /\ given'.client = Arguments(args).auth
        /\ given' = [server |-> given'.server, client |-> given'.client]
        /\ client' = [program |-> client'.program, auth |-> client'.auth, mount |-> client'.mount]
    BY <1>3 DEF RunClient, SidesKnown, NoClient
  <2>2. CASE stage' = "failed" /\ UNCHANGED request
    BY <2>1, <2>2 DEF SidesKnown, HeaderKnown, ReplyKnown, Idle
  <2>3. CASE /\ IntoMode(args).mode = "client" /\ stage' = "socket"
             /\ client'.auth = IntoMode(args).auth /\ request'[1].header = Header(client'.auth)
    <3>1. Holds(client'.auth, given'.client)
      BY <2>1, <2>3, ModesHold
    <3> QED
      BY <2>1, <2>3, <3>1 DEF SidesKnown, HeaderKnown, ReplyKnown, Idle
  <2> QED
    BY <1>0, <1>3, <2>2, <2>3 DEF RunClient, Ask, NoClient
<1>4. ASSUME NEW to \in Paths, Visit(to) PROVE AdmissionInv'
  <2>1. /\ Idle /\ UNCHANGED <<reply, server, given>> /\ server.mode = "server"
        /\ stage' = "visiting" /\ given.client = Nowhere
        /\ client' = [program |-> "browser", auth |-> None, mount |-> to.mount]
        /\ request'[1].header = Header(None)
    BY <1>0, <1>4 DEF Visit, SidesKnown, Ask
  <2>2. Holds(None, Nowhere)
    BY DEF Holds, Nowhere, CredentialArgs, Unresolved, Resolve
  <2> QED
    BY <2>1, <2>2 DEF SidesKnown, HeaderKnown, ReplyKnown, Idle
<1>5. ASSUME NEW c \in Typed, Challenged(c) PROVE AdmissionInv'
  <2>1. stage = "visiting" /\ server' = server /\ ~Idle
    BY <1>5 DEF Challenged, Replied, Idle
  <2>2. CASE /\ stage' = "failed" /\ UNCHANGED <<client, given, request, reply>>
    BY <2>1, <2>2 DEF SidesKnown, HeaderKnown, ReplyKnown, Idle
  <2>3. CASE /\ client' = [client EXCEPT !.auth = Some(NewCredential(c))]
             /\ given' = [given EXCEPT !.client = [from |-> "option", text |-> c]]
             /\ request'[1].header = Header(client'.auth) /\ reply' = None /\ stage' = stage
    <3>1. /\ given'.server = given.server /\ given'.client = [from |-> "option", text |-> c]
          /\ given' = [server |-> given'.server, client |-> given'.client]
          /\ client'.auth = Some(NewCredential(c))
          /\ client' = [program |-> client'.program, auth |-> client'.auth,
                        mount |-> client'.mount]
      BY <2>3 DEF SidesKnown
    <3>2. Holds(Some(NewCredential(c)), [from |-> "option", text |-> c])
      BY ArgumentsAssumption DEF Holds, CredentialArgs, Unresolved, Resolve, Value
    <3> QED
      BY <2>1, <2>3, <3>1, <3>2 DEF SidesKnown, HeaderKnown, ReplyKnown, Idle
  <2> QED
    BY <1>0, <1>5, <2>2, <2>3 DEF Challenged, Ask
<1>6. CASE FollowRedirect \/ \E name \in missing : LoadFile(name)
  <2>1. /\ UNCHANGED <<server, client, given>> /\ reply' \in {reply, None}
        /\ stage \in {"visiting", "page"} /\ stage' \in {"visiting", "loading"}
        /\ request'[1].header = Header(client.auth)
    <3>1. CASE FollowRedirect
      BY <1>0, <3>1 DEF FollowRedirect, Ask
    <3>2. ASSUME NEW name \in missing, LoadFile(name) 
          PROVE  /\ UNCHANGED <<server, client, given>> /\ reply' \in {reply, None}
                 /\ stage = "page" /\ stage' = "loading"
                 /\ request'[1].header = Header(client.auth)
      BY <1>0, <3>2 DEF LoadFile, Ask
    <3> QED
      BY <1>6, <3>1, <3>2
  <2> QED
    BY <1>q, <2>1
<1>7. CASE CheckAuth \/ OpenSocket
  BY <1>0, <1>7, <1>q DEF CheckAuth, OpenSocket, Ask
<1>8. CASE ShowPage \/ FileArrives \/ Opened
  BY <1>8, <1>q DEF ShowPage, FileArrives, Opened
<1>9. CASE (\E m \in ClientSays : ClientSpeaks(m)) \/ (\E m \in ServerSays : ServerSpeaks(m))
           \/ ServerHears \/ ClientHears
  BY <1>9, <1>q DEF ClientSpeaks, ServerSpeaks, ServerHears, ClientHears, visit
<1>10. CASE UNCHANGED vars
  BY <1>10 DEF vars, visit, SidesKnown, HeaderKnown, ReplyKnown, Idle
<1> QED
  BY <1>1, <1>2, <1>3, <1>4, <1>5, <1>6, <1>7, <1>8, <1>9, <1>10 DEF Next

\* What was known of both sides and of the request and the reply is always so.
THEOREM AdmissionInvariant == Spec => []AdmissionInv
<1>1. Init => AdmissionInv
  BY DEF Init, AdmissionInv, SidesKnown, HeaderKnown, ReplyKnown, Idle, NoServer, NoClient,
     Nowhere, Holds, CredentialArgs, Unresolved, Resolve
<1> QED
  BY <1>1, AdmissionStep, PTL DEF Spec

\* The server refuses exactly the requests without the credential that was meant for
\* it, for all credentials, paths and builds, and however each side was given its own.
THEOREM RefusesAsMeant == Spec => []Admission
<1>1. AdmissionInv => Admission
  <2> SUFFICES ASSUME AdmissionInv, reply # None, IsPrefix(client.mount, reply[1].to.path)
               PROVE  reply[1].is.code = 401 <=> Meant(given.server) \notin {None, Meant(given.client)}
    BY DEF Admission
  <2>1. Holds(server.auth, given.server) /\ Holds(client.auth, given.client)
    BY DEF AdmissionInv, SidesKnown, Idle
  <2>2. reply[1].is.code = 401 <=> ~Authorized(server.auth, Header(client.auth))
    BY DEF AdmissionInv, ReplyKnown
  <2> QED
    BY <2>1, <2>2, AgreeAsMeant
<1> QED
  BY <1>1, AdmissionInvariant, PTL

-----------------------------------------------------------------------------
(* Exit codes as text: two recursions, and that the second undoes the first. *)

\* The values of the first digits.
Values(f, ds, k) == f = [n \in 0..k |-> IF n = 0 THEN 0 ELSE 10 * f[n - 1] + ds[n]]

\* A recursion over the digits has a value at each of them: the function exists.
LEMMA ValuesExist ==
  ASSUME NEW ds, NEW k, ds \in Seq(Int), k \in 0..Len(ds)
  PROVE  \E f \in [0..k -> Int] : Values(f, ds, k)
<1> DEFINE T == {m \in Nat : m <= Len(ds) => \E f \in [0..m -> Int] : Values(f, ds, m)}
<1>1. 0 \in T
  <2>1. [n \in 0..0 |-> 0] \in [0..0 -> Int] /\ Values([n \in 0..0 |-> 0], ds, 0)
    BY DEF Values
  <2> QED
    BY <2>1
<1>2. ASSUME NEW m \in Nat, m \in T PROVE m + 1 \in T
  <2> SUFFICES ASSUME m + 1 <= Len(ds) PROVE \E f \in [0..(m+1) -> Int] : Values(f, ds, m + 1)
    OBVIOUS
  <2>1. PICK f \in [0..m -> Int] : Values(f, ds, m)
    BY <1>2
  <2> DEFINE g == [n \in 0..(m+1) |-> IF n = m + 1 THEN 10 * f[m] + ds[m + 1] ELSE f[n]]
  <2>2. ds[m + 1] \in Int
    OBVIOUS
  <2>3. g \in [0..(m+1) -> Int]
    BY <2>2
  <2>4. ASSUME NEW n \in 0..(m+1) PROVE g[n] = IF n = 0 THEN 0 ELSE 10 * g[n - 1] + ds[n]
    <3>1. n \in 0..m => f[n] = IF n = 0 THEN 0 ELSE 10 * f[n - 1] + ds[n]
      BY <2>1 DEF Values
    <3>2. CASE n = m + 1
      BY <3>2
    <3>3. CASE n \in 0..m
      BY <3>1, <3>3
    <3> QED
      BY <3>2, <3>3
  <2>5. Values(g, ds, m + 1)
    BY <2>4 DEF Values
  <2> QED
    BY <2>3, <2>5
<1>3. Nat \subseteq T
  <2> HIDE DEF T
  <2> QED
    BY <1>1, <1>2, NumberInduction
<1> QED
  BY <1>3

\* There is only one.
LEMMA ValuesAgree ==
  ASSUME NEW ds, NEW k, NEW f, NEW g, k \in Nat, Values(f, ds, k), Values(g, ds, k)
  PROVE  f = g
<1> DEFINE T == {m \in Nat : m <= k => f[m] = g[m]}
<1>0. /\ \A n \in 0..k : f[n] = IF n = 0 THEN 0 ELSE 10 * f[n - 1] + ds[n]
      /\ \A n \in 0..k : g[n] = IF n = 0 THEN 0 ELSE 10 * g[n - 1] + ds[n]
  BY DEF Values
<1>f. f = [n \in 0..k |-> f[n]] /\ g = [n \in 0..k |-> g[n]]
  BY DEF Values
<1>1. 0 \in T
  BY <1>0
<1>2. ASSUME NEW m \in Nat, m \in T PROVE m + 1 \in T
  <2> SUFFICES ASSUME m + 1 <= k PROVE f[m + 1] = g[m + 1]
    OBVIOUS
  <2>1. f[m] = g[m] /\ m + 1 \in 0..k /\ m + 1 # 0 /\ (m + 1) - 1 = m
    BY <1>2
  <2>2. /\ f[m + 1] = IF m + 1 = 0 THEN 0 ELSE 10 * f[(m + 1) - 1] + ds[m + 1]
        /\ g[m + 1] = IF m + 1 = 0 THEN 0 ELSE 10 * g[(m + 1) - 1] + ds[m + 1]
    BY <1>0, <2>1, Zenon
  <2> QED
    BY <2>1, <2>2
<1>3. Nat \subseteq T
  <2> HIDE DEF T
  <2> QED
    BY <1>1, <1>2, NumberInduction
<1>4. \A n \in 0..k : f[n] = g[n]
  BY <1>3
<1> QED
  BY <1>f, <1>4, Zenon

\* So Magnitude is what its recursion says.
LEMMA MagnitudeIs ==
  ASSUME NEW ds, NEW f, ds \in Seq(Int), Values(f, ds, Len(ds))
  PROVE  Magnitude(ds) = f[Len(ds)] /\ f \in [0..Len(ds) -> Int]
<1>0. Len(ds) \in Nat /\ Len(ds) \in 0..Len(ds)
  OBVIOUS
<1> DEFINE g == CHOOSE g : Values(g, ds, Len(ds))
<1>1. PICK h \in [0..Len(ds) -> Int] : Values(h, ds, Len(ds))
  BY <1>0, ValuesExist
<1>2. Values(g, ds, Len(ds))
  BY <1>1
<1>3. Magnitude(ds) = g[Len(ds)]
  BY DEF Magnitude, Values
<1> HIDE DEF g
<1>4. f = g /\ f = h
  BY <1>0, <1>1, <1>2, ValuesAgree
<1> QED
  BY <1>1, <1>3, <1>4

\* One more digit.
LEMMA MagnitudeAppend ==
  /\ Magnitude(<<>>) = 0
  /\ \A ds \in Seq(Int), d \in Int : /\ Magnitude(ds) \in Int
                                    /\ Magnitude(Append(ds, d)) = 10 * Magnitude(ds) + d
<1>1. Magnitude(<<>>) = 0
  <2>1. <<>> \in Seq(Int) /\ Len(<<>>) = 0 /\ 0 \in 0..Len(<<>>)
    OBVIOUS
  <2>2. PICK f \in [0..0 -> Int] : Values(f, <<>>, 0)
    BY <2>1, ValuesExist
  <2>3. Magnitude(<<>>) = f[0]
    BY <2>1, <2>2, MagnitudeIs
  <2> QED
    BY <2>2, <2>3 DEF Values
<1>2. ASSUME NEW ds \in Seq(Int), NEW d \in Int
      PROVE  Magnitude(ds) \in Int /\ Magnitude(Append(ds, d)) = 10 * Magnitude(ds) + d
  <2> DEFINE es == Append(ds, d)
             n  == Len(ds)
  <2>1. /\ es \in Seq(Int) /\ Len(es) = n + 1 /\ es[n + 1] = d /\ n \in Nat
        /\ \A i \in 1..n : ds[i] = es[i]
    BY QueueFacts
  <2>2. PICK g \in [0..(n+1) -> Int] : Values(g, es, n + 1)
    <3>1. n + 1 \in 0..Len(es)
      BY <2>1
    <3> HIDE DEF es, n
    <3> QED
      BY <2>1, <3>1, ValuesExist
  <2>3. Magnitude(es) = g[n + 1]
    BY <2>1, <2>2, MagnitudeIs
  <2> DEFINE f == [i \in 0..n |-> g[i]]
  <2>4. Values(f, ds, n)
    <3>1. \A i \in 0..(n+1) : g[i] = IF i = 0 THEN 0 ELSE 10 * g[i - 1] + es[i]
      BY <2>2 DEF Values
    <3>2. ASSUME NEW i \in 0..n PROVE f[i] = IF i = 0 THEN 0 ELSE 10 * f[i - 1] + ds[i]
      BY <2>1, <3>1
    <3> QED
      BY <3>2 DEF Values
  <2>5. Magnitude(ds) = f[n] /\ f[n] = g[n] /\ g[n] \in Int
    BY <2>1, <2>4, MagnitudeIs
  <2>6. g[n + 1] = 10 * g[n] + d
    BY <2>1, <2>2 DEF Values
  <2> QED
    BY <2>3, <2>5, <2>6
<1> QED
  BY <1>1, <1>2

-----------------------------------------------------------------------------
\* The digits of the numbers up to k.
Decimals(f, k) == f = [n \in 0..k |-> IF n < 10 THEN <<n>> ELSE Append(f[n \div 10], n % 10)]

\* What the recursion over a number rests on.
LEMMA TenthSmaller == \A n \in Nat : n >= 10 => /\ n \div 10 \in 0..(n - 1) /\ n % 10 \in 0..9
                                               /\ n = 10 * (n \div 10) + (n % 10)
OBVIOUS

\* The recursion of the digits has a function up to each number.
LEMMA DecimalsExist ==
  ASSUME NEW k, k \in Nat
  PROVE  \E f : Decimals(f, k)
<1> DEFINE T == {m \in Nat : \E f : Decimals(f, m)}
<1>1. 0 \in T
  <2>1. Decimals([n \in 0..0 |-> <<n>>], 0)
    BY DEF Decimals
  <2> QED
    BY <2>1
<1>2. ASSUME NEW m \in Nat, m \in T PROVE m + 1 \in T
  <2>1. PICK f : Decimals(f, m)
    BY <1>2
  <2> DEFINE last == IF m + 1 < 10 THEN <<m + 1>> ELSE Append(f[(m+1) \div 10], (m+1) % 10)
             g == [n \in 0..(m+1) |-> IF n = m + 1 THEN last ELSE f[n]]
  <2>2. ASSUME NEW n \in 0..(m+1)
        PROVE  g[n] = IF n < 10 THEN <<n>> ELSE Append(g[n \div 10], n % 10)
    <3>1. n \in Nat /\ (n >= 10 => n \div 10 \in 0..(n - 1))
      BY TenthSmaller
    <3>2. n >= 10 => g[n \div 10] = f[n \div 10]
      BY <3>1
    <3>3. CASE n = m + 1
      BY <3>2, <3>3
    <3>4. CASE n \in 0..m
      <4>1. f[n] = IF n < 10 THEN <<n>> ELSE Append(f[n \div 10], n % 10)
        BY <2>1, <3>4 DEF Decimals
      <4>2. g[n] = f[n]
        BY <3>4
      <4> QED
        BY <3>1, <3>2, <4>1, <4>2
    <3> QED
      BY <3>3, <3>4
  <2>3. Decimals(g, m + 1)
    <3> HIDE DEF g
    <3>1. g = [n \in 0..(m+1) |-> g[n]]
      BY DEF g
    <3> QED
      BY <2>2, <3>1, Zenon DEF Decimals
  <2> QED
    BY <2>3
<1>3. Nat \subseteq T
  <2> HIDE DEF T
  <2> QED
    BY <1>1, <1>2, NumberInduction
<1> QED
  BY <1>3

\* And two of them agree where both are defined.
LEMMA DecimalsAgree ==
  ASSUME NEW k, NEW l, NEW f, NEW g, k \in Nat, l \in Nat, Decimals(f, k), Decimals(g, l)
  PROVE  \A n \in Nat : n <= k /\ n <= l => f[n] = g[n]
<1> DEFINE T == {m \in Nat : \A n \in 0..m : n <= k /\ n <= l => f[n] = g[n]}
<1>0. /\ \A n \in 0..k : f[n] = IF n < 10 THEN <<n>> ELSE Append(f[n \div 10], n % 10)
      /\ \A n \in 0..l : g[n] = IF n < 10 THEN <<n>> ELSE Append(g[n \div 10], n % 10)
  BY DEF Decimals
<1>s. ASSUME NEW n \in Nat, n <= k, n <= l, n < 10 PROVE f[n] = g[n]
  <2>1. n \in 0..k /\ n \in 0..l
    BY <1>s
  <2>2. f[n] = <<n>> /\ g[n] = <<n>>
    BY <1>0, <1>s, <2>1, Zenon
  <2> QED
    BY <2>2
<1>1. 0 \in T
  BY <1>s
<1>2. ASSUME NEW m \in Nat, m \in T PROVE m + 1 \in T
  <2> SUFFICES ASSUME m + 1 <= k, m + 1 <= l PROVE f[m + 1] = g[m + 1]
    BY <1>2
  <2>1. m + 1 \in 0..k /\ m + 1 \in 0..l
    OBVIOUS
  <2>2. CASE m + 1 < 10
    BY <1>s, <2>2
  <2>3. CASE ~(m + 1 < 10)
    <3>1. (m + 1) \div 10 \in 0..m
      BY <2>3, TenthSmaller
    <3>2. f[(m + 1) \div 10] = g[(m + 1) \div 10]
      BY <1>2, <3>1
    <3>3. /\ f[m + 1] = Append(f[(m + 1) \div 10], (m + 1) % 10)
          /\ g[m + 1] = Append(g[(m + 1) \div 10], (m + 1) % 10)
      BY <1>0, <2>1, <2>3, Zenon
    <3> QED
      BY <3>2, <3>3, Zenon
  <2> QED
    BY <2>2, <2>3
<1>3. Nat \subseteq T
  <2> HIDE DEF T
  <2> QED
    BY <1>1, <1>2, NumberInduction
<1> QED
  BY <1>3

\* So Digits is what its recursion says.
LEMMA DigitsSteps ==
  \A n \in Nat : Digits[n] = IF n < 10 THEN <<n>> ELSE Append(Digits[n \div 10], n % 10)
<1> DEFINE D == [n \in Nat |-> (CHOOSE u : Decimals(u, n))[n]]
<1>1. ASSUME NEW n \in Nat
      PROVE  D[n] = IF n < 10 THEN <<n>> ELSE Append(D[n \div 10], n % 10)
  <2> DEFINE f == CHOOSE u : Decimals(u, n)
             t == n \div 10
             g == CHOOSE u : Decimals(u, t)
  <2>0. t \in Nat /\ t <= n
    OBVIOUS
  <2>1. Decimals(f, n) /\ Decimals(g, t)
    BY <2>0, DecimalsExist
  <2>2. D[n] = f[n] /\ D[t] = g[t]
    BY <2>0
  <2> HIDE DEF f, g, D
  <2>3. f[t] = g[t]
    BY <2>0, <2>1, DecimalsAgree
  <2>4. f[n] = IF n < 10 THEN <<n>> ELSE Append(f[t], n % 10)
    <3>1. n \in 0..n
      OBVIOUS
    <3>2. \A i \in 0..n : f[i] = IF i < 10 THEN <<i>> ELSE Append(f[i \div 10], i % 10)
      BY <2>1 DEF Decimals
    <3> QED
      BY <3>1, <3>2, Zenon DEF t
  <2> QED
    BY <2>2, <2>3, <2>4
<1>2. D = [n \in Nat |-> IF n < 10 THEN <<n>> ELSE Append(D[n \div 10], n % 10)]
  <2>1. D = [n \in Nat |-> D[n]]
    OBVIOUS
  <2> HIDE DEF D
  <2> QED
    BY <1>1, <2>1, Zenon
<1> HIDE DEF D
<1>3. Digits = [n \in Nat |-> IF n < 10 THEN <<n>> ELSE Append(Digits[n \div 10], n % 10)]
  BY <1>2 DEF Digits
<1> HIDE DEF Digits
<1> QED
  BY <1>3

\* The digits of a number are digits, and have its value.
LEMMA DigitsValue ==
  \A n \in Nat : /\ Digits[n] \in Seq(0..9) /\ Digits[n] # <<>> /\ Magnitude(Digits[n]) = n
<1> HIDE DEF Digits
<1> DEFINE Good(n) == /\ Digits[n] \in Seq(0..9) /\ Digits[n] # <<>> /\ Magnitude(Digits[n]) = n
           T == {m \in Nat : \A n \in 0..m : Good(n)}
<1>1. ASSUME NEW n \in 0..9 PROVE Good(n)
  <2>1. Digits[n] = <<n>> /\ <<n>> \in Seq(0..9) /\ <<n>> # <<>>
    <3>1. n \in Nat /\ n < 10
      OBVIOUS
    <3>2. Digits[n] = <<n>>
      BY <3>1, DigitsSteps, Zenon
    <3> QED
      BY <3>2
  <2>2. <<n>> = Append(<<>>, n) /\ <<>> \in Seq(Int) /\ n \in Int
    OBVIOUS
  <2>3. Magnitude(Append(<<>>, n)) = 10 * Magnitude(<<>>) + n
    BY <2>2, MagnitudeAppend
  <2> QED
    BY <2>1, <2>2, <2>3, MagnitudeAppend
<1>2. ASSUME NEW n \in Nat, n >= 10, Good(n \div 10) PROVE Good(n)
  <2> DEFINE ds == Digits[n \div 10]
             d  == n % 10
  <2>1. Digits[n] = Append(ds, d) /\ d \in 0..9 /\ n = 10 * (n \div 10) + d
    <3>1. ~(n < 10) /\ d \in 0..9 /\ n = 10 * (n \div 10) + d
      BY <1>2, TenthSmaller
    <3> QED
      BY <3>1, DigitsSteps, Zenon
  <2>2. ds \in Seq(0..9) /\ Magnitude(ds) = n \div 10
    BY <1>2
  <2> HIDE DEF ds, d
  <2>3. ds \in Seq(Int) /\ d \in Int
    BY <2>1, <2>2, SMTT(30)
  <2>4. Magnitude(Append(ds, d)) = 10 * Magnitude(ds) + d
    BY <2>3, MagnitudeAppend
  <2>5. Append(ds, d) \in Seq(0..9) /\ Append(ds, d) # <<>>
    BY <2>1, <2>2, AppendProperties
  <2> QED
    BY <2>1, <2>2, <2>4, <2>5
<1>3. 0 \in T
  BY <1>1, SMTT(30)
<1>4. ASSUME NEW m \in Nat, m \in T PROVE m + 1 \in T
  <2>1. Good(m + 1)
    <3>1. CASE m + 1 < 10
      <4>1. m + 1 \in 0..9
        BY <3>1
      <4> HIDE DEF Good
      <4> QED
        BY <1>1, <4>1
    <3>2. CASE ~(m + 1 < 10)
      <4>1. (m + 1) \div 10 \in 0..m
        BY <3>2, TenthSmaller
      <4>2. m + 1 \in Nat /\ m + 1 >= 10 /\ Good((m + 1) \div 10)
        BY <1>4, <3>2, <4>1
      <4> HIDE DEF Good
      <4> QED
        BY <1>2, <4>2
    <3> QED
      BY <3>1, <3>2
  <2> HIDE DEF Good
  <2>2. \A n \in 0..(m + 1) : n \in 0..m \/ n = m + 1
    OBVIOUS
  <2> QED
    BY <1>4, <2>1, <2>2
<1>5. Nat \subseteq T
  <2> HIDE DEF T
  <2> QED
    BY <1>3, <1>4, NumberInduction
<1> HIDE DEF Good
<1>6. \A n \in Nat : Good(n)
  BY <1>5
<1> QED
  BY <1>6 DEF Good

\* An exit code is read back from its text.
LEMMA CodeRoundTrip == \A n \in Int : Number(ToText(n)) = n
<1> HIDE DEF Digits
<1>1. ASSUME NEW n \in Nat PROVE Number(ToText(n)) = n
  <2>1. Digits[n][1] # Minus /\ Digits[n] # <<>> /\ Magnitude(Digits[n]) = n
    BY DigitsValue DEF Minus
  <2> QED
    BY <2>1 DEF ToText, Number
<1>2. ASSUME NEW n \in Int, n < 0 PROVE Number(ToText(n)) = n
  <2> DEFINE ds == Digits[-n]
  <2>1. -n \in Nat /\ ds \in Seq(0..9) /\ Magnitude(ds) = -n
    BY <1>2, DigitsValue
  <2>2. ToText(n) = <<Minus>> \o ds
    BY <1>2 DEF ToText
  <2> HIDE DEF ds
  <2>3. (<<Minus>> \o ds)[1] = Minus /\ <<Minus>> \o ds # <<>> /\ Tail(<<Minus>> \o ds) = ds
    BY <2>1
  <2> QED
    BY <1>2, <2>1, <2>2, <2>3, -(-n) = n, Zenon DEF Number
<1> QED
  BY <1>1, <1>2

-----------------------------------------------------------------------------
(* Messages. *)

AllMessages == ServerSays \cup {ErrorOf(<<"invalid">>)}

\* What a frame is taken apart into.
LEMMA Framed ==
  ASSUME NEW S, NEW q, NEW p, q \in Seq(S)
  PROVE  /\ (<<p>> \o q)[1] = p /\ Tail(<<p>> \o q) = q /\ <<p>> \o q # <<>>
<1> DEFINE U == S \cup {p}
<1>1. <<p>> \in Seq(U) /\ q \in Seq(U) /\ Len(<<p>>) = 1 /\ <<p>>[1] = p
  OBVIOUS
<1> HIDE DEF U
<1>2. /\ <<p>> \o q \in Seq(U) /\ Len(<<p>> \o q) = 1 + Len(q)
      /\ \A i \in 1..(1 + Len(q)) : (<<p>> \o q)[i] = IF i <= 1 THEN <<p>>[i] ELSE q[i - 1]
  BY <1>1, ConcatProperties
<1> DEFINE w == <<p>> \o q
<1> HIDE DEF w
<1>3. /\ w \in Seq(U) /\ Len(w) = 1 + Len(q) /\ Len(q) \in Nat /\ w[1] = p
      /\ \A i \in 1..Len(q) : w[i + 1] = q[i]
  BY <1>1, <1>2 DEF w
<1>4. w # <<>>
  BY <1>3
<1>5. Tail(w) = q
  <2>1. Tail(w) \in Seq(U) /\ Len(Tail(w)) = Len(q)
    BY <1>3, <1>4
  <2>2. \A i \in 1..Len(q) : Tail(w)[i] = q[i]
    BY <1>3, <1>4
  <2> QED
    BY <1>1, <2>1, <2>2, SeqEqual
<1> QED
  BY <1>3, <1>4, <1>5 DEF w

\* A server hears what a client said, but for a size that does not fit.
LEMMA ClientRoundTrip ==
  ASSUME NEW m, m \in ClientSays
  PROVE  /\ ClientDecode(ClientEncode(m)) = Fits(m) /\ ClientEncode(m) # <<>>
         /\ ClientEncode(m)[1] \in 0..4
<1>1. CASE m \in [kind : {"input"}, value : Seq(Nat)]
  <2>1. m.kind = "input" /\ m.value \in Seq(Nat) /\ m = [kind |-> "input", value |-> m.value]
    BY <1>1
  <2>2. ClientEncode(m) = <<1>> \o m.value
    BY <2>1 DEF ClientEncode, Prefix
  <2>3. /\ ClientEncode(m)[1] = 1 /\ Tail(ClientEncode(m)) = m.value /\ ClientEncode(m) # <<>>
    BY <2>1, <2>2, Framed
  <2>4. ClientDecode(ClientEncode(m)) = Input(m.value)
    <3> DEFINE f == ClientEncode(m)
    <3>1. Prefix.input = 1 /\ Prefix.resize = 0 /\ 0 # 1
      BY DEF Prefix
    <3> HIDE DEF f
    <3>2. f # <<>> /\ f[1] = Prefix.input /\ f[1] # Prefix.resize
      BY <2>3, <3>1 DEF f
    <3>3. ClientDecode(f) = Input(Tail(f))
      BY <3>2 DEF ClientDecode
    <3> QED
      BY <2>3, <3>3 DEF f
  <2> QED
    BY <2>1, <2>3, <2>4 DEF Fits, Input
<1>2. CASE m \in [kind : {"resize"}, value : Seq([cols : Nat, rows : Nat])]
  <2>1. /\ m.kind = "resize" /\ m.value \in Seq([cols : Nat, rows : Nat])
        /\ m = [kind |-> "resize", value |-> m.value]
    BY <1>2
  <2>2. ClientEncode(m) = <<0>> \o m.value
    BY <2>1 DEF ClientEncode, Prefix
  <2>3. /\ ClientEncode(m)[1] = 0 /\ Tail(ClientEncode(m)) = m.value /\ ClientEncode(m) # <<>>
    BY <2>1, <2>2, Framed, SMTT(30)
  <2>4. ClientDecode(ClientEncode(m)) = IF IsSize(m.value) THEN [kind |-> "resize", value |-> m.value]
                                        ELSE Undecodable
    <3> DEFINE f == ClientEncode(m)
    <3>1. Prefix.input = 1 /\ Prefix.resize = 0 /\ 0 # 1
      BY DEF Prefix
    <3> HIDE DEF f
    <3>2. f # <<>> /\ f[1] = Prefix.resize /\ f[1] # Prefix.input
      BY <2>3, <3>1 DEF f
    <3>3. ClientDecode(f) = IF IsSize(Tail(f)) THEN [kind |-> "resize", value |-> Tail(f)]
                            ELSE Undecodable
      BY <3>2 DEF ClientDecode
    <3> QED
      BY <2>3, <3>3 DEF f
  <2> QED
    BY <2>1, <2>3, <2>4 DEF Fits
<1> QED
  BY <1>1, <1>2, MessagesAssumption

\* Both programs read what the server wrote.
LEMMA ServerRoundTrip ==
  ASSUME NEW m, NEW program, m \in AllMessages
  PROVE  /\ ServerDecode(ServerEncode(m), program) = m
         /\ ServerEncode(m)[1] \in 0..4
<1> DEFINE text == IF m.kind = "exited" THEN ToText(m.value) ELSE m.value
<1>1. /\ m.kind \in {"output", "error", "exited"}
      /\ m = [kind |-> m.kind, value |-> m.value]
      /\ m.kind = "exited" => m.value \in -(I32Max + 1) .. I32Max
      /\ m.kind # "exited" => \E S : m.value \in Seq(S)
  <2>1. CASE m = ErrorOf(<<"invalid">>)
    <3>1. m = [kind |-> "error", value |-> <<"invalid">>] /\ <<"invalid">> \in Seq({"invalid"})
      BY <2>1 DEF ErrorOf
    <3> QED
      BY <3>1
  <2>2. CASE m \in [kind : {"output"}, value : Seq(Nat)]
    BY <2>2
  <2>3. CASE m \in [kind : {"error"}, value : Seq(STRING)]
    BY <2>3
  <2>4. CASE m \in [kind : {"exited"}, value : -(I32Max + 1) .. I32Max]
    BY <2>4
  <2> QED
    BY <2>1, <2>2, <2>3, <2>4, MessagesAssumption DEF AllMessages
<1>2. \E S : text \in Seq(S)
  <2>1. CASE m.kind = "exited"
    <3>1. m.value \in Int /\ (m.value >= 0 => m.value \in Nat) /\ (m.value < 0 => -m.value \in Nat)
      BY <1>1, <2>1, FrameAssumption
    <3>2. ToText(m.value) \in Seq(Int)
      <4>1. CASE m.value >= 0
        BY <3>1, <4>1, DigitsValue, SMTT(30) DEF ToText
      <4>2. CASE m.value < 0
        <5>1. Digits[-m.value] \in Seq(Int) /\ <<Minus>> \in Seq(Int)
          BY <3>1, <4>2, DigitsValue DEF Minus
        <5> QED
          BY <4>2, <5>1, ConcatProperties DEF ToText
      <4> QED
        BY <3>1, <4>1, <4>2
    <3> QED
      BY <2>1, <3>2
  <2> QED
    BY <1>1, <2>1
<1>3. PICK S : text \in Seq(S)
  BY <1>2
<1> DEFINE f == ServerEncode(m)
<1>4. f = <<Prefix[m.kind]>> \o text
  BY DEF ServerEncode
<1>5. f[1] = Prefix[m.kind] /\ Tail(f) = text
  <2> HIDE DEF text, f
  <2> QED
    BY <1>3, <1>4, Framed
<1>6. f[1] \in 0..4 /\ (CHOOSE k \in DOMAIN Prefix : Prefix[k] = f[1]) = m.kind
  <2> HIDE DEF f
  <2> QED
    BY <1>1, <1>5 DEF Prefix
<1>7. ServerDecode(f, program) = m
  <2> HIDE DEF f
  <2>1. CASE m.kind # "exited"
    BY <1>1, <1>5, <1>6, <2>1 DEF ServerDecode
  <2>2. CASE m.kind = "exited"
    <3>1. Number(Tail(f)) = m.value
      <4>1. m.value \in Int
        BY <1>1, <2>2, FrameAssumption
      <4> QED
        BY <1>5, <2>2, <4>1, CodeRoundTrip
    <3> QED
      BY <1>1, <1>6, <2>2, <3>1 DEF ServerDecode, ExitedWith
  <2> QED
    BY <2>1, <2>2
<1> QED
  BY <1>6, <1>7

-----------------------------------------------------------------------------
\* One direction of the connection: of what was said, s, each message was heard as
\* what "as" makes of it, or is on its way as the frame "enc" makes of it.
Heard(h, w, s, as, enc) ==
  /\ Len(s) = Len(h) + Len(w)
  /\ \A i \in 1..Len(h) : h[i] = as[s[i]]
  /\ \A j \in 1..Len(w) : w[j] = enc[s[Len(h) + j]]

\* A message that is sent is on its way.
LEMMA SendKeepsHeard ==
  ASSUME NEW M, NEW A, NEW B, NEW h, NEW w, NEW s, NEW as, NEW enc, NEW m,
         s \in Seq(M), h \in Seq(A), w \in Seq(B), as \in [M -> A], enc \in [M -> B], m \in M,
         Heard(h, w, s, as, enc)
  PROVE  Heard(h, Append(w, enc[m]), Append(s, m), as, enc)
<1> DEFINE v == Append(w, enc[m])
           t == Append(s, m)
<1>1. /\ Len(h) \in Nat /\ Len(w) \in Nat /\ Len(s) = Len(h) + Len(w) /\ Len(s) \in Nat
      /\ enc[m] \in B
  BY DEF Heard
<1>2. Len(v) = Len(w) + 1 /\ v[Len(w) + 1] = enc[m] /\ \A j \in 1..Len(w) : v[j] = w[j]
  BY <1>1, AppendProperties
<1>3. Len(t) = Len(s) + 1 /\ t[Len(s) + 1] = m /\ \A i \in 1..Len(s) : t[i] = s[i]
  BY <1>1, AppendProperties
<1> HIDE DEF v, t
<1>4. ASSUME NEW i \in 1..Len(h) PROVE h[i] = as[t[i]]
  <2>1. i \in 1..Len(s)
    BY <1>1
  <2>2. h[i] = as[s[i]]
    BY Zenon DEF Heard
  <2> QED
    BY <1>3, <2>1, <2>2
<1>5. ASSUME NEW j \in 1..Len(v) PROVE v[j] = enc[t[Len(h) + j]]
  <2>1. CASE j \in 1..Len(w)
    <3>1. Len(h) + j \in 1..Len(s) /\ w[j] = enc[s[Len(h) + j]]
      BY <1>1, <2>1 DEF Heard
    <3> QED
      BY <1>2, <1>3, <2>1, <3>1
  <2>2. CASE j = Len(w) + 1
    BY <1>1, <1>2, <1>3, <2>2
  <2> QED
    BY <1>1, <1>2, <2>1, <2>2
<1>6. Len(t) = Len(h) + Len(v)
  BY <1>1, <1>2, <1>3
<1>7. Heard(h, v, t, as, enc)
  BY <1>4, <1>5, <1>6, Zenon DEF Heard
<1> QED
  BY <1>7 DEF v, t

\* The oldest message on its way is heard.
LEMMA HearKeepsHeard ==
  ASSUME NEW M, NEW A, NEW B, NEW h, NEW w, NEW s, NEW as, NEW enc,
         s \in Seq(M), h \in Seq(A), w \in Seq(B), as \in [M -> A], enc \in [M -> B],
         Heard(h, w, s, as, enc), w # <<>>
  PROVE  \E m \in M : Head(w) = enc[m] /\ Heard(Append(h, as[m]), Tail(w), s, as, enc)
<1> DEFINE m == s[Len(h) + 1]
           g == Append(h, as[m])
           v == Tail(w)
<1>1. /\ Len(w) # 0 /\ Len(h) \in Nat /\ Len(w) \in Nat /\ Len(s) = Len(h) + Len(w)
      /\ Len(s) \in Nat
  BY DEF Heard
<1>2. m \in M /\ as[m] \in A
  <2>1. Len(h) + 1 \in 1..Len(s)
    BY <1>1
  <2>2. m \in M
    BY <2>1, ElementOfSeq
  <2> QED
    BY <2>2
<1>3. Len(g) = Len(h) + 1 /\ g[Len(h) + 1] = as[m] /\ \A i \in 1..Len(h) : g[i] = h[i]
  <2> DEFINE e == as[m]
  <2>1. e \in A
    BY <1>2
  <2> HIDE DEF m, e
  <2>2. /\ Len(Append(h, e)) = Len(h) + 1 /\ Append(h, e)[Len(h) + 1] = e
        /\ \A i \in 1..Len(h) : Append(h, e)[i] = h[i]
    BY <1>1, <2>1, AppendProperties
  <2> QED
    BY <2>2 DEF e
<1>4. /\ Len(v) = Len(w) - 1 /\ Head(w) = w[1]
      /\ \A j \in 1..(Len(w) - 1) : v[j] = w[j + 1]
  BY <1>1, HeadTailProperties
<1> HIDE DEF g, v
<1>5. Head(w) = enc[m]
  <2>1. 1 \in 1..Len(w)
    BY <1>1
  <2>2. w[1] = enc[s[Len(h) + 1]]
    BY <2>1 DEF Heard
  <2> QED
    BY <1>4, <2>2
<1>6. ASSUME NEW i \in 1..Len(g) PROVE g[i] = as[s[i]]
  <2>1. CASE i \in 1..Len(h)
    BY <1>3, <2>1 DEF Heard
  <2>2. CASE i = Len(h) + 1
    BY <1>3, <2>2
  <2>3. i \in 1..Len(h) \/ i = Len(h) + 1
    BY <1>1, <1>3
  <2> QED
    BY <2>1, <2>2, <2>3
<1>7. ASSUME NEW j \in 1..Len(v) PROVE v[j] = enc[s[Len(g) + j]]
  <2>1. j + 1 \in 1..Len(w) /\ j \in 1..(Len(w) - 1) /\ Len(h) + (j + 1) = Len(g) + j
    BY <1>1, <1>3, <1>4
  <2>2. w[j + 1] = enc[s[Len(h) + (j + 1)]]
    BY <2>1 DEF Heard
  <2> QED
    BY <1>4, <2>1, <2>2
<1>8. Len(s) = Len(g) + Len(v)
  BY <1>1, <1>3, <1>4
<1>9. Heard(g, v, s, as, enc)
  BY <1>6, <1>7, <1>8 DEF Heard
<1> QED
  BY <1>2, <1>5, <1>9 DEF g, v

\* What was heard is the beginning of what was said.
LEMMA HeardIsPrefix ==
  ASSUME NEW M, NEW A, NEW h, NEW w, NEW s, NEW as, NEW enc,
         s \in Seq(M), h \in Seq(A), as \in [M -> A], Len(w) \in Nat, Heard(h, w, s, as, enc)
  PROVE  IsPrefix(h, [i \in DOMAIN s |-> as[s[i]]])
<1> DEFINE t == [i \in DOMAIN s |-> as[s[i]]]
<1>1. DOMAIN s = 1..Len(s) /\ Len(h) \in Nat /\ Len(s) \in Nat /\ Len(h) <= Len(s)
  BY DEF Heard
<1>2. t \in Seq(A) /\ Len(t) = Len(s) /\ \A i \in 1..Len(s) : t[i] = as[s[i]]
  <2>1. ASSUME NEW i \in 1..Len(s) PROVE as[s[i]] \in A
    <3>1. s[i] \in M
      BY ElementOfSeq
    <3> QED
      BY <3>1
  <2>2. t = [i \in 1..Len(s) |-> as[s[i]]]
    BY <1>1
  <2> HIDE DEF t
  <2>3. t \in [1 .. Len(s) -> A]
    BY <2>1, <2>2, Zenon
  <2>4. \A i \in 1..Len(s) : t[i] = as[s[i]]
    BY <2>2, Zenon
  <2>5. t \in Seq(A) /\ Len(t) = Len(s)
    BY <1>1, <2>3
  <2> QED
    BY <2>4, <2>5
<1> HIDE DEF t
<1>3. /\ SubSeq(h, 1, Len(h)) \in Seq(A) /\ Len(SubSeq(h, 1, Len(h))) = Len(h)
      /\ \A i \in 1..Len(h) : SubSeq(h, 1, Len(h))[i] = h[i]
  BY <1>1
<1>4. /\ SubSeq(t, 1, Len(h)) \in Seq(A) /\ Len(SubSeq(t, 1, Len(h))) = Len(h)
      /\ \A i \in 1..Len(h) : SubSeq(t, 1, Len(h))[i] = t[i]
  BY <1>1, <1>2
<1>5. ASSUME NEW i \in 1..Len(h) PROVE h[i] = t[i]
  <2>1. i \in 1..Len(s)
    BY <1>1
  <2>2. h[i] = as[s[i]]
    BY Zenon DEF Heard
  <2> QED
    BY <1>2, <2>1, <2>2
<1>6. SubSeq(h, 1, Len(h)) = SubSeq(t, 1, Len(h))
  BY <1>3, <1>4, <1>5, SeqEqual
<1> QED
  BY <1>1, <1>2, <1>6 DEF IsPrefix, t

\* How often x is in s.
Places(s, x) == {i \in DOMAIN s : s[i] = x}

\* One more element may be at one more place.
LEMMA PlacesAppend ==
  ASSUME NEW S, NEW s, NEW e, NEW x, s \in Seq(S), e \in S
  PROVE  /\ IsFiniteSet(Places(s, x)) /\ Cardinality(Places(s, x)) \in Nat
         /\ Cardinality(Places(Append(s, e), x))
              = IF e = x THEN Cardinality(Places(s, x)) + 1 ELSE Cardinality(Places(s, x))
<1>1. Len(s) \in Nat /\ DOMAIN s = 1..Len(s)
  OBVIOUS
<1>2. IsFiniteSet(Places(s, x))
  <2>1. IsFiniteSet(1..Len(s))
    BY <1>1, FS_Interval
  <2>2. Places(s, x) \in SUBSET (1..Len(s))
    BY <1>1 DEF Places
  <2> QED
    BY <2>1, <2>2, FS_Subset
<1>3. Places(Append(s, e), x) = IF e = x THEN Places(s, x) \cup {Len(s) + 1} ELSE Places(s, x)
  <2> DEFINE t == Append(s, e)
  <2>1. /\ DOMAIN t = 1..(Len(s) + 1) /\ t[Len(s) + 1] = e
        /\ \A i \in 1..Len(s) : t[i] = s[i]
    OBVIOUS
  <2> HIDE DEF t
  <2>2. \A i \in 1..(Len(s) + 1) : i \in 1..Len(s) \/ i = Len(s) + 1
    BY <1>1
  <2>3. \A i : i \in Places(t, x) <=> i \in Places(s, x) \/ (e = x /\ i = Len(s) + 1)
    BY <1>1, <2>1, <2>2 DEF Places
  <2> QED
    BY <2>3 DEF t
<1>4. Len(s) + 1 \notin Places(s, x)
  BY <1>1 DEF Places
<1> QED
  BY <1>2, <1>3, <1>4, FS_AddElement, FS_CardinalityType
-----------------------------------------------------------------------------
(* Both directions of the connection. *)

\* What is made of a message and how it is framed, in each direction.
Taking  == [m \in ClientSays |-> Fits(m)]
Asking  == [m \in ClientSays |-> ClientEncode(m)]
Showing == [m \in AllMessages |-> m]
Telling == [m \in AllMessages |-> ServerEncode(m)]

Taken == {Fits(m) : m \in ClientSays}
Asked == {ClientEncode(m) : m \in ClientSays}
Told  == {ServerEncode(m) : m \in AllMessages}

Refusal == ErrorOf(<<"invalid">>)

\* The codings as functions, as Heard takes them.
LEMMA Codings ==
  /\ Taking \in [ClientSays -> Taken] /\ Asking \in [ClientSays -> Asked]
  /\ Showing \in [AllMessages -> AllMessages] /\ Telling \in [AllMessages -> Told]
  /\ \A m \in ClientSays : Taking[m] = Fits(m) /\ Asking[m] = ClientEncode(m)
  /\ \A m \in AllMessages : Showing[m] = m /\ Telling[m] = ServerEncode(m)
  /\ Refusal \in AllMessages /\ ServerSays \subseteq AllMessages
  BY DEF Taking, Taken, Asking, Asked, Showing, Telling, Told, AllMessages, Refusal

ServerGets ==
  /\ said.client \in Seq(ClientSays) /\ heard.server \in Seq(Taken) /\ toServer \in Seq(Asked)
  /\ Heard(heard.server, toServer, said.client, Taking, Asking)

ClientGets ==
  /\ said.server \in Seq(AllMessages) /\ heard.client \in Seq(AllMessages)
  /\ toClient \in Seq(Told)
  /\ Heard(heard.client, toClient, said.server, Showing, Telling)

\* Every message that could not be taken has been answered, and nothing else has.
RefusalsCount ==
  Cardinality(Places(heard.server, Undecodable)) = Cardinality(Places(said.server, Refusal))

TwoSided ==
  /\ said = [server |-> said.server, client |-> said.client]
  /\ heard = [server |-> heard.server, client |-> heard.client]

MessagesInv == TwoSided /\ ServerGets /\ ClientGets /\ RefusalsCount

\* A server's own texts are not the one of a refusal.
LEMMA OwnTexts == \A m \in ServerSays : m # Refusal
  BY MessagesAssumption DEF Refusal, ErrorOf

\* A message of the client joins those on their way to the server.
LEMMA ClientSpeaksStep ==
  ASSUME NEW m \in ClientSays, MessagesInv, ClientSpeaks(m)
  PROVE  MessagesInv'
<1>1. /\ said'.client = Append(said.client, m) /\ said'.server = said.server
      /\ said' = [server |-> said'.server, client |-> said'.client]
      /\ heard' = heard /\ toClient' = toClient /\ toServer' = Append(toServer, ClientEncode(m))
  BY DEF ClientSpeaks, MessagesInv, TwoSided
<1>2. toServer' = Append(toServer, Asking[m]) /\ Asking[m] \in Asked
  BY <1>1, Codings
<1>3. Heard(heard.server, Append(toServer, Asking[m]), Append(said.client, m), Taking, Asking)
  BY Codings, SendKeepsHeard DEF MessagesInv, ServerGets
<1>4. /\ Append(toServer, Asking[m]) \in Seq(Asked)
      /\ Append(said.client, m) \in Seq(ClientSays)
  BY <1>2, AppendProperties DEF MessagesInv, ServerGets
<1>5. ServerGets'
  BY <1>1, <1>2, <1>3, <1>4, Zenon DEF ServerGets, MessagesInv
<1>6. ClientGets' /\ RefusalsCount'
  BY <1>1 DEF ClientGets, RefusalsCount, MessagesInv
<1> QED
  BY <1>1, <1>5, <1>6 DEF MessagesInv, TwoSided

\* What the server says, of itself or to refuse, reaches the connection.
LEMMA SayKeepsClientGets ==
  ASSUME NEW m \in AllMessages, ClientGets,
         said'.server = Append(said.server, m),
         toClient' = Append(toClient, ServerEncode(m)), heard'.client = heard.client
  PROVE  ClientGets'
<1>1. toClient' = Append(toClient, Telling[m]) /\ Telling[m] \in Told
  BY Codings
<1>2. Heard(heard.client, Append(toClient, Telling[m]), Append(said.server, m), Showing, Telling)
  BY Codings, SendKeepsHeard DEF ClientGets
<1>3. /\ Append(toClient, Telling[m]) \in Seq(Told)
      /\ Append(said.server, m) \in Seq(AllMessages)
  BY <1>1, AppendProperties DEF ClientGets
<1> QED
  BY <1>1, <1>2, <1>3, Zenon DEF ClientGets

\* A message of the server joins those on their way to the client.
LEMMA ServerSpeaksStep ==
  ASSUME NEW m \in ServerSays, MessagesInv, ServerSpeaks(m)
  PROVE  MessagesInv'
<1>1. /\ said'.server = Append(said.server, m) /\ said'.client = said.client
      /\ said' = [server |-> said'.server, client |-> said'.client]
      /\ heard' = heard /\ toServer' = toServer /\ toClient' = Append(toClient, ServerEncode(m))
  BY DEF ServerSpeaks, MessagesInv, TwoSided
<1>2. m \in AllMessages /\ m # Refusal
  BY Codings, OwnTexts
<1>3. ClientGets'
  BY <1>1, <1>2, SayKeepsClientGets DEF MessagesInv
<1>4. RefusalsCount'
  <2>1. Cardinality(Places(Append(said.server, m), Refusal)) = Cardinality(Places(said.server, Refusal))
    BY <1>2, PlacesAppend DEF MessagesInv, ClientGets
  <2> QED
    BY <1>1, <2>1, Zenon DEF RefusalsCount, MessagesInv
<1>5. ServerGets'
  BY <1>1 DEF ServerGets, MessagesInv
<1> QED
  BY <1>1, <1>3, <1>4, <1>5 DEF MessagesInv, TwoSided

\* What the server cannot take it answers, which is a message of its own.
LEMMA ServerHearsStep ==
  ASSUME MessagesInv, ServerHears
  PROVE  MessagesInv'
<1> DEFINE d == ClientDecode(Head(toServer))
<1>1. /\ heard'.server = Append(heard.server, d) /\ heard'.client = heard.client
      /\ heard' = [server |-> heard'.server, client |-> heard'.client]
      /\ toServer' = Tail(toServer) /\ toServer # <<>>
  BY DEF ServerHears, MessagesInv, TwoSided
<1>2. PICK m \in ClientSays :
        /\ Head(toServer) = Asking[m]
        /\ Heard(Append(heard.server, Taking[m]), Tail(toServer), said.client, Taking, Asking)
  <2>1. /\ said.client \in Seq(ClientSays) /\ heard.server \in Seq(Taken) /\ toServer \in Seq(Asked)
        /\ Taking \in [ClientSays -> Taken] /\ Asking \in [ClientSays -> Asked]
        /\ Heard(heard.server, toServer, said.client, Taking, Asking) /\ toServer # <<>>
    BY <1>1, Codings DEF MessagesInv, ServerGets
  <2>2. \E m \in ClientSays :
          /\ Head(toServer) = Asking[m]
          /\ Heard(Append(heard.server, Taking[m]), Tail(toServer), said.client, Taking, Asking)
    BY <2>1, HearKeepsHeard, ZenonT(30)
  <2> QED
    BY <2>2, Zenon
<1>3. d = Taking[m] /\ d \in Taken
  BY <1>2, Codings, ClientRoundTrip
<1>4. d = Undecodable => /\ toClient' = Append(toClient, ServerEncode(Refusal))
                         /\ said'.server = Append(said.server, Refusal)
                         /\ said'.client = said.client
                         /\ said' = [server |-> said'.server, client |-> said'.client]
  BY DEF ServerHears, Refusal, MessagesInv, TwoSided
<1>5. d # Undecodable => said' = said /\ toClient' = toClient
  BY DEF ServerHears
<1> HIDE DEF d
<1>6. said'.client = said.client /\ TwoSided'
  BY <1>1, <1>4, <1>5 DEF MessagesInv, TwoSided
<1>7. ServerGets'
  <2>1. Tail(toServer) \in Seq(Asked) /\ Append(heard.server, d) \in Seq(Taken)
    BY <1>1, <1>3, AppendProperties, HeadTailProperties DEF MessagesInv, ServerGets
  <2> QED
    BY <1>1, <1>2, <1>3, <1>6, <2>1, Zenon DEF ServerGets, MessagesInv
<1>8. /\ Cardinality(Places(heard.server, Undecodable)) \in Nat
      /\ Cardinality(Places(Append(heard.server, d), Undecodable))
           = IF d = Undecodable THEN Cardinality(Places(heard.server, Undecodable)) + 1
             ELSE Cardinality(Places(heard.server, Undecodable))
  BY <1>3, PlacesAppend DEF MessagesInv, ServerGets
<1>9. CASE d = Undecodable
  <2>1. ClientGets'
    BY <1>1, <1>4, <1>9, Codings, SayKeepsClientGets DEF MessagesInv
  <2>2. Cardinality(Places(Append(said.server, Refusal), Refusal))
          = Cardinality(Places(said.server, Refusal)) + 1
    BY Codings, PlacesAppend DEF MessagesInv, ClientGets
  <2>3. /\ Cardinality(Places(heard'.server, Undecodable))
             = Cardinality(Places(heard.server, Undecodable)) + 1
        /\ Cardinality(Places(said'.server, Refusal)) = Cardinality(Places(said.server, Refusal)) + 1
    BY <1>1, <1>4, <1>8, <1>9, <2>2, Zenon
  <2>4. RefusalsCount'
    BY <2>3, Zenon DEF RefusalsCount, MessagesInv
  <2> QED
    BY <1>6, <1>7, <2>1, <2>4 DEF MessagesInv
<1>10. CASE d # Undecodable
  <2>1. ClientGets'
    BY <1>1, <1>5, <1>10 DEF MessagesInv, ClientGets
  <2>2. RefusalsCount'
    BY <1>1, <1>5, <1>8, <1>10, Zenon DEF MessagesInv, RefusalsCount
  <2> QED
    BY <1>6, <1>7, <2>1, <2>2 DEF MessagesInv
<1> QED
  BY <1>9, <1>10

\* The client takes the oldest message.
LEMMA ClientHearsStep ==
  ASSUME MessagesInv, ClientHears
  PROVE  MessagesInv'
<1> DEFINE d == ServerDecode(Head(toClient), client.program)
<1>1. /\ heard'.client = Append(heard.client, d) /\ heard'.server = heard.server
      /\ heard' = [server |-> heard'.server, client |-> heard'.client]
      /\ toClient' = Tail(toClient) /\ toClient # <<>> /\ said' = said /\ toServer' = toServer
  BY DEF ClientHears, MessagesInv, TwoSided
<1>2. PICK m \in AllMessages :
        /\ Head(toClient) = Telling[m]
        /\ Heard(Append(heard.client, Showing[m]), Tail(toClient), said.server, Showing, Telling)
  <2>1. /\ said.server \in Seq(AllMessages) /\ heard.client \in Seq(AllMessages) /\ toClient \in Seq(Told)
        /\ Showing \in [AllMessages -> AllMessages] /\ Telling \in [AllMessages -> Told]
        /\ Heard(heard.client, toClient, said.server, Showing, Telling) /\ toClient # <<>>
    BY <1>1, Codings DEF MessagesInv, ClientGets
  <2>2. \E m \in AllMessages :
          /\ Head(toClient) = Telling[m]
          /\ Heard(Append(heard.client, Showing[m]), Tail(toClient), said.server, Showing, Telling)
    BY <2>1, HearKeepsHeard, ZenonT(30)
  <2> QED
    BY <2>2, Zenon
<1>3. d = Showing[m] /\ d \in AllMessages
  BY <1>2, Codings, ServerRoundTrip
<1> HIDE DEF d
<1>4. Tail(toClient) \in Seq(Told) /\ Append(heard.client, d) \in Seq(AllMessages)
  BY <1>1, <1>3, AppendProperties, HeadTailProperties DEF MessagesInv, ClientGets
<1>5. ClientGets'
  BY <1>1, <1>2, <1>3, <1>4, Zenon DEF ClientGets, MessagesInv
<1>6. ServerGets' /\ RefusalsCount' /\ TwoSided'
  BY <1>1 DEF MessagesInv, ServerGets, RefusalsCount, TwoSided
<1> QED
  BY <1>5, <1>6 DEF MessagesInv

\* Every step keeps what is known of the messages.
LEMMA MessagesStep == MessagesInv /\ [Next]_vars => MessagesInv'
<1> SUFFICES ASSUME MessagesInv, [Next]_vars PROVE MessagesInv'
  OBVIOUS
<1>0. ASSUME UNCHANGED wires PROVE MessagesInv'
  BY <1>0 DEF wires, MessagesInv, TwoSided, ServerGets, ClientGets, RefusalsCount
<1>1. CASE \/ \E args \in ServerArgs, assets \in Builds : Serve(args, assets)
           \/ \E args \in ClientArgs : RunClient(args)
           \/ \E to \in Paths : Visit(to)
           \/ \E c \in Typed : Challenged(c)
           \/ \E name \in missing : LoadFile(name)
           \/ Answer \/ FollowRedirect \/ ShowPage \/ FileArrives
           \/ CheckAuth \/ OpenSocket \/ Opened
  BY <1>0, <1>1 DEF Serve, RunClient, Visit, Challenged, LoadFile, Answer, FollowRedirect,
     ShowPage, FileArrives, CheckAuth, OpenSocket, Opened
<1>2. CASE \E m \in ClientSays : ClientSpeaks(m)
  BY <1>2, ClientSpeaksStep
<1>3. CASE \E m \in ServerSays : ServerSpeaks(m)
  BY <1>3, ServerSpeaksStep
<1>4. CASE ServerHears
  BY <1>4, ServerHearsStep
<1>5. CASE ClientHears
  BY <1>5, ClientHearsStep
<1>6. CASE UNCHANGED vars
  BY <1>0, <1>6 DEF vars
<1> QED
  BY <1>1, <1>2, <1>3, <1>4, <1>5, <1>6 DEF Next

\* What is on its way in each direction is what was said and not yet heard.
THEOREM MessagesInvariant == Spec => []MessagesInv
<1>1. Init => MessagesInv
  <2> SUFFICES ASSUME Init PROVE MessagesInv
    OBVIOUS
  <2>1. /\ said = [server |-> <<>>, client |-> <<>>] /\ heard = said
        /\ toServer = <<>> /\ toClient = <<>>
    BY DEF Init
  <2>2. \A as, enc : Heard(<<>>, <<>>, <<>>, as, enc)
    BY DEF Heard
  <2>3. \A x : Places(<<>>, x) = {}
    BY DEF Places
  <2>4. /\ said.client = <<>> /\ said.server = <<>> /\ heard.client = <<>> /\ heard.server = <<>>
        /\ TwoSided
    BY <2>1 DEF TwoSided
  <2>5. ServerGets /\ ClientGets
    BY <2>1, <2>2, <2>4 DEF ServerGets, ClientGets
  <2>6. RefusalsCount
    BY <2>3, <2>4, Zenon DEF RefusalsCount
  <2> QED
    BY <2>4, <2>5, <2>6 DEF MessagesInv
<1> QED
  BY <1>1, MessagesStep, PTL DEF Spec

\* Each side hears what the other said, in order and complete, whatever the texts, the
\* sizes and the exit codes; and each size that does not fit is answered with an error.
THEOREM MessagesReach == Spec => []MessagesArrive
<1>1. MessagesInv => MessagesArrive
  <2> SUFFICES ASSUME MessagesInv PROVE MessagesArrive
    OBVIOUS
  <2>1. IsPrefix(heard.server, [i \in DOMAIN said.client |-> Fits(said.client[i])])
    <3>1. Len(toServer) \in Nat
      BY DEF MessagesInv, ServerGets
    <3>2. IsPrefix(heard.server, [i \in DOMAIN said.client |-> Taking[said.client[i]]])
      BY <3>1, Codings, HeardIsPrefix DEF MessagesInv, ServerGets
    <3>3. \A i \in DOMAIN said.client : Taking[said.client[i]] = Fits(said.client[i])
      BY Codings DEF MessagesInv, ServerGets
    <3>4. [i \in DOMAIN said.client |-> Taking[said.client[i]]]
            = [i \in DOMAIN said.client |-> Fits(said.client[i])]
      BY <3>3, Zenon
    <3> QED
      BY <3>2, <3>4, Zenon
  <2>2. IsPrefix(heard.client, said.server)
    <3>1. Len(toClient) \in Nat /\ said.server \in Seq(AllMessages)
      BY DEF MessagesInv, ClientGets
    <3>2. IsPrefix(heard.client, [i \in DOMAIN said.server |-> Showing[said.server[i]]])
      BY <3>1, Codings, HeardIsPrefix, SMTT(30) DEF MessagesInv, ClientGets
    <3>3. \A i \in DOMAIN said.server : Showing[said.server[i]] = said.server[i]
      BY <3>1, Codings
    <3>4. [i \in DOMAIN said.server |-> Showing[said.server[i]]]
            = [i \in DOMAIN said.server |-> said.server[i]]
      BY <3>3, Zenon
    <3>5. [i \in DOMAIN said.server |-> said.server[i]] = said.server
      BY <3>1
    <3> QED
      BY <3>2, <3>4, <3>5, Zenon
  <2> QED
    BY <2>1, <2>2, Zenon DEF MessagesArrive, MessagesInv, RefusalsCount, Places, Refusal
<1> QED
  BY <1>1, MessagesInvariant, PTL
-----------------------------------------------------------------------------
(* Paths. *)

\* What a prefix is, element by element.
LEMMA PrefixPoints ==
  ASSUME NEW S, NEW a \in Seq(S), NEW b \in Seq(S)
  PROVE  IsPrefix(a, b) <=> Len(a) <= Len(b) /\ \A i \in 1..Len(a) : a[i] = b[i]
<1>1. Len(a) \in Nat /\ Len(b) \in Nat
  OBVIOUS
<1>2. SUFFICES ASSUME Len(a) <= Len(b)
               PROVE  SubSeq(a, 1, Len(a)) = SubSeq(b, 1, Len(a)) <=> \A i \in 1..Len(a) : a[i] = b[i]
  BY DEF IsPrefix
<1>3. /\ SubSeq(a, 1, Len(a)) \in Seq(S) /\ Len(SubSeq(a, 1, Len(a))) = Len(a)
      /\ \A i \in 1..Len(a) : SubSeq(a, 1, Len(a))[i] = a[i]
  BY <1>1
<1>4. /\ SubSeq(b, 1, Len(a)) \in Seq(S) /\ Len(SubSeq(b, 1, Len(a))) = Len(a)
      /\ \A i \in 1..Len(a) : SubSeq(b, 1, Len(a))[i] = b[i]
  BY <1>1, <1>2
<1>5. ASSUME \A i \in 1..Len(a) : a[i] = b[i]
      PROVE  SubSeq(a, 1, Len(a)) = SubSeq(b, 1, Len(a))
  BY <1>3, <1>4, <1>5, SeqEqual
<1>6. ASSUME SubSeq(a, 1, Len(a)) = SubSeq(b, 1, Len(a)), NEW i \in 1..Len(a)
      PROVE  a[i] = b[i]
  BY <1>3, <1>4, <1>6
<1> QED
  BY <1>5, <1>6

\* A path ends in two names.
LEMMA TwoLast ==
  ASSUME NEW S, NEW p \in Seq(S), NEW x, NEW y
  PROVE  IsSuffix(<<x, y>>, p) <=> Len(p) >= 2 /\ p[Len(p)] = y /\ p[Len(p) - 1] = x
<1> DEFINE T == S \cup {x, y}
           r == Reverse(p)
<1>1. Len(p) \in Nat /\ Reverse(<<x, y>>) = <<y, x>> /\ <<y, x>> \in Seq(T)
  BY DEF Reverse
<1>2. r \in Seq(T) /\ Len(r) = Len(p) /\ \A i \in 1..Len(p) : r[i] = p[(Len(p) - i) + 1]
  <2>1. \A i \in 1..Len(p) : p[(Len(p) - i) + 1] \in T
    BY <1>1
  <2>2. r = [i \in 1..Len(p) |-> p[(Len(p) - i) + 1]]
    BY DEF Reverse
  <2> HIDE DEF r, T
  <2>3. r \in [1..Len(p) -> T] /\ \A i \in 1..Len(p) : r[i] = p[(Len(p) - i) + 1]
    BY <2>1, <2>2, Zenon
  <2> QED
    BY <1>1, <2>3
<1> HIDE DEF r, T
<1>3. IsSuffix(<<x, y>>, p) <=> 2 <= Len(p) /\ \A i \in 1..2 : <<y, x>>[i] = r[i]
  <2> DEFINE q == <<y, x>>
  <2>1. Len(q) = 2 /\ q \in Seq(T) /\ Reverse(<<x, y>>) = q
    BY <1>1
  <2> HIDE DEF q
  <2>2. IsPrefix(q, r) <=> Len(q) <= Len(r) /\ \A i \in 1..Len(q) : q[i] = r[i]
    <3>1. q \in Seq(T) /\ r \in Seq(T)
      BY <1>2, <2>1
    <3> QED
      BY <3>1, PrefixPoints
  <2>3. IsSuffix(<<x, y>>, p) <=> IsPrefix(q, r)
    BY <2>1, Zenon DEF IsSuffix, r
  <2>4. IsSuffix(<<x, y>>, p) <=> 2 <= Len(p) /\ \A i \in 1..2 : q[i] = r[i]
    BY <1>2, <2>1, <2>2, <2>3
  <2> QED
    BY <2>4 DEF q
<1>4. (\A i \in 1..2 : <<y, x>>[i] = r[i]) <=> y = r[1] /\ x = r[2]
  OBVIOUS
<1> QED
  BY <1>1, <1>2, <1>3, <1>4

\* The same of a path without its last name.
LEMMA FrontFacts ==
  ASSUME NEW S, NEW s \in Seq(S), s # <<>>
  PROVE  /\ Front(s) \in Seq(S) /\ Len(Front(s)) = Len(s) - 1 /\ Len(s) \in Nat /\ Len(s) > 0
         /\ \A i \in 1..(Len(s) - 1) : Front(s)[i] = s[i]
<1> DEFINE n == Len(s) - 1
<1>1. Len(s) \in Nat /\ n \in Nat /\ n <= Len(s) /\ Len(s) > 0
  OBVIOUS
<1> HIDE DEF n
<1>2. /\ SubSeq(s, 1, n) \in Seq(S) /\ Len(SubSeq(s, 1, n)) = n
      /\ \A i \in 1..n : SubSeq(s, 1, n)[i] = s[i]
  BY <1>1
<1> QED
  BY <1>1, <1>2 DEF n, Front

\* The same of one sequence after another.
LEMMA ConcatPoints ==
  ASSUME NEW S, NEW a, NEW b, NEW c, a \in Seq(S), b \in Seq(S), c = a \o b
  PROVE  /\ c \in Seq(S) /\ Len(c) = Len(a) + Len(b)
         /\ \A i \in 1..Len(a) : c[i] = a[i]
         /\ \A i \in 1..Len(b) : c[Len(a) + i] = b[i]
<1>1. Len(a) \in Nat /\ Len(b) \in Nat
  OBVIOUS
<1>2. /\ c \in Seq(S) /\ Len(c) = Len(a) + Len(b)
      /\ \A i \in 1..(Len(a) + Len(b)) : c[i] = IF i <= Len(a) THEN a[i] ELSE b[i - Len(a)]
  BY ConcatProperties
<1>3. ASSUME NEW i \in 1..Len(a) PROVE c[i] = a[i]
  <2>1. i \in 1..(Len(a) + Len(b)) /\ i <= Len(a)
    BY <1>1
  <2>2. c[i] = IF i <= Len(a) THEN a[i] ELSE b[i - Len(a)]
    BY <1>2, <2>1, Zenon
  <2> QED
    BY <2>1, <2>2, Zenon
<1>4. ASSUME NEW i \in 1..Len(b) PROVE c[Len(a) + i] = b[i]
  <2> DEFINE k == Len(a) + i
  <2>1. k \in 1..(Len(a) + Len(b)) /\ ~(k <= Len(a)) /\ k - Len(a) = i
    BY <1>1
  <2> HIDE DEF k
  <2>2. c[k] = IF k <= Len(a) THEN a[k] ELSE b[k - Len(a)]
    BY <1>2, <2>1, Zenon
  <2>3. c[k] = b[i]
    BY <2>1, <2>2, Zenon
  <2> QED
    BY <2>3 DEF k
<1> QED
  BY <1>2, <1>3, <1>4

\* The same of what follows a position.
LEMMA RestPoints ==
  ASSUME NEW S, NEW s \in Seq(S), NEW k \in 0..Len(s)
  PROVE  /\ SubSeq(s, k + 1, Len(s)) \in Seq(S) /\ Len(SubSeq(s, k + 1, Len(s))) = Len(s) - k
         /\ \A i \in 1..(Len(s) - k) : SubSeq(s, k + 1, Len(s))[i] = s[k + i]
<1> DEFINE r == SubSeq(s, k + 1, Len(s))
<1>1. /\ Len(s) \in Nat /\ k \in Nat /\ k <= Len(s) /\ k + 1 \in Int /\ Len(s) \in Int
      /\ \A i \in (k + 1)..Len(s) : s[i] \in S
  OBVIOUS
<1>2. /\ r \in Seq(S) /\ Len(r) = IF k + 1 <= Len(s) THEN (Len(s) - (k + 1)) + 1 ELSE 0
      /\ \A i \in 1..((Len(s) - (k + 1)) + 1) : r[i] = s[((k + 1) + i) - 1]
  BY <1>1, SubSeqProperties
<1> HIDE DEF r
<1>3. Len(r) = Len(s) - k
  BY <1>1, <1>2
<1>4. ASSUME NEW i \in 1..(Len(s) - k) PROVE r[i] = s[k + i]
  <2>1. i \in 1..((Len(s) - (k + 1)) + 1) /\ ((k + 1) + i) - 1 = k + i
    BY <1>1
  <2>2. r[i] = s[((k + 1) + i) - 1]
    BY <1>2, <2>1, Zenon
  <2> QED
    BY <2>1, <2>2
<1> QED
  BY <1>2, <1>3, <1>4 DEF r

\* A relative reference has what stands before the last slash of its base.
LEMMA RelativePoints ==
  ASSUME NEW S, NEW base, NEW ref, NEW to, base \in Seq(S), ref \in Seq(S), base # <<>>,
         to = Relative(base, ref)
  PROVE  /\ to \in Seq(S) /\ Len(to) = (Len(base) - 1) + Len(ref)
         /\ \A i \in 1..(Len(base) - 1) : to[i] = base[i]
         /\ \A i \in 1..Len(ref) : to[(Len(base) - 1) + i] = ref[i]
<1> DEFINE front == Front(base)
<1>1. to = front \o ref
  BY DEF Relative
<1>2. /\ front \in Seq(S) /\ Len(front) = Len(base) - 1 /\ Len(base) - 1 \in Nat /\ Len(ref) \in Nat
      /\ \A i \in 1..(Len(base) - 1) : front[i] = base[i]
  BY FrontFacts
<1> HIDE DEF front
<1>3. /\ to \in Seq(S) /\ Len(to) = Len(front) + Len(ref)
      /\ \A i \in 1..Len(front) : to[i] = front[i]
      /\ \A i \in 1..Len(ref) : to[Len(front) + i] = ref[i]
  <2>1. front \in Seq(S) /\ ref \in Seq(S) /\ to = front \o ref
    BY <1>1, <1>2
  <2> QED
    BY <2>1, ConcatPoints
<1> QED
  BY <1>2, <1>3

\* A relative reference keeps its last name, and is below what its base is below.
LEMMA RelativeFacts ==
  ASSUME NEW S, NEW base, NEW ref, NEW mount, base \in Seq(S), ref \in Seq(S), mount \in Seq(S),
         base # <<>>, ref # <<>>, IsPrefix(mount, Front(base))
  PROVE  /\ Relative(base, ref) \in Seq(S) \ {<<>>} /\ Last(Relative(base, ref)) = Last(ref)
         /\ IsPrefix(mount, Relative(base, ref))
<1> DEFINE to == Relative(base, ref)
<1>1. /\ to \in Seq(S) /\ Len(to) = (Len(base) - 1) + Len(ref)
      /\ \A i \in 1..(Len(base) - 1) : to[i] = base[i]
      /\ \A i \in 1..Len(ref) : to[(Len(base) - 1) + i] = ref[i]
  BY RelativePoints
<1> HIDE DEF to
<1>2. /\ Front(base) \in Seq(S) /\ Len(Front(base)) = Len(base) - 1 /\ Len(base) - 1 \in Nat
      /\ \A i \in 1..(Len(base) - 1) : Front(base)[i] = base[i]
      /\ Len(ref) \in Nat /\ Len(ref) > 0 /\ Len(mount) \in Nat
  BY FrontFacts
<1>3. Last(to) = Last(ref) /\ to # <<>>
  <2>1. to[(Len(base) - 1) + Len(ref)] = ref[Len(ref)]
    BY <1>1, <1>2
  <2> QED
    BY <1>1, <1>2, <2>1 DEF Last
<1>4. Len(mount) <= Len(base) - 1 /\ \A i \in 1..Len(mount) : mount[i] = Front(base)[i]
  BY <1>2, PrefixPoints
<1>5. IsPrefix(mount, to)
  <2>1. \A i \in 1..Len(mount) : i \in 1..(Len(base) - 1)
    BY <1>2, <1>4
  <2>2. \A i \in 1..Len(mount) : mount[i] = to[i]
    BY <1>1, <1>2, <1>4, <2>1, Zenon
  <2>3. Len(mount) <= Len(to)
    BY <1>1, <1>2, <1>4
  <2> QED
    BY <1>1, <2>2, <2>3, PrefixPoints
<1> QED
  BY <1>1, <1>3, <1>5 DEF to

\* The name after a last slash.
Blank == ""

\* What is below a path without its last name is below it with a slash at its end.
LEMMA SlashedFacts ==
  ASSUME NEW S, NEW path, NEW mount, path \in Seq(S), mount \in Seq(S), Blank \in S, path # <<>>,
         IsPrefix(mount, Front(path))
  PROVE  Slashed(path) \in Seq(S) \ {<<>>} /\ IsPrefix(mount, Front(Slashed(path)))
<1>1. CASE Last(path) = Blank
  <2>1. Slashed(path) = path
    BY <1>1, Zenon DEF Slashed, Blank
  <2> QED
    BY <2>1
<1>2. CASE Last(path) # Blank
  <2> DEFINE long == Append(path, Blank)
  <2>1. /\ long \in Seq(S) /\ long # <<>> /\ Len(long) = Len(path) + 1 /\ Len(path) \in Nat
        /\ \A i \in 1..Len(path) : long[i] = path[i]
    <3>1. Len(path) \in Nat
      OBVIOUS
    <3> QED
      BY <3>1, AppendProperties
  <2>2. Front(long) = path
    <3> HIDE DEF long
    <3>1. Front(long) \in Seq(S) /\ Len(Front(long)) = Len(path)
      BY <2>1, FrontFacts
    <3>2. \A i \in 1..Len(path) : Front(long)[i] = path[i]
      BY <2>1, FrontFacts, SMTT(30)
    <3> QED
      BY <3>1, <3>2, SeqEqual
  <2>3. IsPrefix(mount, path)
    <3>1. /\ Front(path) \in Seq(S) /\ Len(Front(path)) = Len(path) - 1 /\ Len(path) \in Nat
          /\ \A i \in 1..(Len(path) - 1) : Front(path)[i] = path[i]
      BY FrontFacts
    <3>2. Len(mount) <= Len(path) - 1 /\ \A i \in 1..Len(mount) : mount[i] = Front(path)[i]
      BY <3>1, PrefixPoints
    <3>3. Len(mount) \in Nat /\ Len(mount) <= Len(path) /\ \A i \in 1..Len(mount) : mount[i] = path[i]
      BY <3>1, <3>2
    <3> QED
      BY <3>3, PrefixPoints
  <2>4. Slashed(path) = long
    BY <1>2, Zenon DEF Slashed, Blank
  <2> HIDE DEF long
  <2> QED
    BY <2>1, <2>2, <2>3, <2>4
<1> QED
  BY <1>1, <1>2

\* What is assumed of the program's own names.
LEMMA NamesKnown ==
  /\ {Blank, "ws", "auth", "check", "assets", "terminald.js", "terminald.css"} \subseteq Names
  /\ Index \in DOMAIN Ext /\ "terminald.js" \in DOMAIN Ext /\ "terminald.css" \in DOMAIN Ext
  /\ Blank \notin DOMAIN Ext /\ Blank # "assets" /\ "assets" \in AssetsTail
  /\ Ext[Index] = "html" /\ Ext["terminald.js"] = "javascript" /\ Ext["terminald.css"] = "css"
<1>1. Blank # "assets"
  BY DEF Blank
<1> QED
  BY <1>1, NamesAssumption, Zenon DEF Blank

\* What is looked up has no slashes before its first name.
Unslashed(path) == SubSeq(path, LeadingSlashes(path) + 1, Len(path))

\* It is the end of the path, from a name that is not empty on.
LEMMA UnslashedFacts ==
  ASSUME NEW path \in Seq(Names)
  PROVE  \E k \in 0..Len(path) :
           /\ Unslashed(path) \in Seq(Names) /\ Len(Unslashed(path)) = Len(path) - k
           /\ \A i \in 1..(Len(path) - k) : Unslashed(path)[i] = path[k + i]
           /\ \A j \in 1..Len(path) : path[j] # Blank => k < j
<1> DEFINE k == LeadingSlashes(path)
           named == {i \in DOMAIN path : path[i] # Blank}
<1>1. Len(path) \in Nat /\ DOMAIN path = 1..Len(path)
  OBVIOUS
<1>2. k = IF named = {} THEN Len(path)
          ELSE CHOOSE i \in 0..Len(path) : i + 1 \in named /\ \A j \in named : i < j
  BY Zenon DEF LeadingSlashes, Blank
<1> HIDE DEF k
<1>3. k \in 0..Len(path) /\ \A j \in named : k < j
  <2>1. CASE named = {}
    BY <1>1, <1>2, <2>1
  <2>2. CASE named # {}
    <3> DEFINE least == CHOOSE i \in named : \A j \in named : i <= j
    <3>1. named \subseteq 1..Len(path)
      BY <1>1
    <3> HIDE DEF named
    <3>2. least \in named /\ \A j \in named : least <= j
      BY <1>1, <2>2, <3>1, FirstOf
    <3> HIDE DEF least
    <3>3. /\ least - 1 \in 0..Len(path) /\ (least - 1) + 1 \in named
          /\ \A j \in named : least - 1 < j
      BY <1>1, <3>1, <3>2
    <3>4. \E i \in 0..Len(path) : i + 1 \in named /\ \A j \in named : i < j
      BY <3>3, Zenon
    <3> QED
      BY <1>2, <2>2, <3>4, Zenon
  <2> QED
    BY <2>1, <2>2
<1>4. \A j \in 1..Len(path) : path[j] # Blank => k < j
  BY <1>1, <1>3
<1> HIDE DEF named
<1>5. /\ SubSeq(path, k + 1, Len(path)) \in Seq(Names)
      /\ Len(SubSeq(path, k + 1, Len(path))) = Len(path) - k
      /\ \A i \in 1..(Len(path) - k) : SubSeq(path, k + 1, Len(path))[i] = path[k + i]
  BY <1>3, RestPoints, Zenon
<1>6. Unslashed(path) = SubSeq(path, k + 1, Len(path))
  BY DEF Unslashed, k
<1> QED
  BY <1>3, <1>4, <1>5, <1>6

\* asset_relative_path, in two parts: the page, or what follows the first directory.
Directories(p) == {i \in 1..(Len(p) - 1) : p[i] \in AssetsTail}
Shortened(p) ==
  <<"assets">> \o SubSeq(p, (CHOOSE i \in Directories(p) : \A j \in Directories(p) : i <= j) + 1, Len(p))

\* asset_relative_path, with names for its parts.
LEMMA RelativePathIs ==
  ASSUME NEW path
  PROVE  RelativePath(path) =
           IF Unslashed(path) = <<>> \/ Last(Unslashed(path)) \notin DOMAIN Ext THEN <<Index>>
           ELSE IF Directories(Unslashed(path)) = {} THEN Unslashed(path) ELSE Shortened(Unslashed(path))
  BY Zenon DEF RelativePath, Unslashed, Directories, Shortened

\* What follows the first directory still has its last name.
LEMMA ShortenedFacts ==
  ASSUME NEW p \in Seq(Names), Directories(p) # {}
  PROVE  \E d \in Directories(p) :
           /\ \A j \in Directories(p) : d <= j
           /\ Shortened(p) \in Seq(Names)
           /\ Len(Shortened(p)) = 1 + (Len(p) - d) /\ Shortened(p)[1] = "assets"
           /\ \A i \in 1..(Len(p) - d) : Shortened(p)[1 + i] = p[d + i]
<1> DEFINE d == CHOOSE i \in Directories(p) : \A j \in Directories(p) : i <= j
           rest == SubSeq(p, d + 1, Len(p))
           short == <<"assets">> \o rest
<1>1. Len(p) \in Nat /\ Directories(p) \subseteq 1..Len(p)
  BY DEF Directories
<1>2. d \in Directories(p) /\ \A j \in Directories(p) : d <= j
  BY <1>1, FirstOf
<1> HIDE DEF d
<1>3. d \in 1..Len(p)
  BY <1>1, <1>2
<1>4. /\ rest \in Seq(Names) /\ Len(rest) = Len(p) - d
      /\ \A i \in 1..(Len(p) - d) : rest[i] = p[d + i]
  <2>1. d \in 0..Len(p)
    BY <1>1, <1>3
  <2> QED
    BY <2>1, RestPoints, Zenon
<1> HIDE DEF rest
<1>5. <<"assets">> \in Seq(Names) /\ Len(<<"assets">>) = 1 /\ <<"assets">>[1] = "assets"
  BY NamesKnown
<1>6. /\ short \in Seq(Names) /\ Len(short) = 1 + (Len(p) - d) /\ short[1] = "assets"
      /\ \A i \in 1..(Len(p) - d) : short[1 + i] = rest[i]
  <2> DEFINE one == <<"assets">>
  <2>1. one \in Seq(Names) /\ Len(one) = 1 /\ one[1] = "assets" /\ short = one \o rest
    BY <1>5
  <2> HIDE DEF one, short
  <2>2. /\ short \in Seq(Names) /\ Len(short) = Len(one) + Len(rest)
        /\ \A i \in 1..Len(one) : short[i] = one[i]
        /\ \A i \in 1..Len(rest) : short[Len(one) + i] = rest[i]
    <3>1. one \in Seq(Names) /\ rest \in Seq(Names) /\ short = one \o rest
      BY <1>4, <2>1
    <3> QED
      BY <3>1, ConcatPoints
  <2> QED
    BY <1>1, <1>3, <1>4, <2>1, <2>2
<1>7. short = Shortened(p)
  BY DEF Shortened, d, rest
<1> HIDE DEF short
<1> QED
  BY <1>2, <1>4, <1>6, <1>7

\* A name with a dot is looked up below some directory, under the same name.
LEMMA NameIsKept ==
  ASSUME NEW path \in Seq(Names), path # <<>>, Last(path) \in DOMAIN Ext
  PROVE  RelativePath(path) \in Seq(Names) \ {<<>>} /\ Last(RelativePath(path)) = Last(path)
<1> DEFINE p == Unslashed(path)
<1>1. PICK k \in 0..Len(path) :
        /\ p \in Seq(Names) /\ Len(p) = Len(path) - k
        /\ \A i \in 1..(Len(path) - k) : p[i] = path[k + i]
        /\ \A j \in 1..Len(path) : path[j] # Blank => k < j
  BY UnslashedFacts
<1>2. Len(path) \in Nat /\ Len(path) > 0
  OBVIOUS
<1> HIDE DEF p
<1>3. k < Len(path)
  BY <1>1, <1>2, NamesKnown DEF Last
<1>4. p # <<>> /\ Last(p) = Last(path)
  BY <1>1, <1>2, <1>3 DEF Last
<1>5. RelativePath(path) = IF Directories(p) = {} THEN p ELSE Shortened(p)
  BY <1>4, RelativePathIs, Zenon DEF p
<1>6. CASE Directories(p) = {}
  BY <1>1, <1>4, <1>5, <1>6
<1>7. CASE Directories(p) # {}
  <2>1. PICK d \in Directories(p) :
           /\ \A j \in Directories(p) : d <= j
           /\ Shortened(p) \in Seq(Names)
           /\ Len(Shortened(p)) = 1 + (Len(p) - d) /\ Shortened(p)[1] = "assets"
           /\ \A i \in 1..(Len(p) - d) : Shortened(p)[1 + i] = p[d + i]
    BY <1>1, <1>7, ShortenedFacts
  <2>2. d \in 1..(Len(p) - 1) /\ Len(p) \in Nat
    BY <1>1, <1>2 DEF Directories
  <2>3. Last(Shortened(p)) = p[Len(p)]
    <3>1. Len(p) - d \in 1..(Len(p) - d) /\ d + (Len(p) - d) = Len(p)
      BY <2>2
    <3>2. Shortened(p)[1 + (Len(p) - d)] = p[d + (Len(p) - d)]
      BY <2>1, <3>1
    <3> QED
      BY <2>1, <3>1, <3>2 DEF Last
  <2>4. Shortened(p) # <<>>
    BY <2>1, <2>2
  <2> QED
    BY <1>4, <1>5, <1>7, <2>1, <2>3, <2>4 DEF Last
<1> QED
  BY <1>6, <1>7

\* The files of a page that is below no such directory are looked up as they are named.
LEMMA FileIsFound ==
  ASSUME NEW path, NEW name, path \in Seq(Names), name \in {Script, Stylesheet}, path # <<>>,
         \A i \in DOMAIN path : path[i] \notin AssetsTail
  PROVE  RelativePath(Relative(path, name)) = name
<1> DEFINE to == Relative(path, name)
           n == Len(path) + 1
           p == Unslashed(to)
<1>1. /\ name \in Seq(Names) /\ name # <<>> /\ Len(name) = 2 /\ name[1] = "assets"
      /\ name[2] \in DOMAIN Ext /\ Last(name) = name[2] /\ name = <<"assets">> \o <<name[2]>>
  BY NamesKnown DEF Script, Stylesheet, Last
<1>2. Len(path) \in Nat /\ Len(path) > 0 /\ DOMAIN path = 1..Len(path)
  OBVIOUS
<1>3. /\ to \in Seq(Names) /\ Len(to) = n /\ to[n - 1] = "assets" /\ to[n] = name[2]
      /\ \A i \in 1..(n - 2) : to[i] \notin AssetsTail
  <2>1. name \in Seq(Names)
    BY <1>1
  <2>2. /\ to \in Seq(Names) /\ Len(to) = (Len(path) - 1) + Len(name)
        /\ \A i \in 1..(Len(path) - 1) : to[i] = path[i]
        /\ \A i \in 1..Len(name) : to[(Len(path) - 1) + i] = name[i]
    <3>1. to = Relative(path, name)
      OBVIOUS
    <3> HIDE DEF to
    <3>2. to \in Seq(Names) /\ Len(to) = (Len(path) - 1) + Len(name)
      BY <2>1, <3>1, RelativePoints, ZenonT(30)
    <3>3. \A i \in 1..(Len(path) - 1) : to[i] = path[i]
      BY <2>1, <3>1, RelativePoints
    <3>4. \A i \in 1..Len(name) : to[(Len(path) - 1) + i] = name[i]
      BY <2>1, <3>1, RelativePoints
    <3> QED
      BY <3>2, <3>3, <3>4
  <2> HIDE DEF to
  <2>3. to[(Len(path) - 1) + 1] = name[1] /\ to[(Len(path) - 1) + 2] = name[2]
    BY <1>1, <2>2
  <2> QED
    BY <1>1, <1>2, <2>2, <2>3, SMTT(30)
<1> HIDE DEF to
<1>4. PICK k \in 0..n :
        /\ p \in Seq(Names) /\ Len(p) = n - k
        /\ \A i \in 1..(n - k) : p[i] = to[k + i]
        /\ \A j \in 1..n : to[j] # Blank => k < j
  BY <1>3, UnslashedFacts, ZenonT(30)
<1> HIDE DEF p
<1>5. k < n - 1 /\ n - 1 \in 1..n /\ n \in Nat
  BY <1>2, <1>3, <1>4, NamesKnown
<1>6. p # <<>> /\ Last(p) = name[2]
  BY <1>3, <1>4, <1>5 DEF Last
<1>7. Directories(p) = {(n - k) - 1}
  <2> DEFINE d == (n - k) - 1
  <2>1. /\ d \in 1..(n - k) /\ k + d = n - 1 /\ Len(p) - 1 = d /\ d \in 1..d
    <3>1. k \in Nat /\ d \in Nat /\ d > 0 /\ n = (d + k) + 1
      BY <1>4, <1>5
    <3>2. n - k = d + 1 /\ Len(p) = n - k
      BY <1>4, <1>5, <3>1
    <3> HIDE DEF d
    <3> QED
      BY <1>5, <3>1, <3>2
  <2>a. \A i \in 1..d : i = d \/ i \in 1..(d - 1)
    BY <2>1
  <2>b. \A i \in 1..(d - 1) : i \in 1..(n - k) /\ k + i \in 1..(n - 2)
    BY <1>4, <1>5
  <2>2. p[d] = "assets"
    BY <1>3, <1>4, <2>1
  <2>3. \A i \in 1..(d - 1) : p[i] \notin AssetsTail
    BY <1>3, <1>4, <2>1, <2>b
  <2> HIDE DEF d
  <2>4. Directories(p) = {d}
    BY <2>1, <2>2, <2>3, <2>a, NamesKnown, Zenon DEF Directories
  <2> QED
    BY <2>4 DEF d
<1>8. RelativePath(to) = Shortened(p)
  BY <1>1, <1>6, <1>7, RelativePathIs, Zenon DEF p
<1>9. Shortened(p) = name
  <2>1. PICK d \in Directories(p) :
           /\ \A j \in Directories(p) : d <= j
           /\ Shortened(p) \in Seq(Names)
           /\ Len(Shortened(p)) = 1 + (Len(p) - d) /\ Shortened(p)[1] = "assets"
           /\ \A i \in 1..(Len(p) - d) : Shortened(p)[1 + i] = p[d + i]
    BY <1>4, <1>7, ShortenedFacts
  <2>2. d = (n - k) - 1 /\ Len(p) - d = 1 /\ d + 1 = Len(p)
    BY <1>4, <1>5, <1>7
  <2>3. Shortened(p)[2] = name[2]
    <3>0. 1 \in 1..(Len(p) - d)
      BY <2>2
    <3>1. Shortened(p)[1 + 1] = p[d + 1]
      BY <2>1, <3>0, Zenon
    <3> QED
      BY <1>6, <2>2, <3>1 DEF Last
  <2> DEFINE short == Shortened(p)
  <2>4. /\ short \in Seq(Names) /\ Len(short) = Len(name)
        /\ \A i \in 1..Len(short) : short[i] = name[i]
    BY <1>1, <2>1, <2>2, <2>3
  <2> HIDE DEF short
  <2>5. short = name
    BY <1>1, <2>4, SeqEqual
  <2> QED
    BY <2>5 DEF short
<1> QED
  BY <1>8, <1>9 DEF to
-----------------------------------------------------------------------------
(* What the server answers to the requests of a page. *)

\* A build whose front page is a frontend's has the frontend's other files.
LEMMA FrontendIsWhole ==
  ASSUME NEW assets, NEW f, NEW name, assets \in Builds, File(assets, <<Index>>) = Some(f),
         FilesOf(f) # {}, name \in {Script, Stylesheet}
  PROVE  File(assets, name) = Some(<<f[1]>> \o name)
<1> DEFINE own == <<Index>>
           Dist(p) == <<"dist">> \o p
           three == {own, Script, Stylesheet}
<1>0. /\ own[1] = Index /\ Index # "dist" /\ Index # "external" /\ Dist(own)[1] = "dist"
      /\ \A p : (<<"external">> \o own)[1] = "external"
  BY DEF Index
<1>1. /\ three \cap assets.external \in {{}, three}
      /\ {Dist(p) : p \in three} \cap assets.embedded \in {{}, {Dist(p) : p \in three}}
  BY BuildsAssumption, Zenon
<1>2. f[1] \in {"dist", "external"}
  BY DEF FilesOf
<1>a. name[1] # "dist" /\ name \in three /\ own \in three /\ Dist(name)[1] = "dist"
  <2>1. name = <<"assets", "terminald.js">> \/ name = <<"assets", "terminald.css">>
    BY DEF Script, Stylesheet
  <2>2. Dist(<<"assets", "terminald.js">>)[1] = "dist" /\ Dist(<<"assets", "terminald.css">>)[1] = "dist"
    OBVIOUS
  <2> QED
    BY <2>1, <2>2
<1>3. CASE own \in assets.external
  <2>1. File(assets, own) = Some(<<"external">> \o own)
    BY <1>3, Zenon DEF File
  <2>2. f = <<"external">> \o own
    BY <2>1 DEF Some
  <2>3. name \in assets.external
    BY <1>1, <1>3, <1>a
  <2>4. File(assets, name) = Some(<<"external">> \o name)
    BY <2>3, Zenon DEF File
  <2> QED
    BY <1>0, <2>2, <2>4, Zenon
<1>4. CASE own \notin assets.external
  <2>1. Candidates(assets, own) # {}
    <3>1. Candidates(assets, own) = {} => File(assets, own) = None
      BY <1>4, Zenon DEF File
    <3> QED
      BY <3>1 DEF None, Some
  <2>2. File(assets, own) = IF Dist(own) \in Candidates(assets, own) THEN Some(Dist(own)) ELSE Some(own)
    BY <1>4, <2>1, Zenon DEF File
  <2>3. f = Dist(own) /\ Dist(own) \in Candidates(assets, own)
    <3>1. CASE Dist(own) \in Candidates(assets, own)
      <4>1. Some(f) = Some(Dist(own))
        BY <2>2, <3>1, Zenon
      <4> QED
        BY <3>1, <4>1 DEF Some
    <3>2. CASE Dist(own) \notin Candidates(assets, own)
      <4>1. Some(f) = Some(own)
        BY <2>2, <3>2, Zenon
      <4>2. f = own
        BY <4>1 DEF Some
      <4> QED
        BY <1>0, <1>2, <4>2
    <3> QED
      BY <3>1, <3>2
  <2>4. Dist(own) \in assets.embedded /\ assets.useDist
    BY <1>0, <2>3 DEF Candidates
  <2>5. name \notin assets.external
    BY <1>1, <1>4, <1>a
  <2>6. Dist(name) \in assets.embedded
    <3>1. Dist(own) \in {Dist(p) : p \in three} /\ Dist(name) \in {Dist(p) : p \in three}
      BY <1>a, Zenon
    <3> HIDE DEF Dist, three
    <3> QED
      BY <1>1, <2>4, <3>1
  <2>7. Dist(name) \in Candidates(assets, name)
    BY <2>4, <2>6, Zenon DEF Candidates
  <2>8. File(assets, name) = Some(Dist(name))
    BY <2>5, <2>7, Zenon DEF File
  <2> QED
    BY <1>0, <2>3, <2>8, Zenon
<1> QED
  BY <1>3, <1>4

\* The paths of pages: a build has them in its directories and nowhere else.
LEMMA PageIsIndex ==
  ASSUME NEW assets, NEW path, assets \in Builds, path \in Seq(Names) \ {<<>>},
         Last(path) \in DOMAIN Ext, ContentType(RelativePath(path)) = "html",
         File(assets, RelativePath(path)) # None
  PROVE  Last(path) = Index
<1> DEFINE r == RelativePath(path)
           dist == <<"dist">> \o r
<1>1. r \in Seq(Names) /\ r # <<>> /\ Last(r) = Last(path)
  BY NameIsKept
<1> HIDE DEF r
<1>2. Last(dist) = Last(r)
  <2>1. r \in Seq(Names \cup {"dist"}) /\ <<"dist">> \in Seq(Names \cup {"dist"}) /\ Len(<<"dist">>) = 1
    BY <1>1
  <2>2. Len(dist) = 1 + Len(r) /\ dist[1 + Len(r)] = r[Len(r)] /\ Len(r) \in Nat /\ Len(r) > 0
    BY <1>1, <2>1
  <2> QED
    BY <2>2 DEF Last
<1> HIDE DEF dist
<1>3. r \in assets.external \/ Candidates(assets, r) # {}
  BY Zenon DEF File, r
<1>4. r \in assets.external \/ r \in assets.embedded \/ dist \in assets.embedded
  BY <1>3, Zenon DEF Candidates, dist
<1>5. ContentType(r) = "html" /\ ContentType(dist) = "html"
  <2>1. ContentType(r) = "html"
    BY DEF r
  <2> QED
    BY <1>2, <2>1 DEF ContentType
<1>6. \A p \in assets.external \cup assets.embedded : ContentType(p) = "html" => Last(p) = Index
  BY BuildsAssumption, Zenon
<1> QED
  BY <1>1, <1>2, <1>4, <1>5, <1>6
\* dispatch, as the order in which it looks at a request.
WithSlash(path) == Append(path, Blank)

Answering(s, r) ==
  IF ~Authorized(s.auth, r.header) THEN Status(401)
  ELSE IF IsAuthCheck(r.path) THEN Status(204)
  ELSE IF IsWs(r.path) THEN Status(IF r.upgrade THEN 101 ELSE 400)
  ELSE IF NeedsSlash(r) THEN RedirectTo(WithSlash(r.path)) ELSE Asset(s.assets, r.path)

\* The check and the socket are different paths, so the order is the one of the code.
LEMMA DispatchIs ==
  ASSUME NEW s, NEW r, r.path \in Seq(Names)
  PROVE  Dispatch(s, r) = Answering(s, r)
<1> DEFINE refused == ~Authorized(s.auth, r.header)
           check == IsAuthCheck(r.path)
           ws == IsWs(r.path)
           found == IF NeedsSlash(r) THEN RedirectTo(WithSlash(r.path)) ELSE Asset(s.assets, r.path)
           opened == Status(IF r.upgrade THEN 101 ELSE 400)
<1>1. ~refused => Dispatch(s, r) = CASE check -> Status(204) [] ws -> opened [] OTHER -> found
  BY Zenon DEF Dispatch, Blank, WithSlash
<1>2. ~(check /\ ws)
  <2> DEFINE p == r.path
  <2>1. check <=> IsSuffix(<<"auth", "check">>, p)
    BY DEF IsAuthCheck
  <2>2. ws <=> p[Len(p)] = "ws"
    BY DEF IsWs, Last
  <2> HIDE DEF check, ws, p
  <2>3. p \in Seq(Names)
    BY DEF p
  <2>4. IsSuffix(<<"auth", "check">>, p) => p[Len(p)] = "check"
    BY <2>3, TwoLast
  <2> QED
    BY <2>1, <2>2, <2>4
<1>3. refused => Dispatch(s, r) = Status(401)
  BY Zenon DEF Dispatch
<1> HIDE DEF refused, check, ws, found, opened
<1>4. (CASE check -> Status(204) [] ws -> opened [] OTHER -> found)
        = IF check THEN Status(204) ELSE IF ws THEN opened ELSE found
  BY <1>2
<1>5. Dispatch(s, r) = IF refused THEN Status(401)
                       ELSE IF check THEN Status(204) ELSE IF ws THEN opened ELSE found
  BY <1>1, <1>3, <1>4
<1> QED
  BY <1>5, Zenon DEF Answering, refused, check, ws, found, opened

Sorted(s, r, d) ==
  \/ d \in {Status(401), Status(204), Status(101), Status(400)}
  \/ /\ Authorized(s.auth, r.header)
     /\ NeedsSlash(r) => d = RedirectTo(WithSlash(r.path))
     /\ ~NeedsSlash(r) => d = Asset(s.assets, r.path)

\* An answer that is neither a refusal nor of the two routes is of a file.
LEMMA AnswersSorted ==
  ASSUME NEW s, NEW r, r.path \in Seq(Names)
  PROVE  Sorted(s, r, Dispatch(s, r))
<1>1. Dispatch(s, r) = Answering(s, r)
  BY DispatchIs, Zenon
<1> QED
  BY <1>1 DEF Answering, Sorted

\* An answer that is a page was for a path that ends with a slash or names a page.
LEMMA PageFound ==
  ASSUME NEW s, NEW r, s.assets \in Builds, r.method = "GET", r.path \in Seq(Names) \ {<<>>},
         Dispatch(s, r).code = 200, Dispatch(s, r).type = "html"
  PROVE  /\ Authorized(s.auth, r.header) /\ ~Contains(r.path, "..")
         /\ Last(r.path) \in {Blank, Index}
<1> DEFINE d == Dispatch(s, r)
<1>1. /\ Status(401).code # 200 /\ Status(204).code # 200 /\ Status(101).code # 200
      /\ Status(400).code # 200 /\ Status(404).code # 200
      /\ \A l : RedirectTo(l).code # 200
  BY DEF Status, RedirectTo, Response
<1>2. \/ d \in {Status(401), Status(204), Status(101), Status(400)}
      \/ /\ Authorized(s.auth, r.header)
         /\ NeedsSlash(r) => d = RedirectTo(WithSlash(r.path))
         /\ ~NeedsSlash(r) => d = Asset(s.assets, r.path)
  <2>1. r.path \in Seq(Names)
    BY Zenon
  <2>2. Sorted(s, r, d)
    BY <2>1, AnswersSorted, Zenon
  <2> QED
    BY <2>2, Zenon DEF Sorted
<1> HIDE DEF d
<1>3. d.code = 200 /\ d.type = "html"
  BY DEF d
<1>4. Authorized(s.auth, r.header) /\ ~NeedsSlash(r) /\ d = Asset(s.assets, r.path)
  BY <1>1, <1>2, <1>3
<1> DEFINE relative == RelativePath(r.path)
           file == File(s.assets, relative)
<1> HIDE DEF relative, file
<1>5. d = IF Contains(r.path, "..") \/ file = None THEN Status(404)
          ELSE Response(200, file, ContentType(relative), None)
  BY <1>4, Zenon DEF Asset, relative, file
<1>6. ~Contains(r.path, "..") /\ file # None /\ d = Response(200, file, ContentType(relative), None)
  BY <1>1, <1>3, <1>5
<1>7. ContentType(relative) = "html"
  BY <1>3, <1>6 DEF Response
<1>8. Last(r.path) # Blank => Last(r.path) \in DOMAIN Ext
  BY <1>4, Zenon DEF NeedsSlash, Blank
<1>9. Last(r.path) \in DOMAIN Ext => Last(r.path) = Index
  BY <1>6, <1>7, PageIsIndex DEF relative, file
<1> QED
  BY <1>4, <1>6, <1>8, <1>9

\* Every answer there is.
Known(r, d) ==
  \/ d \in {Status(401), Status(204), Status(101), Status(400), Status(404)}
  \/ \E f, t : d = Response(200, f, t, None)
  \/ d = RedirectTo(WithSlash(r.path))

\* No other answer is given.
LEMMA AnswersKnown ==
  ASSUME NEW s, NEW r, r.path \in Seq(Names)
  PROVE  Known(r, Dispatch(s, r))
<1>1. Dispatch(s, r) = Answering(s, r)
  BY DispatchIs, Zenon
<1>2. \/ Asset(s.assets, r.path) = Status(404)
      \/ \E f, t : Asset(s.assets, r.path) = Response(200, f, t, None)
  BY Zenon DEF Asset
<1> QED
  BY <1>1, <1>2 DEF Answering, Known

\* What a redirect is to.
LEMMA RedirectIs ==
  ASSUME NEW s, NEW r, r.path \in Seq(Names), Dispatch(s, r).code = 308
  PROVE  Dispatch(s, r) = RedirectTo(WithSlash(r.path))
<1>1. /\ Status(401).code # 308 /\ Status(204).code # 308 /\ Status(101).code # 308
      /\ Status(400).code # 308 /\ Status(404).code # 308
      /\ \A f, t : Response(200, f, t, None).code # 308
  BY DEF Status, Response
<1>2. Known(r, Dispatch(s, r))
  BY AnswersKnown, Zenon
<1> QED
  BY <1>1, <1>2 DEF Known

\* Every code of an answer.
LEMMA CodesKnown ==
  ASSUME NEW s, NEW r, r.path \in Seq(Names)
  PROVE  Dispatch(s, r).code \in {101, 200, 204, 308, 400, 401, 404}
<1> DEFINE d == Dispatch(s, r)
<1>1. Known(r, d)
  BY AnswersKnown, Zenon
<1> HIDE DEF d
<1>2. d.code \in {101, 200, 204, 308, 400, 401, 404}
  BY <1>1 DEF Known, Status, Response, RedirectTo
<1> QED
  BY <1>2 DEF d

\* The check of the credential and the socket, whatever they are below.
LEMMA CheckIsAnswered ==
  ASSUME NEW s, NEW r, NEW base, base \in Seq(Names), base # <<>>,
         r.path = Relative(base, <<"auth", "check">>), Authorized(s.auth, r.header)
  PROVE  Dispatch(s, r) = Status(204)
<1> DEFINE ref == <<"auth", "check">>
           to == r.path
<1>1. ref \in Seq(Names) /\ Len(ref) = 2 /\ ref[1] = "auth" /\ ref[2] = "check"
  BY NamesKnown
<1>2. to = Relative(base, ref)
  OBVIOUS
<1> HIDE DEF ref, to
<1>a. ref \in Seq(Names)
  BY <1>1
<1>3. to \in Seq(Names) /\ Len(to) = (Len(base) - 1) + Len(ref)
  BY <1>2, <1>a, RelativePoints
<1>4. \A i \in 1..Len(ref) : to[(Len(base) - 1) + i] = ref[i]
  BY <1>2, <1>a, RelativePoints
<1>5. Len(base) \in Nat /\ Len(base) > 0
  OBVIOUS
<1>6. Len(to) >= 2 /\ to[Len(to)] = "check" /\ to[Len(to) - 1] = "auth"
  <2>1. to[(Len(base) - 1) + 1] = "auth" /\ to[(Len(base) - 1) + 2] = "check"
    BY <1>1, <1>4
  <2> QED
    BY <1>1, <1>3, <1>5, <2>1
<1>7. IsAuthCheck(to)
  BY <1>3, <1>6, TwoLast DEF IsAuthCheck
<1>8. r.path \in Seq(Names)
  BY <1>3, Zenon DEF to
<1> QED
  BY <1>7, <1>8, DispatchIs, Zenon DEF Answering, to

\* A relative reference ends as it is written.
LEMMA LastIsKept ==
  ASSUME NEW base, NEW ref, base \in Seq(Names), base # <<>>, ref \in Seq(Names), ref # <<>>
  PROVE  Relative(base, ref) \in Seq(Names) \ {<<>>} /\ Last(Relative(base, ref)) = Last(ref)
<1> DEFINE to == Relative(base, ref)
<1>1. to = Relative(base, ref)
  OBVIOUS
<1> HIDE DEF to
<1>2. to \in Seq(Names) /\ Len(to) = (Len(base) - 1) + Len(ref)
  BY <1>1, RelativePoints, ZenonT(60)
<1>3. \A i \in 1..Len(ref) : to[(Len(base) - 1) + i] = ref[i]
  BY <1>1, RelativePoints
<1>4. Len(base) \in Nat /\ Len(base) > 0 /\ Len(ref) \in Nat /\ Len(ref) > 0
  OBVIOUS
<1>5. to[(Len(base) - 1) + Len(ref)] = ref[Len(ref)]
  BY <1>3, <1>4
<1> QED
  BY <1>1, <1>2, <1>4, <1>5 DEF Last

\* Only a path that ends in "check" may be the check.
LEMMA NoCheck ==
  ASSUME NEW p, p \in Seq(Names), Last(p) # "check"
  PROVE  ~IsAuthCheck(p)
  BY TwoLast DEF IsAuthCheck, Last

\* A socket is accepted from whoever has the credential.
LEMMA SocketIsAnswered ==
  ASSUME NEW s, NEW r, r.path \in Seq(Names), Last(r.path) = "ws", r.upgrade,
         Authorized(s.auth, r.header)
  PROVE  Dispatch(s, r) = Status(101)
<1>1. ~IsAuthCheck(r.path) /\ IsWs(r.path)
  BY NoCheck DEF IsWs
<1> QED
  BY <1>1, DispatchIs, Zenon DEF Answering

\* The files of a page arrive as what they are.
LEMMA FileIsAnswered ==
  ASSUME NEW s, NEW r, NEW path, NEW f, NEW name, s.assets \in Builds,
         path \in Seq(Names), path # <<>>, ~Contains(path, ".."),
         \A i \in DOMAIN path : path[i] \notin AssetsTail,
         File(s.assets, <<Index>>) = Some(f), FilesOf(f) # {}, name \in {Script, Stylesheet},
         r.path = Relative(path, name), Authorized(s.auth, r.header)
  PROVE  /\ Dispatch(s, r) = Response(200, Some(<<f[1]>> \o name), ContentType(name), None)
         /\ Last(r.path) = Last(name)
<1> DEFINE to == r.path
           found == Some(<<f[1]>> \o name)
<1>1. /\ name \in Seq(Names) /\ name # <<>> /\ Len(name) = 2 /\ Last(name) = name[2]
      /\ name[1] # ".." /\ name[2] # ".." /\ name[2] # "check" /\ name[2] # "ws"
      /\ name[2] \in DOMAIN Ext
  BY NamesKnown DEF Script, Stylesheet, Last
<1>2. to = Relative(path, name)
  OBVIOUS
<1>3. RelativePath(to) = name
  BY <1>2, FileIsFound
<1>4. File(s.assets, name) = found
  BY FrontendIsWhole
<1>5. to \in Seq(Names) /\ Last(to) = name[2]
  BY <1>1, <1>2, LastIsKept
<1> HIDE DEF to, found
<1>6. ~Contains(to, "..")
  <2>a. name \in Seq(Names)
    BY <1>1
  <2>1. to \in Seq(Names) /\ Len(to) = (Len(path) - 1) + Len(name)
    BY <1>2, <2>a, RelativePoints
  <2>2. \A i \in 1..(Len(path) - 1) : to[i] = path[i]
    BY <1>2, <2>a, RelativePoints
  <2>3. \A i \in 1..Len(name) : to[(Len(path) - 1) + i] = name[i]
    BY <1>2, <2>a, RelativePoints
  <2>4. Len(path) \in Nat /\ Len(path) > 0
    OBVIOUS
  <2>5. to[(Len(path) - 1) + 1] = name[1] /\ to[(Len(path) - 1) + 2] = name[2]
    BY <1>1, <2>3
  <2>6. ASSUME NEW i \in 1..Len(to) PROVE to[i] # ".."
    <3>1. CASE i \in 1..(Len(path) - 1)
      <4>1. i \in 1..Len(path)
        BY <2>4, <3>1
      <4> QED
        BY <2>2, <3>1, <4>1 DEF Contains
    <3>2. CASE i \notin 1..(Len(path) - 1)
      <4>1. i = (Len(path) - 1) + 1 \/ i = (Len(path) - 1) + 2
        BY <1>1, <2>1, <2>4, <3>2
      <4> QED
        BY <1>1, <2>5, <4>1
    <3> QED
      BY <3>1, <3>2
  <2> QED
    BY <2>6 DEF Contains
<1>7. ~IsAuthCheck(to) /\ ~IsWs(to) /\ ~NeedsSlash(r)
  <2>1. ~IsAuthCheck(to) /\ ~IsWs(to)
    BY <1>1, <1>5, NoCheck DEF IsWs
  <2>2. ~NeedsSlash(r)
    BY <1>1, <1>5, Zenon DEF NeedsSlash, to
  <2> QED
    BY <2>1, <2>2
<1>b. r.path \in Seq(Names)
  BY <1>5, Zenon DEF to
<1>8. Dispatch(s, r) = Asset(s.assets, to)
  BY <1>7, <1>b, DispatchIs, Zenon DEF Answering, to
<1>9. found # None
  BY DEF found, Some, None
<1>10. Asset(s.assets, to) = Response(200, found, ContentType(name), None)
  BY <1>3, <1>4, <1>6, <1>9, Zenon DEF Asset
<1> QED
  BY <1>1, <1>5, <1>8, <1>10 DEF found, to
-----------------------------------------------------------------------------
(* The visit to a page. *)

\* A mount does not end as a page's path does, so the page is below it.
LEMMA BelowMount ==
  ASSUME NEW mount, NEW path, mount \in Seq(Names), path \in Seq(Names), path # <<>>,
         IsPrefix(mount, path), Last(path) \in {Blank, Index},
         mount # <<>> => Last(mount) \notin {Blank, Index}
  PROVE  IsPrefix(mount, Front(path))
<1>1. Len(mount) <= Len(path) /\ \A i \in 1..Len(mount) : mount[i] = path[i]
  BY PrefixPoints
<1>2. Len(mount) \in Nat /\ Len(path) \in Nat /\ (mount # <<>> => Len(mount) > 0)
  OBVIOUS
<1>3. Len(mount) <= Len(path) - 1
  <2>1. CASE Len(mount) = Len(path)
    <3>1. mount # <<>> /\ Len(mount) \in 1..Len(mount)
      BY <1>2, <2>1
    <3>2. mount[Len(mount)] = path[Len(path)]
      BY <1>1, <2>1, <3>1
    <3> QED
      BY <3>1, <3>2 DEF Last
  <2> QED
    BY <1>1, <1>2, <2>1
<1>4. /\ Front(path) \in Seq(Names) /\ Len(Front(path)) = Len(path) - 1
      /\ \A i \in 1..(Len(path) - 1) : Front(path)[i] = path[i]
  BY FrontFacts
<1>5. \A i \in 1..Len(mount) : i \in 1..(Len(path) - 1)
  BY <1>2, <1>3
<1>6. \A i \in 1..Len(mount) : mount[i] = Front(path)[i]
  BY <1>1, <1>4, <1>5, Zenon
<1> QED
  BY <1>3, <1>4, <1>6, PrefixPoints

Headers == Seq([scheme : {"Basic"}, encoded : Seq(STRING)])

\* A credential that was resolved from an argument has a text, and so a header.
LEMMA HeaderTyped ==
  ASSUME NEW auth, NEW arg, Holds(auth, arg)
  PROVE  Header(auth) \in Headers
<1>1. CASE auth = None
  BY <1>1 DEF Header, None, Headers
<1>2. CASE auth # None
  <2> DEFINE text == Value(arg)
  <2>1. arg \in CredentialArgs /\ arg.from # "nowhere" /\ auth = Some(NewCredential(text))
    BY <1>2 DEF Holds, Resolve
  <2>2. text \in Texts /\ IsCredential(text)
    <3>1. IsCredential(text)
      BY <2>1 DEF Holds, Unresolved
    <3>2. CASE arg.from = "file"
      <4>1. arg.text \in Texts /\ \A c \in {CR, LF} : ~Contains(Line(arg.text), c)
        BY <2>1, <3>2 DEF Holds, Unresolved, CredentialArgs, Texts
      <4>2. Line(arg.text) \in Texts
        BY <4>1, OneLine
      <4> QED
        BY <3>1, <3>2, <4>2 DEF Value
    <3>3. CASE arg.from # "file"
      BY <2>1, <3>1, <3>3 DEF Value, CredentialArgs, Texts
    <3> QED
      BY <3>2, <3>3
  <2> HIDE DEF text
  <2>3. BasicPair(NewCredential(text)) \in Texts
    BY <2>2, PairIsText
  <2>4. auth # None /\ auth[1] = NewCredential(text)
    BY <1>2, <2>1 DEF Some
  <2>5. Header(auth) = <<[scheme |-> "Basic", encoded |-> BasicPair(NewCredential(text))]>>
    BY <2>4, Zenon DEF Header, Some, Basic
  <2> DEFINE pair == BasicPair(NewCredential(text))
  <2> HIDE DEF pair
  <2>6. Header(auth) = <<[scheme |-> "Basic", encoded |-> pair]>> /\ pair \in Seq(STRING)
    BY <2>3, <2>5 DEF pair, Texts
  <2> QED
    BY <2>6 DEF Headers
<1> QED
  BY <1>1, <1>2

\* What the server, or the proxy before it, answers.
Answered(r) == IF IsPrefix(client.mount, r.path) THEN Dispatch(server, r) ELSE Status(404)

\* The request that is made where the visit is.
Awaited(r) ==
  /\ r \in Requests /\ r.header = Header(client.auth)
  /\ stage = "visiting" => IsPrefix(client.mount, r.path)
  /\ stage = "loading" => \E name \in {Script, Stylesheet} : r.path = Relative(page[1].path, name)
  /\ stage = "checking" => r.path = AuthCheckPath(page[1].path)
  /\ stage = "socket" => r.upgrade /\ Last(r.path) = "ws" /\ IsPrefix(client.mount, r.path)

RequestFits == request # None => Awaited(request[1])
ReplyFits   == request = None /\ reply # None =>
                 Awaited(reply[1].to) /\ reply[1].is = Answered(reply[1].to)

\* A page that is shown is below its mount, and its credential is the server's.
PageStands ==
  stage \in {"page", "loading", "checking"} \/ (stage = "socket" /\ client.program # "cli") =>
    /\ page[1].path \in Seq(Names) /\ page[1].path # <<>> /\ ~Contains(page[1].path, "..")
    /\ IsPrefix(client.mount, Front(page[1].path))
    /\ Authorized(server.auth, Header(client.auth))

Codes  == {101, 200, 204, 308, 400, 401, 404}
Stages == {"start", "visiting", "page", "loading", "checking", "socket", "open", "ended", "failed"}

VisitTypes ==
  /\ server.mode \in {"none", "failed", "server"}
  /\ server.mode = "server" => server.assets \in Builds
  /\ client.program \in {"none", "browser", "cli"} /\ client.mount \in Seq(Names)
  /\ client.mount # <<>> => Last(client.mount) \notin {Blank, Index}
  /\ stage \in Stages
  /\ request # None => request[1] \in Requests
  /\ reply # None => reply[1].to \in Requests /\ reply[1].is.code \in Codes
  /\ page # None => page[1].path \in Seq(Names)
  /\ missing \subseteq {Script, Stylesheet}
  /\ missing # {} => FilesOf(page[1].file) # {}
  /\ stage = "loading" => FilesOf(page[1].file) # {}

VisitInv == VisitTypes /\ PageStands /\ RequestFits /\ ReplyFits

\* Who asks does so with a credential that has a text.
LEMMA AskMakes ==
  ASSUME NEW path, NEW auth, NEW upgrade, path \in Seq(Names) \ {<<>>}, upgrade \in BOOLEAN,
         Ask(path, auth, upgrade), AdmissionInv'
  PROVE  /\ request' # None /\ request'[1] \in Requests /\ request'[1].header = Header(client'.auth)
         /\ request'[1].path = path /\ request'[1].upgrade = upgrade
<1> DEFINE r == [method |-> "GET", path |-> path, header |-> Header(auth), upgrade |-> upgrade]
<1>1. request' = Some(r)
  BY Zenon DEF Ask
<1>2. request' # None /\ request'[1] = r
  BY <1>1 DEF Some, None
<1>3. Header(auth) = Header(client'.auth)
  BY <1>2 DEF AdmissionInv, HeaderKnown
<1>4. Holds(client'.auth, given'.client)
  BY <1>2, Zenon DEF AdmissionInv, SidesKnown, Idle
<1>5. Header(auth) \in Headers
  BY <1>3, <1>4, HeaderTyped
<1>6. r \in Requests
  BY <1>5 DEF Requests, Headers
<1> QED
  BY <1>2, <1>3, <1>6

\* Before there is a server nothing has been asked.
LEMMA ServeVisits ==
  ASSUME NEW args \in ServerArgs, NEW assets \in Builds, AdmissionInv, VisitInv,
         Serve(args, assets)
  PROVE  VisitInv'
<1>1. /\ server = NoServer /\ stage = "start" /\ request = None /\ reply = None
      /\ UNCHANGED <<client, request, reply, stage, page, missing>>
  BY DEF Serve, AdmissionInv, SidesKnown, NoServer, Idle
<1>2. /\ server'.mode \in {"none", "failed", "server"}
      /\ server'.mode = "server" => server'.assets \in Builds
  BY DEF Serve, FailedMode
<1> QED
  BY <1>1, <1>2 DEF VisitInv, VisitTypes, PageStands, RequestFits, ReplyFits

\* The answer is to the request that was made.
LEMMA AnswerVisits ==
  ASSUME AdmissionInv, VisitInv, Answer
  PROVE  VisitInv'
<1> DEFINE r == request[1]
<1>1. /\ request # None /\ request' = None /\ reply' = Some([to |-> r, is |-> Answered(r)])
      /\ UNCHANGED <<server, client, stage, page, missing>>
  BY Zenon DEF Answer, Answered
<1>2. reply' # None /\ reply'[1].to = r /\ reply'[1].is = Answered(r)
  BY <1>1 DEF Some, None
<1>3. Awaited(r) /\ r \in Requests
  BY <1>1 DEF VisitInv, RequestFits, VisitTypes
<1>4. Answered(r).code \in Codes
  <2>1. r.path \in Seq(Names)
    BY <1>3 DEF Requests
  <2>2. Dispatch(server, r).code \in Codes
    BY <2>1, CodesKnown DEF Codes
  <2>3. Status(404).code \in Codes
    BY DEF Status, Response, Codes
  <2> QED
    BY <2>2, <2>3, Zenon DEF Answered
<1> HIDE DEF r
<1>6. ReplyFits'
  <2>1. Awaited(reply[1].to)'
    BY <1>1, <1>2, <1>3 DEF Awaited
  <2>2. Answered(r) = Answered(reply[1].to)'
    BY <1>1, <1>2 DEF Answered
  <2> QED
    BY <1>2, <2>1, <2>2 DEF ReplyFits
<1>7. VisitTypes' /\ PageStands' /\ RequestFits'
  BY <1>1, <1>2, <1>3, <1>4 DEF VisitInv, VisitTypes, PageStands, RequestFits
<1> QED
  BY <1>6, <1>7 DEF VisitInv

\* The command-line client asks for the socket, below no mount.
LEMMA RunClientVisits ==
  ASSUME NEW args \in ClientArgs, AdmissionInv, AdmissionInv', VisitInv, RunClient(args)
  PROVE  VisitInv'
<1> DEFINE asked == IntoMode(args)
           fine  == asked.mode = "client" /\ WsScheme(asked.connect.scheme) # None
<1>1. /\ stage = "start" /\ request = None /\ reply = None
      /\ UNCHANGED <<server, reply, page, missing>>
      /\ client' = [NoClient EXCEPT !.program = "cli", !.auth = IF fine THEN asked.auth ELSE None]
      /\ stage' = IF fine THEN "socket" ELSE "failed"
      /\ ~fine => request' = request
      /\ fine => Ask(WebSocketPath(asked.connect.path), asked.auth, TRUE)
  BY DEF RunClient, AdmissionInv, SidesKnown, Idle
<1>2. client'.program = "cli" /\ client'.mount = <<>>
  BY <1>1 DEF NoClient
<1>3. client'.mount \in Seq(Names) /\ \A p \in Seq(Names) : IsPrefix(client'.mount, p)
  <2> DEFINE none == <<>>
  <2>1. none \in Seq(Names) /\ Len(none) = 0
    OBVIOUS
  <2> HIDE DEF none
  <2>2. ASSUME NEW p \in Seq(Names) PROVE IsPrefix(none, p)
    <3>1. Len(none) <= Len(p) /\ \A i \in 1..Len(none) : none[i] = p[i]
      BY <2>1
    <3> QED
      BY <2>1, <3>1, PrefixPoints
  <2> QED
    BY <1>2, <2>1, <2>2 DEF none
<1>4. CASE ~fine
  BY <1>1, <1>2, <1>3, <1>4
  DEF VisitInv, VisitTypes, PageStands, RequestFits, ReplyFits, Stages
<1>5. CASE fine
  <2> DEFINE path == WebSocketPath(asked.connect.path)
  <2>1. path \in Seq(Names) \ {<<>>} /\ Last(path) = "ws"
    <3> DEFINE base == asked.connect.path
    <3>1. asked.mode = "client"
      BY <1>5
    <3>2. args.subcommand = "client" /\ asked = ClientMode(args.own)
      <4>1. args.subcommand \in {"server", "client", "version", "none"}
        BY ArgumentsAssumption, Zenon
      <4> QED
        BY <3>1, <4>1 DEF IntoMode, ServerMode, FailedMode
    <3>3. base = args.own.connect.path
      BY <3>1, <3>2 DEF ClientMode, FailedMode
    <3>4. base \in Seq(Names) \ {<<>>}
      BY <3>2, <3>3, ArgumentsAssumption, Zenon
    <3> HIDE DEF base
    <3>5. Blank \in Names /\ <<"ws">> \in Seq(Names) /\ <<"ws">> # <<>> /\ Last(<<"ws">>) = "ws"
      BY NamesKnown DEF Last
    <3>6. Slashed(base) \in Seq(Names) \ {<<>>}
      <4>1. Slashed(base) = IF Last(base) = Blank THEN base ELSE Append(base, Blank)
        BY Zenon DEF Slashed, Blank
      <4> QED
        BY <3>4, <3>5, <4>1, AppendProperties
    <3>7. Relative(Slashed(base), <<"ws">>) \in Seq(Names) \ {<<>>}
          /\ Last(Relative(Slashed(base), <<"ws">>)) = "ws"
      BY <3>5, <3>6, LastIsKept
    <3> QED
      BY <3>7 DEF WebSocketPath, base
  <2> HIDE DEF path
  <2>2. Ask(path, asked.auth, TRUE)
    BY <1>1, <1>5 DEF path
  <2>3. /\ request' # None /\ request'[1] \in Requests /\ request'[1].path = path
        /\ request'[1].header = Header(client'.auth) /\ request'[1].upgrade = TRUE
    BY <2>1, <2>2, AskMakes
  <2>4. stage' = "socket" /\ reply' = None
    BY <1>1, <1>5
  <2> HIDE DEF fine, asked
  <2>5. VisitTypes'
    BY <1>1, <1>2, <1>3, <2>3, <2>4 DEF VisitInv, VisitTypes, Stages
  <2>6. Awaited(request[1])'
    BY <1>3, <2>1, <2>3, <2>4 DEF Awaited
  <2> QED
    BY <1>2, <2>3, <2>4, <2>5, <2>6 DEF VisitInv, PageStands, RequestFits, ReplyFits
<1> QED
  BY <1>4, <1>5

\* A browser asks for a path below a mount.
LEMMA VisitVisits ==
  ASSUME NEW to \in Paths, AdmissionInv, AdmissionInv', VisitInv, Visit(to)
  PROVE  VisitInv'
<1>1. /\ stage' = "visiting" /\ reply = None /\ Ask(to.path, None, FALSE)
      /\ client' = [program |-> "browser", auth |-> None, mount |-> to.mount]
      /\ UNCHANGED <<server, reply, page, missing>>
  BY DEF Visit, AdmissionInv, SidesKnown, Idle
<1>2. /\ to.path \in Seq(Names) \ {<<>>} /\ to.mount \in Seq(Names) /\ IsPrefix(to.mount, to.path)
      /\ to.mount # <<>> => Last(to.mount) \notin {Blank, Index}
  BY PathsAssumption, Zenon DEF Blank
<1>3. /\ request' # None /\ request'[1] \in Requests /\ request'[1].path = to.path
      /\ request'[1].header = Header(client'.auth)
  BY <1>1, <1>2, AskMakes
<1>4. VisitTypes'
  BY <1>1, <1>2, <1>3 DEF VisitInv, VisitTypes, Stages
<1>5. Awaited(request[1])'
  BY <1>1, <1>2, <1>3 DEF Awaited
<1> QED
  BY <1>1, <1>3, <1>4, <1>5 DEF VisitInv, PageStands, RequestFits, ReplyFits

\* An answer that is not the proxy's.
LEMMA ServerAnswers ==
  ASSUME NEW r, Answered(r).code # 404
  PROVE  IsPrefix(client.mount, r.path) /\ Answered(r) = Dispatch(server, r)
  BY DEF Answered, Status, Response

\* A redirect is to the same path with a slash, which is below the same mount.
LEMMA FollowRedirectVisits ==
  ASSUME AdmissionInv, AdmissionInv', VisitInv, FollowRedirect
  PROVE  VisitInv'
<1> DEFINE r == reply[1].to
           path == reply[1].is.location[1]
<1>1. /\ stage = "visiting" /\ request = None /\ reply # None /\ reply[1].is.code = 308
      /\ Ask(path, client.auth, FALSE) /\ reply' = None
      /\ UNCHANGED <<server, client, stage, page, missing>>
  BY DEF FollowRedirect, Replied
<1>2. r \in Requests /\ IsPrefix(client.mount, r.path) /\ reply[1].is = Answered(r)
  BY <1>1 DEF VisitInv, ReplyFits, Awaited
<1>3. reply[1].is = Dispatch(server, r)
  BY <1>1, <1>2, ServerAnswers
<1>4. r.path \in Seq(Names) /\ Len(r.path) \in Nat
  BY <1>2 DEF Requests
<1>5. path = WithSlash(r.path)
  <2>1. Dispatch(server, r) = RedirectTo(WithSlash(r.path))
    BY <1>1, <1>3, <1>4, RedirectIs
  <2>2. RedirectTo(WithSlash(r.path)).location[1] = WithSlash(r.path)
    BY DEF RedirectTo, Response, Some
  <2> QED
    BY <1>3, <2>1, <2>2
<1>6. path \in Seq(Names) \ {<<>>} /\ IsPrefix(client.mount, path)
  <2> DEFINE p == r.path
             q == WithSlash(p)
  <2>1. p \in Seq(Names) /\ Blank \in Names /\ client.mount \in Seq(Names) /\ Len(p) \in Nat
        /\ IsPrefix(client.mount, p) /\ Len(client.mount) \in Nat
    BY <1>2, <1>4, NamesKnown DEF VisitInv, VisitTypes
  <2> HIDE DEF p
  <2>2. q \in Seq(Names) /\ q # <<>> /\ Len(q) = Len(p) + 1 /\ \A i \in 1..Len(p) : q[i] = p[i]
    BY <2>1, AppendProperties DEF WithSlash
  <2> HIDE DEF q
  <2>3. Len(client.mount) <= Len(p) /\ \A i \in 1..Len(client.mount) : client.mount[i] = p[i]
    BY <2>1, PrefixPoints
  <2>4. \A i \in 1..Len(client.mount) : i \in 1..Len(p)
    BY <2>1, <2>3
  <2>5. \A i \in 1..Len(client.mount) : client.mount[i] = q[i]
    BY <2>2, <2>3, <2>4, Zenon
  <2>6. Len(client.mount) <= Len(q)
    BY <2>1, <2>2, <2>3
  <2>7. IsPrefix(client.mount, q)
    BY <2>1, <2>2, <2>5, <2>6, PrefixPoints
  <2> QED
    BY <1>5, <2>2, <2>7 DEF p, q
<1>0. Ask(path, client.auth, FALSE)
  BY <1>1
<1> HIDE DEF path
<1>7. /\ request' # None /\ request'[1] \in Requests /\ request'[1].path = path
      /\ request'[1].header = Header(client'.auth)
  BY <1>0, <1>6, AskMakes
<1>8. VisitTypes'
  BY <1>1, <1>7 DEF VisitInv, VisitTypes
<1>9. Awaited(request[1])'
  BY <1>1, <1>6, <1>7 DEF Awaited
<1> QED
  BY <1>1, <1>7, <1>8, <1>9 DEF VisitInv, PageStands, RequestFits, ReplyFits

\* The request is made again, for the same path and with the credential.
LEMMA ChallengedVisits ==
  ASSUME NEW c \in Typed, AdmissionInv, AdmissionInv', VisitInv, Challenged(c)
  PROVE  VisitInv'
<1> DEFINE path == reply[1].to.path
<1>1. /\ stage = "visiting" /\ request = None /\ reply # None
      /\ UNCHANGED <<server, page, missing>>
  BY DEF Challenged, Replied
<1>2. CASE client.auth # None
  <2>1. stage' = "failed" /\ UNCHANGED <<client, request, reply>>
    BY <1>2 DEF Challenged
  <2> QED
    BY <1>1, <2>1 DEF VisitInv, VisitTypes, PageStands, RequestFits, ReplyFits, Awaited, Answered,
       Stages
<1>3. CASE client.auth = None
  <2>1. /\ client' = [client EXCEPT !.auth = Some(NewCredential(c))]
        /\ Ask(path, client'.auth, FALSE) /\ reply' = None /\ stage' = stage
    BY <1>3 DEF Challenged
  <2>2. client'.program = client.program /\ client'.mount = client.mount
    BY <2>1 DEF AdmissionInv, SidesKnown
  <2>3. path \in Seq(Names) \ {<<>>} /\ IsPrefix(client.mount, path)
    BY <1>1 DEF VisitInv, ReplyFits, Awaited, Requests
  <2> HIDE DEF path
  <2>4. /\ request' # None /\ request'[1] \in Requests /\ request'[1].path = path
        /\ request'[1].header = Header(client'.auth)
    BY <2>1, <2>3, AskMakes
  <2>5. VisitTypes'
    BY <1>1, <2>1, <2>2, <2>4 DEF VisitInv, VisitTypes
  <2>6. Awaited(request[1])'
    BY <1>1, <2>1, <2>2, <2>3, <2>4 DEF Awaited
  <2> QED
    BY <1>1, <2>1, <2>4, <2>5, <2>6 DEF VisitInv, PageStands, RequestFits, ReplyFits
<1> QED
  BY <1>2, <1>3

\* A page that is shown was asked for with the server's credential.
LEMMA ShowPageVisits ==
  ASSUME AdmissionInv, VisitInv, ShowPage
  PROVE  VisitInv'
<1> DEFINE r == reply[1].to
           file == reply[1].is.file
           shown == reply[1].is.code = 200 /\ reply[1].is.type = "html"
<1>1. /\ stage = "visiting" /\ request = None /\ reply # None
      /\ UNCHANGED <<server, client, request, reply>>
      /\ stage'   = IF shown THEN "page" ELSE "failed"
      /\ page'    = IF shown THEN Some([path |-> r.path, file |-> file[1]]) ELSE None
      /\ missing' = IF shown THEN FilesOf(file[1]) ELSE {}
  BY DEF ShowPage, Replied
<1>2. /\ r \in Requests /\ r.header = Header(client.auth) /\ IsPrefix(client.mount, r.path)
      /\ reply[1].is = Answered(r)
  BY <1>1 DEF VisitInv, ReplyFits, Awaited
<1>3. r.path \in Seq(Names) /\ r.path # <<>> /\ r.method = "GET"
  BY <1>2 DEF Requests
<1>4. FilesOf(file[1]) \in {{}, {Script, Stylesheet}}
  BY DEF FilesOf
<1>5. CASE shown
  <2>1. /\ page' # None /\ page'[1].path = r.path /\ page'[1].file = file[1]
        /\ stage' = "page" /\ missing' = FilesOf(file[1])
    BY <1>1, <1>5 DEF Some, None
  <2>2. Dispatch(server, r).code = 200 /\ Dispatch(server, r).type = "html"
    <3>1. reply[1].is.code # 404
      BY <1>5
    <3> QED
      BY <1>2, <1>5, <3>1, ServerAnswers
  <2>3. server.assets \in Builds
    BY <1>1 DEF VisitInv, VisitTypes, AdmissionInv, SidesKnown
  <2>4. /\ Authorized(server.auth, r.header) /\ ~Contains(r.path, "..")
        /\ Last(r.path) \in {Blank, Index}
    <3>1. r.path \in Seq(Names) \ {<<>>}
      BY <1>3
    <3> QED
      BY <1>3, <2>2, <2>3, <3>1, PageFound
  <2>5. IsPrefix(client.mount, Front(r.path))
    BY <1>2, <1>3, <2>4, BelowMount DEF VisitInv, VisitTypes
  <2> HIDE DEF r, file, shown
  <2>6. PageStands'
    BY <1>1, <1>2, <1>3, <2>1, <2>4, <2>5 DEF PageStands
  <2>7. VisitTypes'
    BY <1>1, <1>3, <1>4, <2>1 DEF VisitInv, VisitTypes, Stages
  <2> QED
    BY <1>1, <2>1, <2>6, <2>7 DEF VisitInv, RequestFits, ReplyFits, Awaited, Answered
<1>6. CASE ~shown
  <2> HIDE DEF shown
  <2>1. stage' = "failed" /\ page' = None /\ missing' = {}
    BY <1>1, <1>6
  <2> QED
    BY <1>1, <2>1 DEF VisitInv, VisitTypes, PageStands, RequestFits, ReplyFits, Awaited, Answered,
       Stages
<1> QED
  BY <1>5, <1>6

\* What is known of the page that is shown.
LEMMA PageIs ==
  ASSUME PageStands, VisitTypes, stage \in {"page", "loading", "checking"}
  PROVE  /\ page[1].path \in Seq(Names) /\ page[1].path # <<>> /\ ~Contains(page[1].path, "..")
         /\ IsPrefix(client.mount, Front(page[1].path)) /\ client.mount \in Seq(Names)
         /\ Authorized(server.auth, Header(client.auth))
  BY Zenon DEF PageStands, VisitTypes

\* A file is asked for relative to the page.
LEMMA LoadFileVisits ==
  ASSUME NEW name \in missing, AdmissionInv, AdmissionInv', VisitInv, LoadFile(name)
  PROVE  VisitInv'
<1> DEFINE path == Relative(page[1].path, name)
<1>1. /\ stage = "page" /\ stage' = "loading" /\ missing' = missing \ {name}
      /\ Ask(path, client.auth, FALSE) /\ UNCHANGED <<server, client, reply, page>>
  BY DEF LoadFile
<1>2. name \in {Script, Stylesheet} /\ FilesOf(page[1].file) # {}
  BY DEF VisitInv, VisitTypes
<1>3. page[1].path \in Seq(Names) /\ page[1].path # <<>>
  <2>1. stage \in {"page", "loading", "checking"}
    BY <1>1
  <2> QED
    BY <2>1, PageIs, Zenon DEF VisitInv
<1>4. path \in Seq(Names) \ {<<>>}
  <2>1. name \in Seq(Names) /\ name # <<>>
    <3>1. Script \in Seq(Names) /\ Script # <<>> /\ Stylesheet \in Seq(Names) /\ Stylesheet # <<>>
      BY NamesKnown DEF Script, Stylesheet
    <3>2. name = Script \/ name = Stylesheet
      BY <1>2
    <3> QED
      BY <3>1, <3>2, Zenon
  <2> QED
    BY <1>3, <2>1, LastIsKept
<1>5. path = Relative(page[1].path, name)
  OBVIOUS
<1> HIDE DEF path
<1>6. /\ request' # None /\ request'[1] \in Requests /\ request'[1].path = path
      /\ request'[1].header = Header(client'.auth)
  BY <1>1, <1>4, AskMakes
<1>7. VisitTypes'
  BY <1>1, <1>2, <1>6 DEF VisitInv, VisitTypes, Stages
<1>8. Awaited(request[1])'
  BY <1>1, <1>2, <1>5, <1>6 DEF Awaited
<1> QED
  BY <1>1, <1>6, <1>7, <1>8 DEF VisitInv, PageStands, RequestFits, ReplyFits

\* The arrival of a file changes how far the visit is and nothing else.
LEMMA FileArrivesVisits ==
  ASSUME AdmissionInv, VisitInv, FileArrives
  PROVE  VisitInv'
<1>1. /\ stage = "loading" /\ request = None /\ stage' \in {"page", "failed"}
      /\ UNCHANGED <<server, client, request, reply, page, missing>>
  BY DEF FileArrives
<1> QED
  BY <1>1 DEF VisitInv, VisitTypes, PageStands, RequestFits, ReplyFits, Awaited, Answered, Stages

\* The check is asked for relative to the page.
LEMMA CheckAuthVisits ==
  ASSUME AdmissionInv, AdmissionInv', VisitInv, CheckAuth
  PROVE  VisitInv'
<1> DEFINE path == AuthCheckPath(page[1].path)
<1>1. /\ stage = "page" /\ stage' = "checking"
      /\ Ask(path, client.auth, FALSE) /\ UNCHANGED <<server, client, reply, page, missing>>
  BY DEF CheckAuth
<1>2. page[1].path \in Seq(Names) /\ page[1].path # <<>> /\ IsPrefix(client.mount, Front(page[1].path))
      /\ client.mount \in Seq(Names)
  <2>1. stage \in {"page", "loading", "checking"}
    BY <1>1
  <2> QED
    BY <2>1, PageIs, Zenon DEF VisitInv
<1>3. path \in Seq(Names) \ {<<>>}
  <2>1. Slashed(page[1].path) \in Seq(Names) \ {<<>>}
    BY <1>2, NamesKnown, SlashedFacts
  <2>2. <<"auth", "check">> \in Seq(Names) /\ <<"auth", "check">> # <<>>
    BY NamesKnown
  <2> QED
    BY <2>1, <2>2, LastIsKept DEF AuthCheckPath
<1>4. path = AuthCheckPath(page[1].path)
  OBVIOUS
<1> HIDE DEF path
<1>5. /\ request' # None /\ request'[1] \in Requests /\ request'[1].path = path
      /\ request'[1].header = Header(client'.auth)
  BY <1>1, <1>3, AskMakes
<1>6. VisitTypes'
  BY <1>1, <1>5 DEF VisitInv, VisitTypes, Stages
<1>7. Awaited(request[1])'
  BY <1>1, <1>4, <1>5 DEF Awaited
<1> QED
  BY <1>1, <1>5, <1>6, <1>7 DEF VisitInv, PageStands, RequestFits, ReplyFits

\* The socket is asked for relative to the page, and is below its mount.
LEMMA OpenSocketVisits ==
  ASSUME AdmissionInv, AdmissionInv', VisitInv, OpenSocket
  PROVE  VisitInv'
<1> DEFINE path == WebSocketPath(page[1].path)
<1>1. /\ stage = "checking" /\ stage' = "socket"
      /\ Ask(path, client.auth, TRUE) /\ UNCHANGED <<server, client, reply, page, missing>>
  BY DEF OpenSocket
<1>2. page[1].path \in Seq(Names) /\ page[1].path # <<>> /\ IsPrefix(client.mount, Front(page[1].path))
      /\ client.mount \in Seq(Names)
  <2>1. stage \in {"page", "loading", "checking"}
    BY <1>1
  <2> QED
    BY <2>1, PageIs, Zenon DEF VisitInv
<1>3. path \in Seq(Names) \ {<<>>} /\ Last(path) = "ws" /\ IsPrefix(client.mount, path)
  <2> DEFINE base == Slashed(page[1].path)
             ws == <<"ws">>
  <2>1. base \in Seq(Names) /\ base # <<>> /\ IsPrefix(client.mount, Front(base))
    BY <1>2, NamesKnown, SlashedFacts
  <2>2. ws \in Seq(Names) /\ ws # <<>> /\ Last(ws) = "ws"
    BY NamesKnown DEF Last
  <2>3. path = Relative(base, ws)
    BY DEF WebSocketPath
  <2> HIDE DEF base, ws, path
  <2>4. /\ Relative(base, ws) \in Seq(Names) \ {<<>>} /\ Last(Relative(base, ws)) = Last(ws)
        /\ IsPrefix(client.mount, Relative(base, ws))
    BY <1>2, <2>1, <2>2, RelativeFacts
  <2> QED
    BY <2>2, <2>3, <2>4
<1> HIDE DEF path
<1>4. /\ request' # None /\ request'[1] \in Requests /\ request'[1].path = path
      /\ request'[1].header = Header(client'.auth) /\ request'[1].upgrade = TRUE
  BY <1>1, <1>3, AskMakes
<1>5. VisitTypes'
  BY <1>1, <1>4 DEF VisitInv, VisitTypes, Stages
<1>6. Awaited(request[1])'
  BY <1>1, <1>3, <1>4 DEF Awaited
<1> QED
  BY <1>1, <1>4, <1>5, <1>6 DEF VisitInv, PageStands, RequestFits, ReplyFits

\* One lemma for each action that asks, answers or shows.
LEMMA VisitStep == AdmissionInv /\ VisitInv /\ [Next]_vars => VisitInv'
<1> SUFFICES ASSUME AdmissionInv, VisitInv, [Next]_vars PROVE VisitInv'
  OBVIOUS
<1>0. AdmissionInv'
  BY AdmissionStep
<1>1. ASSUME UNCHANGED visit PROVE VisitInv'
  BY <1>1 DEF visit, VisitInv, VisitTypes, PageStands, RequestFits, ReplyFits, Awaited, Answered
<1>2. CASE \E args \in ServerArgs, assets \in Builds : Serve(args, assets)
  BY <1>2, ServeVisits
<1>3. CASE \E args \in ClientArgs : RunClient(args)
  BY <1>0, <1>3, RunClientVisits
<1>4. CASE \E to \in Paths : Visit(to)
  BY <1>0, <1>4, VisitVisits
<1>5. CASE \E c \in Typed : Challenged(c)
  BY <1>0, <1>5, ChallengedVisits
<1>6. CASE \E name \in missing : LoadFile(name)
  BY <1>0, <1>6, LoadFileVisits
<1>7. CASE Answer
  BY <1>7, AnswerVisits
<1>8. CASE FollowRedirect
  BY <1>0, <1>8, FollowRedirectVisits
<1>9. CASE ShowPage
  BY <1>9, ShowPageVisits
<1>10. CASE FileArrives
  BY <1>10, FileArrivesVisits
<1>11. CASE CheckAuth
  BY <1>0, <1>11, CheckAuthVisits
<1>12. CASE OpenSocket
  BY <1>0, <1>12, OpenSocketVisits
<1>13. CASE Opened
  <2>1. /\ stage = "socket" /\ request = None /\ stage' \in {"open", "failed"}
        /\ UNCHANGED <<server, client, request, reply, page, missing>>
    BY <1>13 DEF Opened
  <2> QED
    BY <2>1 DEF VisitInv, VisitTypes, PageStands, RequestFits, ReplyFits, Awaited, Answered, Stages
<1>14. CASE (\E m \in ClientSays : ClientSpeaks(m)) \/ (\E m \in ServerSays : ServerSpeaks(m))
            \/ ServerHears
  BY <1>1, <1>14 DEF ClientSpeaks, ServerSpeaks, ServerHears
<1>15. CASE ClientHears
  <2>1. /\ stage = "open" /\ stage' \in {"open", "ended"}
        /\ UNCHANGED <<server, client, request, reply, page, missing>>
    BY <1>15 DEF ClientHears
  <2> QED
    BY <2>1 DEF VisitInv, VisitTypes, PageStands, RequestFits, ReplyFits, Awaited, Answered, Stages
<1>16. CASE UNCHANGED vars
  BY <1>1, <1>16 DEF vars
<1> QED
  BY <1>2, <1>3, <1>4, <1>5, <1>6, <1>7, <1>8, <1>9, <1>10, <1>11, <1>12, <1>13, <1>14, <1>15,
     <1>16 DEF Next

\* Where a visit is, which request it has made and what the answer to it is.
THEOREM VisitInvariant == Spec => []VisitInv
<1>1. Init => VisitInv
  BY DEF Init, VisitInv, VisitTypes, PageStands, RequestFits, ReplyFits, Stages, NoServer, NoClient
<1> QED
  BY <1>1, AdmissionInvariant, VisitStep, PTL DEF Spec

\* With a reply in hand there is a server, and the reply is what it or the proxy answers.
LEMMA ReplyIs ==
  ASSUME AdmissionInv, VisitInv, request = None, reply # None
  PROVE  /\ server.assets \in Builds /\ Awaited(reply[1].to)
         /\ reply[1].is = Answered(reply[1].to)
<1>1. stage # "start"
  BY DEF AdmissionInv, SidesKnown, Idle
<1>2. server.mode = "server"
  BY <1>1 DEF AdmissionInv, SidesKnown
<1> QED
  BY <1>2 DEF VisitInv, VisitTypes, ReplyFits

\* The files of a page.
FileFits ==
  stage = "loading" /\ (\A i \in DOMAIN page[1].path : page[1].path[i] \notin AssetsTail)
    /\ File(server.assets, <<Index>>) = Some(page[1].file) =>
    \E name \in {Script, Stylesheet} :
      /\ reply[1].is.code = 200 /\ reply[1].is.file = Some(<<page[1].file[1]>> \o name)
      /\ reply[1].is.type = ContentType(name) /\ Last(reply[1].to.path) = Last(name)

\* What arrives while the page loads is the file of its build that was asked for.
LEMMA FilesArrive ==
  ASSUME AdmissionInv, VisitInv, request = None, reply # None
  PROVE  FileFits
<1> SUFFICES ASSUME stage = "loading",
                    \A i \in DOMAIN page[1].path : page[1].path[i] \notin AssetsTail,
                    File(server.assets, <<Index>>) = Some(page[1].file)
             PROVE  \E name \in {Script, Stylesheet} :
                      /\ reply[1].is.code = 200 /\ reply[1].is.file = Some(<<page[1].file[1]>> \o name)
                      /\ reply[1].is.type = ContentType(name) /\ Last(reply[1].to.path) = Last(name)
  BY Zenon DEF FileFits
<1> DEFINE r == reply[1].to
           path == page[1].path
           f == page[1].file
           d == Dispatch(server, r)
<1>1. server.assets \in Builds /\ Awaited(r) /\ reply[1].is = Answered(r)
  BY ReplyIs, Zenon
<1>2. r.header = Header(client.auth)
  BY <1>1, Zenon DEF Awaited
<1>3. PICK name \in {Script, Stylesheet} : r.path = Relative(path, name)
  BY <1>1, Zenon DEF Awaited
<1>4. stage \in {"page", "loading", "checking"}
  OBVIOUS
<1>5. /\ path \in Seq(Names) /\ path # <<>> /\ ~Contains(path, "..")
      /\ IsPrefix(client.mount, Front(path)) /\ client.mount \in Seq(Names)
      /\ Authorized(server.auth, r.header)
  BY <1>2, <1>4, PageIs, Zenon DEF VisitInv
<1>6. FilesOf(f) # {}
  BY Zenon DEF VisitInv, VisitTypes
<1>7. \A i \in DOMAIN path : path[i] \notin AssetsTail
  BY Zenon
<1>8. File(server.assets, <<Index>>) = Some(f)
  BY Zenon
<1> HIDE DEF path, f
<1>9. /\ d = Response(200, Some(<<f[1]>> \o name), ContentType(name), None)
      /\ Last(r.path) = Last(name)
  BY <1>1, <1>3, <1>5, <1>6, <1>7, <1>8, FileIsAnswered, ZenonT(60)
<1>10. IsPrefix(client.mount, r.path)
  <2>1. name \in Seq(Names) /\ name # <<>>
    <3>1. Script \in Seq(Names) /\ Script # <<>> /\ Stylesheet \in Seq(Names) /\ Stylesheet # <<>>
      BY NamesKnown DEF Script, Stylesheet
    <3> QED
      BY <3>1, Zenon
  <2>2. IsPrefix(client.mount, Relative(path, name))
    BY <1>5, <2>1, RelativeFacts, Zenon
  <2> QED
    BY <1>3, <2>2, Zenon
<1>11. reply[1].is = d
  BY <1>1, <1>10, Zenon DEF Answered
<1> DEFINE found == Some(<<f[1]>> \o name)
           type == ContentType(name)
<1>12. /\ Response(200, found, type, None).code = 200
       /\ Response(200, found, type, None).file = found
       /\ Response(200, found, type, None).type = type
  <2> HIDE DEF found, type
  <2> QED
    BY DEF Response
<1> QED
  BY <1>3, <1>9, <1>11, <1>12, ZenonT(30) DEF f

\* The check that the page makes of its credential.
LEMMA CheckPasses ==
  ASSUME AdmissionInv, VisitInv, request = None, reply # None, stage = "checking"
  PROVE  reply[1].is.code = 204
<1> DEFINE r == reply[1].to
           base == Slashed(page[1].path)
           ref == <<"auth", "check">>
<1>1. server.assets \in Builds /\ Awaited(r) /\ reply[1].is = Answered(r)
  BY ReplyIs, Zenon
<1>2. r.header = Header(client.auth) /\ r.path = Relative(base, ref)
  BY <1>1, Zenon DEF Awaited, AuthCheckPath
<1>3. stage \in {"page", "loading", "checking"}
  OBVIOUS
<1>4. /\ page[1].path \in Seq(Names) /\ page[1].path # <<>>
      /\ IsPrefix(client.mount, Front(page[1].path)) /\ client.mount \in Seq(Names)
      /\ Authorized(server.auth, r.header)
  BY <1>2, <1>3, PageIs, Zenon DEF VisitInv
<1>5. base \in Seq(Names) /\ base # <<>> /\ IsPrefix(client.mount, Front(base))
  BY <1>4, NamesKnown, SlashedFacts
<1>6. ref \in Seq(Names) /\ ref # <<>>
  BY NamesKnown
<1>7. Dispatch(server, r) = Status(204)
  <2> HIDE DEF base
  <2> QED
    BY <1>2, <1>4, <1>5, CheckIsAnswered, Zenon
<1> HIDE DEF base, ref
<1>8. IsPrefix(client.mount, r.path)
  <2>1. IsPrefix(client.mount, Relative(base, ref))
    BY <1>4, <1>5, <1>6, RelativeFacts, Zenon
  <2> QED
    BY <1>2, <2>1, Zenon
<1>9. reply[1].is = Status(204)
  BY <1>1, <1>7, <1>8, Zenon DEF Answered
<1> QED
  BY <1>9 DEF Status, Response

\* The socket, of the page and of the command-line client.
LEMMA SocketReached ==
  ASSUME AdmissionInv, VisitInv, request = None, reply # None, stage = "socket"
  PROVE  reply[1].is.code \in {101} \cup (IF client.program = "cli" THEN {401} ELSE {})
<1> DEFINE r == reply[1].to
<1>1. server.assets \in Builds /\ Awaited(r) /\ reply[1].is = Answered(r)
  BY ReplyIs, Zenon
<1>2. /\ r.header = Header(client.auth) /\ r.upgrade /\ Last(r.path) = "ws"
      /\ IsPrefix(client.mount, r.path)
  BY <1>1, Zenon DEF Awaited
<1>3. r.path \in Seq(Names)
  BY <1>1 DEF Awaited, Requests
<1>4. reply[1].is = Dispatch(server, r)
  BY <1>1, <1>2, Zenon DEF Answered
<1>5. CASE Authorized(server.auth, r.header)
  <2>1. Dispatch(server, r) = Status(101)
    BY <1>2, <1>3, <1>5, SocketIsAnswered, Zenon
  <2> QED
    BY <1>4, <2>1 DEF Status, Response
<1>6. CASE ~Authorized(server.auth, r.header)
  <2>1. client.program = "cli"
    BY <1>2, <1>6 DEF VisitInv, PageStands
  <2>2. Dispatch(server, r).code = 401
    <3>1. Dispatch(server, r).code = 401 <=> ~Authorized(server.auth, r.header)
      BY RefusedFirst
    <3> QED
      BY <1>6, <3>1
  <2> QED
    BY <1>4, <2>1, <2>2
<1> QED
  BY <1>5, <1>6

\* A page below any mount gets its files, its check passes and its socket is accepted,
\* for all builds, paths and names; and the command-line client reaches the socket
\* unless its credential is not the server's.
THEOREM PagesAreComplete == Spec => []PageComplete
<1>1. AdmissionInv /\ VisitInv => PageComplete
  <2> SUFFICES ASSUME AdmissionInv, VisitInv, request = None, reply # None
               PROVE  /\ FileFits
                      /\ stage = "checking" => reply[1].is.code = 204
                      /\ stage = "socket" =>
                           reply[1].is.code \in {101} \cup (IF client.program = "cli" THEN {401} ELSE {})
    BY Zenon DEF PageComplete, FileFits
  <2> QED
    BY FilesArrive, CheckPasses, SocketReached, Zenon
<1> QED
  BY <1>1, AdmissionInvariant, VisitInvariant, PTL

\* Every frame on the WebSocket begins with one of the five prefixes.
LEMMA FramesTyped ==
  ASSUME MessagesInv
  PROVE  \A f \in {toServer, toClient} : \A i \in DOMAIN f : f[i][1] \in 0..4
<1>1. \A frame \in Asked : frame[1] \in 0..4
  BY ClientRoundTrip DEF Asked
<1>2. \A frame \in Told : frame[1] \in 0..4
  BY ServerRoundTrip DEF Told
<1>3. toServer \in Seq(Asked) /\ toClient \in Seq(Told)
  BY DEF MessagesInv, ServerGets, ClientGets
<1>4. (\A i \in DOMAIN toServer : toServer[i] \in Asked) /\ (\A i \in DOMAIN toClient : toClient[i] \in Told)
  BY <1>3
<1> QED
  BY <1>1, <1>2, <1>4, Zenon

\* Every variable has its type, for all of the constants.
THEOREM AccessTypes == Spec => []TypeOK
<1>1. VisitInv /\ MessagesInv => TypeOK
  <2> SUFFICES ASSUME VisitTypes, MessagesInv PROVE TypeOK
    BY DEF VisitInv
  <2>1. \A f \in {toServer, toClient} : \A i \in DOMAIN f : f[i][1] \in 0..4
    BY FramesTyped
  <2> QED
    BY <2>1, ZenonT(30) DEF VisitTypes, TypeOK, Codes, Stages
<1> QED
  BY <1>1, VisitInvariant, MessagesInvariant, PTL

=============================================================================
