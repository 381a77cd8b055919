--------------------------- MODULE ConnectionForm ---------------------------
(***************************************************************************)
(* What a connection says and the three ways it is rewritten: the dialog   *)
(* that edits it (ConnectionDialog and its tabs), the string it becomes    *)
(* (ConnectionSettings::buildMongoUri for the driver, ConnectionUri::build *)
(* for mongosh and the database tools) and the string it is read from (the *)
(* "From URI" button over the MongoURI of mongo_compat).                   *)
(*                                                                         *)
(* Texts are members of small sets; "" is the empty text.  A member of a   *)
(* replica set is <<host, port>>.  A connection string is a record of its  *)
(* parts, its options a set of <<key, value>>.  The module is constant:    *)
(* its properties quantify over Stored, the connections of its bounds.     *)
(***************************************************************************)
EXTENDS Naturals, Sequences, SequencesExt, FiniteSets

NoText == ""
Mechanisms == {"SCRAM-SHA-1", "SCRAM-SHA-256"}     \* of the combo box
FilesThatExist == {"file"}

\* Percent encoding of a user name or a password: "p@" holds a reserved
\* character, "p%40" is what it becomes.
Encode == [t \in {NoText, "u", "p", "p@", "p%40"} |->
             CASE t = "p@" -> "p%40" [] t = "p%40" -> "p%2540" [] OTHER -> t]

\* CredentialSettings() and what primaryCredential() adds to an empty list.
NoCredential == [on |-> FALSE, user |-> NoText, pw |-> NoText, db |-> NoText, mech |-> NoText]
Primary(s) == IF s.creds = <<>> THEN NoCredential ELSE s.creds[1]
Named(s) == Primary(s).user # NoText

NoSsh == [on |-> FALSE, method |-> "publickey", key |-> NoText, ask |-> FALSE, pw |-> NoText]
NoTls == [on |-> FALSE, anyCert |-> FALSE, ca |-> NoText, usePem |-> FALSE, pem |-> NoText,
          ask |-> FALSE, pemPw |-> NoText, crl |-> NoText, anyHost |-> FALSE]
\* ConnectionSettings(): a new connection.
NewSettings ==
  [rs |-> FALSE, srv |-> FALSE, host |-> "a", port |-> 27017, members |-> <<>>, entered |-> NoText,
   cached |-> NoText, db |-> NoText, creds |-> <<>>, ssh |-> NoSsh, tls |-> NoTls]

Opt(on, key, value) == IF on THEN {<<key, value>>} ELSE {}
UriHosts(s) == CASE s.srv -> <<<<s.host, 0>>>>
                 [] ~s.srv /\ s.rs -> s.members
                 [] OTHER -> <<<<s.host, s.port>>>>
SetName(s) == IF s.entered # NoText THEN s.entered ELSE s.cached
Userinfo(s) == IF Named(s) THEN <<Encode[Primary(s).user], Encode[Primary(s).pw]>> ELSE <<>>
AuthOptions(s) ==
  LET m == Primary(s).mech
  IN Opt(Named(s) /\ ~s.srv, "authMechanism", IF m = NoText THEN "SCRAM-SHA-256" ELSE m)
     \union Opt(Named(s) /\ Primary(s).db # NoText, "authSource", Primary(s).db)
TlsOptions(s) ==
  Opt(s.tls.on, "tls", "true") \union Opt(s.tls.on /\ s.tls.ca # NoText, "tlsCAFile", s.tls.ca)
    \union Opt(s.tls.on /\ s.tls.pem # NoText, "tlsCertificateKeyFile", s.tls.pem)
    \union Opt(s.tls.on /\ s.tls.anyCert, "tlsAllowInvalidCertificates", "true")

\* buildMongoUri: timeouts, always there and of no other effect, are left out.
Uri(s) ==
  [srv |-> s.srv, user |-> Userinfo(s), hosts |-> UriHosts(s), db |-> s.db,
   opts |-> AuthOptions(s) \union Opt(s.rs /\ SetName(s) # NoText, "replicaSet", SetName(s))
              \union TlsOptions(s) \union Opt(~s.rs /\ ~s.srv, "directConnection", "true")]

\* ConnectionUri::build, which repeats buildMongoUri line by line: o says
\* whether the path and directConnection are wanted, db which path.
ToolUri(s, db, o) ==
  [srv |-> s.srv,
   user |-> IF Named(s) THEN <<Encode[Primary(s).user], Encode[Primary(s).pw]>> ELSE <<>>,
   hosts |-> IF s.srv THEN <<<<s.host, 0>>>> ELSE IF s.rs THEN s.members ELSE <<<<s.host, s.port>>>>,
   db |-> IF ~o.path THEN NoText ELSE IF db = NoText THEN s.db ELSE db,
   opts |-> AuthOptions(s) \union Opt(s.rs /\ SetName(s) # NoText, "replicaSet", SetName(s))
              \union TlsOptions(s) \union Opt(o.direct /\ ~s.rs /\ ~s.srv, "directConnection", "true")]

-----------------------------------------------------------------------------
(* The dialog *)

\* The widgets of the tabs when the dialog opens.
OpenAuth(s) ==
  [useAuth |-> s.creds # <<>> /\ Primary(s).on,
   authDb |-> IF s.creds = <<>> THEN "admin" ELSE Primary(s).db,
   user |-> Primary(s).user, pw |-> Primary(s).pw,
   mech |-> IF Primary(s).mech \in Mechanisms THEN Primary(s).mech ELSE "SCRAM-SHA-1"]
OpenBasic(s) ==
  [type |-> s.rs, address |-> s.host, port |-> s.port, setName |-> s.entered,
   items |-> IF s.rs /\ s.members # <<>> THEN s.members ELSE <<<<"localhost", 27017>>>>]
OpenSsh(s) ==
  [useSsh |-> s.ssh.on, method |-> IF s.ssh.method = "publickey" THEN "publickey" ELSE "password",
   key |-> s.ssh.key, askSsh |-> s.ssh.ask, sshPw |-> IF s.ssh.ask THEN NoText ELSE s.ssh.pw]
OpenTls(s) == [tls |-> [s.tls EXCEPT !.pemPw = IF s.tls.ask THEN NoText ELSE @]]
OpenAdvanced(s) == [defaultDb |-> s.db]
Merge(f, g) == [k \in DOMAIN f \union DOMAIN g |-> IF k \in DOMAIN g THEN g[k] ELSE f[k]]
\* isSrv is in no widget: the button writes it into the settings.
Open(s) == Merge(Merge(OpenAuth(s), OpenBasic(s)),
                 Merge(Merge(OpenSsh(s), OpenTls(s)), OpenAdvanced(s)))

AcceptAuthWhenEnabled(f, s) ==               \* mutant
  [s EXCEPT !.creds = IF ~f.useAuth THEN <<>>
                      ELSE <<[on |-> f.useAuth, user |-> f.user, pw |-> f.pw,
                              db |-> f.authDb, mech |-> f.mech]>>]
AcceptAuth(f, s) ==
  [s EXCEPT !.creds = IF f.user = NoText /\ f.pw = NoText /\ f.authDb = NoText THEN <<>>
                      ELSE <<[on |-> f.useAuth, user |-> f.user, pw |-> f.pw,
                              db |-> f.authDb, mech |-> f.mech]>>]
\* A member of several needs a port (the list writes one) and may not repeat.
BasicIsValid(f) == f.type => f.items # <<>> /\ (Len(f.items) > 1 => IsInjective(f.items))
AcceptBasic(f, s) ==
  IF f.type
  THEN [s EXCEPT !.rs = TRUE, !.host = f.items[1][1], !.port = f.items[1][2],
                 !.members = f.items, !.entered = f.setName, !.cached = NoText]
  ELSE [s EXCEPT !.rs = FALSE, !.host = f.address, !.port = f.port]
SshIsOn(f) == ~f.type /\ f.useSsh      \* the tab is disabled for a replica set
SshIsValid(f) == SshIsOn(f) /\ f.method = "publickey" => f.key \in FilesThatExist
AcceptSsh(f, s) ==
  [s EXCEPT !.ssh = [on |-> SshIsOn(f), method |-> f.method, key |-> f.key, ask |-> f.askSsh,
                     pw |-> f.sshPw]]
\* The files are looked at after the fields were saved.
TlsIsValid(f) == f.tls.crl # NoText => f.tls.crl \in FilesThatExist
AcceptTls(f, s) == [s EXCEPT !.tls = [f.tls EXCEPT !.pemPw = IF f.tls.ask THEN NoText ELSE @]]
AcceptAdvanced(f, s) == [s EXCEPT !.db = f.defaultDb]
Validates(f) == BasicIsValid(f) /\ SshIsValid(f) /\ TlsIsValid(f)
\* validateAndApply, of a form that validates.
Accept(f, s) == AcceptTls(f, AcceptSsh(f, AcceptBasic(f, AcceptAdvanced(f, AcceptAuth(f, s)))))

\* The + and - buttons of the list of members and what its editor makes of a
\* text: "x:p" keeps its digits, "x" gets the default port, "" goes away.
AddMember(items) ==
  IF items = <<>> THEN <<<<"localhost", 27017>>>>
  ELSE Append(items, <<Last(items)[1], Last(items)[2] + 1>>)
RemoveMember(items) == IF items = <<>> THEN items ELSE Front(items)
EditMember(items, i, host, port) ==
  IF host = NoText THEN RemoveAt(items, i) ELSE [items EXCEPT ![i] = <<host, port>>]

-----------------------------------------------------------------------------
(* "From URI" *)

\* MongoURI::parse, the program's own: it knows hosts, user, password and
\* path, and takes only the presence of a replicaSet option.
Parse(u) ==
  [set |-> \E o \in u.opts : o[1] = "replicaSet", setName |-> NoText,
   user |-> IF u.user = <<>> THEN NoText ELSE u.user[1],
   pw |-> IF u.user = <<>> THEN NoText ELSE u.user[2],
   db |-> u.db, servers |-> u.hosts]
ClearAuth(f) == Merge(f, [useAuth |-> FALSE, authDb |-> NoText, user |-> NoText, pw |-> NoText,
                          mech |-> "SCRAM-SHA-1"])
ClearBasic(f) == Merge(f, [type |-> FALSE, address |-> NoText, port |-> 0, items |-> <<>>,
                           setName |-> NoText])
\* "Use TLS" and the CRL stay as they were.
ClearTls(f) == [f EXCEPT !.tls = [@ EXCEPT !.anyCert = FALSE, !.ca = NoText, !.usePem = FALSE,
                                          !.pem = NoText, !.pemPw = NoText, !.anyHost = FALSE]]
FromUri(u, f) ==
  LET p == Parse(u)
      c == ClearTls(ClearAuth(ClearBasic(f)))
      basic == CASE u.srv -> Merge(c, [address |-> u.hosts[1][1]])
                 [] ~u.srv /\ p.set -> Merge(c, [type |-> TRUE, items |-> p.servers,
                                                 setName |-> p.setName])
                 [] OTHER -> Merge(c, [address |-> p.servers[1][1], port |-> p.servers[1][2]])
      auth == IF p.user = NoText THEN basic
              ELSE Merge(basic, [useAuth |-> TRUE, user |-> p.user, pw |-> p.pw,
                                 authDb |-> IF p.db = NoText THEN "admin" ELSE p.db])
  IN Merge(auth, [defaultDb |-> p.db])
\* The button and then OK: the settings know of the scheme at once.
Import(u, s) == LET t == [s EXCEPT !.srv = u.srv] IN Accept(FromUri(u, Open(t)), t)

-----------------------------------------------------------------------------
(* The connections of the bounds, one group of fields varied at a time *)
Creds == [on : BOOLEAN, user : {NoText, "u"}, pw : {NoText, "p", "p@"}, db : {NoText, "admin", "test"},
          mech : Mechanisms \union {NoText}]
WithAuth == {[NewSettings EXCEPT !.creds = <<c>>, !.srv = v, !.db = d] :
               c \in Creds, v \in BOOLEAN, d \in {NoText, "test"}}
\* What n uses of the buttons and of the editor of the list can leave.
Lists[n \in 0..3] ==
  IF n = 0 THEN {<<>>, <<<<"localhost", 27017>>>>}
  ELSE LET before == Lists[n - 1]
       IN before \union {AddMember(m) : m \in before} \union {RemoveMember(m) : m \in before}
          \union UNION {{EditMember(m, i, h, 27018) : i \in DOMAIN m, h \in {NoText, "b"}} : m \in before}
WithHosts == {[NewSettings EXCEPT !.rs = r, !.srv = v, !.host = m[1][1], !.port = m[1][2], !.members = m,
                                  !.entered = e, !.cached = k] :
                r \in BOOLEAN, v \in BOOLEAN, e \in {NoText, "rs0"}, k \in {NoText, "rs1"},
                m \in {q \in Lists[3] : q # <<>> /\ IsInjective(q)}}
WithTls == {[NewSettings EXCEPT !.tls = t] : t \in
              [on : BOOLEAN, anyCert : BOOLEAN, ca : {NoText, "file"}, usePem : BOOLEAN,
               pem : {NoText, "file"}, ask : BOOLEAN, pemPw : {NoText, "p"}, crl : {NoText, "file"}, anyHost : BOOLEAN]}
WithSsh == {[NewSettings EXCEPT !.ssh = h] : h \in
              [on : BOOLEAN, method : {"publickey", "password"}, key : {"file"}, ask : BOOLEAN,
               pw : {NoText, "p"}]}
Stored == WithAuth \union WithHosts \union WithTls \union WithSsh

KeptUri ==
  \A s \in Stored :
    (Named(s) => Primary(s).mech \in Mechanisms)
      => /\ Validates(Open(s))
         /\ Uri(Accept(Open(s), s)) = Uri([s EXCEPT !.cached = IF s.rs THEN NoText ELSE @])

SameForTools ==
  \A s \in Stored, db \in {NoText, "test"}, p \in BOOLEAN :
    LET t == ToolUri(s, db, [path |-> p, direct |-> TRUE])
    IN t = [Uri(s) EXCEPT !.db = t.db]

SameAfterImport ==
  \A s \in Stored, t \in {NewSettings, [NewSettings EXCEPT !.rs = TRUE, !.members = <<<<"b", 27018>>>>]}
                           \union {x \in WithAuth : x.db = "test" /\ Primary(x).db = NoText} :
    (s.rs /\ ~s.srv => SetName(s) # NoText) /\ Encode[Primary(s).pw] = Primary(s).pw
      => LET u == Uri(Import(Uri(s), t))
         IN u.srv = s.srv /\ u.hosts = UriHosts(s) /\ u.user = Userinfo(s) /\ u.db = s.db
=============================================================================
