--------------------------- MODULE ConnectionConfig ---------------------------
(***************************************************************************)
(* What a database is told to connect to: ParseConnectionString and        *)
(* Endpoint (internal/sparkconnect/config.go), database.SetOptions         *)
(* (driver/spark/database.go), and the metadata that Client.               *)
(* outgoingContext (client.go) makes of it for every request.              *)
(*                                                                         *)
(* A string is a sequence of tokens: the punctuation the parser looks for, *)
(* one token a character, and words, whose spelling matters nowhere else.  *)
(* What a caller means by a connection string is an "address"; Render is   *)
(* the documented way to write it down, and Meaning what docs/connecting.md *)
(* says it stands for, both independent of the parser; Disputed names the  *)
(* fields of which the code is known to make something else.               *)
(***************************************************************************)
EXTENDS Integers, Sequences, SequencesExt, FiniteSets

CONSTANTS
    Calls,       \* for each call of SetOptions, in turn, what it may be given:
                 \* a set of [uri, sparkURI, opts], an address or None for
                 \* either option that may hold one
    Words,       \* the tokens that are not punctuation
    Numerals,    \* the words that strconv.Atoi accepts
    Meant        \* what each value stands for once percent-decoding is done

Punctuation == {"/", ":", ";", "=", "[", "]"}
Tokens == Words \cup Punctuation

MaxCalls == Len(Calls)   \* bound: calls of SetOptions

VARIABLES
    configs,     \* the Configs allocated so far
    dbCfg,       \* database.cfg: the number of one, or 0
    cfg,         \* the local variable of SetOptions, likewise
    todo,        \* options that its loop has not reached yet
    outcome,     \* of the last call: "none", "running", "OK" or a status
    call,        \* the last call
    before,      \* the database's Config when it began
    calls        \* calls so far

vars == <<configs, dbCfg, cfg, todo, outcome, call, before, calls>>

None == [none |-> "none"]
Fail == [failed |-> "failed"]
Slash == <<"/">>   Semi == <<";">>   Equals == <<"=">>   Scheme == <<":", "/", "/">>

-----------------------------------------------------------------------------
(* strings.Index, Cut, Split, TrimSuffix, ToLower; url.PathUnescape.       *)

Occurrences(s, sep) ==
    {i \in 1..(Len(s) + 1 - Len(sep)) : SubSeq(s, i, i + Len(sep) - 1) = sep}
CutAt(s, i, n) == [found |-> TRUE, before |-> SubSeq(s, 1, i - 1),
                   after |-> SubSeq(s, i + n, Len(s))]
NotCut(s) == [found |-> FALSE, before |-> s, after |-> <<>>]

Cut(s, sep) == IF Occurrences(s, sep) = {} THEN NotCut(s)
               ELSE CutAt(s, Min(Occurrences(s, sep)), Len(sep))
CutLast(s, sep) == IF Occurrences(s, sep) = {} THEN NotCut(s)
                   ELSE CutAt(s, Max(Occurrences(s, sep)), Len(sep))

Further(parts, token) == IF <<token>> = Semi THEN Append(parts, <<>>)
                         ELSE Front(parts) \o <<Append(Last(parts), token)>>
Split(s) == FoldLeft(Further, <<<<>>>>, s)

TrimSuffix(s) == IF IsSuffix(Slash, s) THEN Front(s) ELSE s

Lowered == [w \in {"Token", "SC", "X-A"} |->
                CASE w = "Token" -> "token" [] w = "SC" -> "sc" [] w = "X-A" -> "x-a"]
ToLower(s) == [i \in DOMAIN s |-> IF s[i] \in DOMAIN Lowered THEN Lowered[s[i]] ELSE s[i]]

\* A value with a malformed escape is taken as it stands.
Escapes == [w \in {"%3B", "%2F"} |-> IF w = "%3B" THEN ";" ELSE "/"]
PathUnescape(s) == IF Contains(s, "%") THEN s ELSE
    [i \in DOMAIN s |-> IF s[i] \in DOMAIN Escapes THEN Escapes[s[i]] ELSE s[i]]

-----------------------------------------------------------------------------
(* ParseConnectionString.                                                  *)

Default == [Host |-> <<>>, Port |-> "15002", UseTLS |-> "false", Token |-> <<>>,
            UserID |-> <<>>, UserAgent |-> <<"adbc-driver-spark">>,
            SessionID |-> <<>>, Headers |-> [h \in {} |-> <<>>]]

ParseBool == [v \in {<<"true">>, <<"1">>, <<"false">>} |->
                  IF v = <<"false">> THEN "false" ELSE "true"]
SetTLS(c, value) == IF value \notin DOMAIN ParseBool THEN Fail
                    ELSE [c EXCEPT !.UseTLS = ParseBool[value]]

SetHeader(c, name, value) ==
    [c EXCEPT !.Headers = [h \in DOMAIN c.Headers \cup {name} |->
                              IF h = name THEN value ELSE c.Headers[h]]]

UserKeys    == {<<"user_id">>, <<"userid">>, <<"user">>}
AgentKeys   == {<<"user_agent">>, <<"useragent">>}
SessionKeys == {<<"session_id">>, <<"sessionid">>}
TLSKeys     == {<<"use_ssl">>, <<"usessl">>, <<"use_tls">>, <<"usetls">>, <<"ssl">>}

applyParam(c, key, value) ==
    CASE key \in UserKeys    -> [c EXCEPT !.UserID = value]
      [] key = <<"token">>   -> [c EXCEPT !.Token = value]
      [] key \in AgentKeys   -> [c EXCEPT !.UserAgent = value]
      [] key \in SessionKeys -> [c EXCEPT !.SessionID = value]
      [] key \in TLSKeys     -> SetTLS(c, value)
      [] OTHER               -> SetHeader(c, key, value)

\* Mutant: the value begins after the last "=".
ParamOfLast(c, kv) ==
    LET cut == CutLast(kv, Equals) IN
    IF c = Fail \/ kv = <<>> THEN c
    ELSE IF ~cut.found THEN Fail
    ELSE applyParam(c, ToLower(cut.before), PathUnescape(cut.after))

\* One round of the loop over the parameters.
Param(c, kv) ==
    LET cut == Cut(kv, Equals) IN
    IF c = Fail \/ kv = <<>> THEN c
    ELSE IF ~cut.found THEN Fail
    ELSE applyParam(c, ToLower(cut.before), PathUnescape(cut.after))

splitHostPort(s) ==
    IF IsPrefix(<<"[">>, s)
    THEN LET c == Cut(s, <<"]">>) IN
         IF ~c.found THEN [host |-> s, port |-> <<>>]
         ELSE [host |-> Tail(c.before),
               port |-> IF IsPrefix(<<":">>, c.after) THEN Tail(c.after) ELSE <<>>]
    ELSE LET c == CutLast(s, <<":">>) IN [host |-> c.before, port |-> c.after]

\* The host, the port and the parameters that follow the scheme.
HostAndParams(rest) ==
    IF Cut(rest, Slash \o Semi).found THEN Cut(rest, Slash \o Semi)
    ELSE IF Cut(rest, Semi).found THEN Cut(rest, Semi)
    ELSE [Cut(rest, Slash) EXCEPT !.after = <<>>]

ParseConnectionString(conn) ==
    LET cut      == Cut(conn, Scheme)
        scheme   == IF cut.found THEN ToLower(cut.before) ELSE <<>>
        parts    == HostAndParams(IF cut.found THEN cut.after ELSE conn)
        hostPort == TrimSuffix(parts.before)
        hp       == splitHostPort(hostPort)
    IN  IF \/ conn = <<>>
           \/ scheme \notin {<<>>, <<"sc">>, <<"grpc">>, <<"grpcs">>, <<"sc+tls">>}
           \/ hostPort = <<>>
           \/ hp.port # <<>> /\ (Len(hp.port) # 1 \/ hp.port[1] \notin Numerals)
        THEN Fail
        ELSE FoldLeft(Param,
                      [Default EXCEPT
                          !.UseTLS = IF scheme \in {<<"grpcs">>, <<"sc+tls">>}
                                     THEN "true" ELSE "false",
                          !.Host = hp.host,
                          !.Port = IF hp.port = <<>> THEN @ ELSE hp.port[1]],
                      Split(parts.after))

Endpoint(c) == c.Host \o <<":", c.Port>>

-----------------------------------------------------------------------------
(* What a connection string is meant to say.  An address has a scheme, a   *)
(* host, a port, a form ("/;" or ";" before the parameters, or none, with  *)
(* a path) and parameters, <<key, value>> or a word or nothing at all.     *)

\* A key or a value can hold what does not end it.
Parameters ==
    [key : Seq(Tokens \ {";", "="}), value : Seq(Tokens \ {";"}) \cap DOMAIN Meant]
    \cup [word : Seq(Tokens \ {";", "="})]

\* A host is a name, or an IPv6 literal in brackets.
IsName(s) == s \in Seq(Words)
IsLiteral(s) == /\ Len(s) > 1 /\ s[1] = "[" /\ s[Len(s)] = "]"
                /\ SubSeq(s, 2, Len(s) - 1) \in Seq(Words \cup {":"})

IsAddress(a) ==
    /\ Len(a.scheme) <= 1 /\ a.scheme \in Seq(Words)
    /\ a.host \in Seq(Tokens) /\ (IsName(a.host) \/ IsLiteral(a.host))
    /\ Len(a.port) <= 2 /\ a.port \in Seq(Words \cup {":"})
    /\ Len(a.port) > 0 => a.port[1] = ":"
    /\ Len(a.port) > 1 => a.port[2] \in Words
    /\ a.form \in {<<>>, Semi, Slash \o Semi} \cup Seq(Tokens \ {";"})
    /\ a.form # <<>> => a.form[1] \in {"/", ";"}
    /\ a.params \in Seq(Parameters)
    /\ a.params # <<>> => a.form \in {Semi, Slash \o Semi}

\* Words are no punctuation, and a value means itself once unescaped.
ASSUME WordsAssumption ==
    /\ Words \cap Punctuation = {} /\ "no key" \notin Words
    /\ \A v \in DOMAIN Meant : v \in Seq(Tokens) => Meant[v] = PathUnescape(v)

\* Every connection string offered is an address.
ASSUME CallsAssumption ==
    /\ Calls \in Seq({Calls[n] : n \in DOMAIN Calls})
    /\ \A n \in DOMAIN Calls : \A k \in Calls[n] :
          \A a \in {k.uri, k.sparkURI} \ {None} : IsAddress(a)

Written(p) == IF "key" \in DOMAIN p THEN p.key \o Equals \o p.value ELSE p.word

Joined(s, p) == s \o Semi \o Written(p)
Join(params) == FoldLeft(Joined, Written(Head(params)), Tail(params))

RestOf(a) == a.host \o a.port \o a.form \o (IF a.params = <<>> THEN <<>> ELSE Join(a.params))
Render(a) == IF a.scheme = <<>> THEN RestOf(a) ELSE a.scheme \o Scheme \o RestOf(a)

KnownKeys == UserKeys \cup {<<"token">>} \cup AgentKeys \cup SessionKeys \cup TLSKeys

NoKey          == <<"no key">>
Key(a, i)      == IF "key" \in DOMAIN a.params[i] THEN ToLower(a.params[i].key) ELSE NoKey
Keyed(a, keys) == {i \in DOMAIN a.params : Key(a, i) \in keys}
LastSaid(a, keys, default) ==
    IF Keyed(a, keys) = {} THEN default ELSE Meant[a.params[Max(Keyed(a, keys))].value]
HeaderNames(a) == {Key(a, i) : i \in DOMAIN a.params} \ (KnownKeys \cup {NoKey})

Valid(a) ==
    /\ a.scheme \in {<<>>, <<"sc">>, <<"SC">>, <<"grpc">>, <<"grpcs">>, <<"sc+tls">>}
    /\ Len(a.port) = 2 => a.port[2] \in Numerals
    /\ \A i \in DOMAIN a.params : Key(a, i) = NoKey => a.params[i].word = <<>>
    /\ \A i \in Keyed(a, TLSKeys) : a.params[i].value \in DOMAIN ParseBool

TLSSchemes == {<<"grpcs">>, <<"sc+tls">>}
HasToken(a) == LastSaid(a, {<<"token">>}, <<>>) # <<>>

\* TLS is "inferred true when a token is set"; the user agent defaults to
\* "adbc-driver-spark/<version>".
Meaning(a) ==
    [Host      |-> IF IsPrefix(<<"[">>, a.host) THEN Tail(Front(a.host)) ELSE a.host,
     Port      |-> IF Len(a.port) = 2 THEN a.port[2] ELSE "15002",
     UseTLS    |-> ParseBool[LastSaid(a, TLSKeys,
                       IF a.scheme \in TLSSchemes \/ HasToken(a) THEN <<"true">>
                       ELSE <<"false">>)],
     Token     |-> LastSaid(a, {<<"token">>}, <<>>),
     UserID    |-> LastSaid(a, UserKeys, <<>>),
     UserAgent |-> LastSaid(a, AgentKeys, <<"adbc-driver-spark/<version>">>),
     SessionID |-> LastSaid(a, SessionKeys, <<>>),
     Headers   |-> [h \in HeaderNames(a) |-> LastSaid(a, {h}, <<>>)]]

\* Where the code is known not to follow Meaning: it infers no TLS from a
\* token, and its default user agent has no version.
Disputed(a) ==
    {f \in {"UseTLS", "UserAgent"} :
        IF f = "UseTLS" THEN HasToken(a) /\ Keyed(a, TLSKeys) = {} /\ a.scheme \notin TLSSchemes
        ELSE Keyed(a, AgentKeys) = {}}

\* What the parser cannot read as meant: no host, which should be localhost;
\* after a bare ";", a parameter other than the last that ends in "/"; without
\* a scheme, a "://" in a value.
Plain(a) ==
    /\ a.host # <<>>
    /\ a.form = Semi => \A i \in 1..(Len(a.params) - 1) :
                           ~IsSuffix(Slash, Written(a.params[i]))
    /\ a.scheme = <<>> => Occurrences(Render(a), Scheme) = {}

-----------------------------------------------------------------------------
(* database.SetOptions.                                                    *)

firstNonEmpty(k) == IF k.uri # None THEN k.uri ELSE k.sparkURI

TokenOptions  == {"adbc.spark.token", "password"}
UserOptions   == {"adbc.spark.user_id", "username"}
HeaderOptions == [o \in {"adbc.spark.headers.x-a", "adbc.spark.headers.X-A"} |->
                      IF o = "adbc.spark.headers.x-a" THEN <<"x-a">> ELSE <<"X-A">>]
UnknownOptions == {"adbc.spark.headers.", "adbc.spark.bogus"}

\* Mutant: a token or user that is set already is kept.
OptionIfUnset(c, key, value) ==
    CASE key \in TokenOptions -> IF c.Token = <<>> THEN [c EXCEPT !.Token = value] ELSE c
      [] key \in UserOptions  -> IF c.UserID = <<>> THEN [c EXCEPT !.UserID = value] ELSE c
      [] key = "adbc.spark.tls.enabled" -> SetTLS(c, value)
      [] key \in DOMAIN HeaderOptions   -> SetHeader(c, HeaderOptions[key], value)
      [] OTHER -> c

\* The switch in the loop; standard options are accepted and not used.
Option(c, key, value) ==
    CASE key \in TokenOptions           -> [c EXCEPT !.Token = value]
      [] key \in UserOptions            -> [c EXCEPT !.UserID = value]
      [] key = "adbc.spark.user_agent"  -> [c EXCEPT !.UserAgent = value]
      [] key = "adbc.spark.session_id"  -> [c EXCEPT !.SessionID = value]
      [] key = "adbc.spark.tls.enabled" -> SetTLS(c, value)
      [] key \in DOMAIN HeaderOptions   -> SetHeader(c, HeaderOptions[key], value)
      [] key \in UnknownOptions         -> Fail
      [] OTHER                          -> c

Current == IF dbCfg = 0 THEN None ELSE configs[dbCfg]

Init ==
    /\ configs = <<>> /\ dbCfg = 0 /\ cfg = 0 /\ todo = {} /\ calls = 0
    /\ outcome = "none" /\ before = None
    /\ call = [uri |-> None, sparkURI |-> None, opts |-> [o \in {} |-> <<>>]]

Offered == IF calls < MaxCalls THEN Calls[calls + 1] ELSE {}

Refuse(what) == outcome' = what /\ UNCHANGED <<configs, dbCfg, cfg, todo>>

\* On to the options, with the Config to write them into.
StartOptions(k) == todo' = DOMAIN k.opts /\ outcome' = "running"

\* Mutant: the database has the new Config before its options are read.
ReplaceConfig(new) ==
    configs' = Append(configs, new) /\ cfg' = Len(configs') /\ dbCfg' = cfg'

\* A new Config; the database keeps its own for now.
AllocateConfig(new) ==
    configs' = Append(configs, new) /\ cfg' = Len(configs') /\ UNCHANGED dbCfg

\* Without a URI the options go into the database's own Config.  A URI that
\* is missing or cannot be parsed is INVALID_ARGUMENT.
SetOptions == \E k \in Offered :
    LET uri == firstNonEmpty(k) IN
    /\ outcome # "running"
    /\ call' = k /\ before' = Current /\ calls' = calls + 1
    /\ IF uri = None
       THEN IF dbCfg = 0 THEN Refuse("no uri")
            ELSE cfg' = dbCfg /\ StartOptions(k) /\ UNCHANGED <<configs, dbCfg>>
       ELSE LET new == ParseConnectionString(Render(uri)) IN
            IF new = Fail THEN Refuse("bad uri")
            ELSE AllocateConfig(new) /\ StartOptions(k)

\* The loop takes the options in any order; a boolean that is none is
\* INVALID_ARGUMENT, an unknown adbc.spark option NOT_IMPLEMENTED.
ApplyOption == \E key \in todo :
    LET new == Option(configs[cfg], key, call.opts[key]) IN
    /\ outcome = "running"
    /\ todo' = todo \ {key}
    /\ IF new = Fail
       THEN /\ outcome' = IF key \in UnknownOptions THEN "unknown option"
                          ELSE "bad boolean"
            /\ UNCHANGED configs
       ELSE configs' = [configs EXCEPT ![cfg] = new] /\ UNCHANGED outcome
    /\ UNCHANGED <<dbCfg, cfg, call, before, calls>>

AssignConfig ==
    /\ outcome = "running" /\ todo = {}
    /\ dbCfg' = cfg /\ outcome' = "OK"
    /\ UNCHANGED <<configs, cfg, todo, call, before, calls>>

Next == SetOptions \/ ApplyOption \/ AssignConfig

Spec == Init /\ [][Next]_vars

-----------------------------------------------------------------------------
(* What requests make of a Config.                                         *)

\* outgoingContext writes the headers in any order, names in lower case, and
\* after the token: what a name ends up with.
Candidates(c, name) ==
    LET given == {c.Headers[h] : h \in {h \in DOMAIN c.Headers : ToLower(h) = name}}
    IN  IF given # {} THEN given
        ELSE IF name = <<"authorization">> /\ c.Token # <<>>
             THEN {<<"Bearer">> \o c.Token} ELSE {}

\* net.SplitHostPort, by which gRPC reads the target it is to dial.
Dialled(target) == IF Cardinality(Occurrences(target, <<":">>)) = 1
                   THEN splitHostPort(target) ELSE Fail

-----------------------------------------------------------------------------
(* Properties.                                                             *)

Address == firstNonEmpty(call)

\* ParseConnectionString reads what the documented form says: each field has
\* the last value given for it under any of its names, with its own "=", "/",
\* "+" and escapes intact, everything unknown is a header, and a string is
\* refused exactly when something in it is invalid.  The disputed fields are
\* left out.  A host that is a name is dialled as given.
StringMeansWhatItSays ==
    LET a == Address  c == configs[cfg] IN
    /\ (outcome = "bad uri" /\ Plain(a)) => ~Valid(a)
    /\ (outcome = "running" /\ todo = DOMAIN call.opts /\ a # None /\ Plain(a)) =>
           /\ Valid(a)
           /\ \A f \in DOMAIN Meaning(a) \ Disputed(a) : c[f] = Meaning(a)[f]
           /\ ~Contains(c.Host, ":") =>
                  Dialled(Endpoint(c)) = [host |-> c.Host, port |-> <<c.Port>>]

Fields == {"Token", "UserID", "UserAgent", "SessionID", "UseTLS"}
OptionsOf(f) == CASE f = "Token"     -> TokenOptions
                  [] f = "UserID"    -> UserOptions
                  [] f = "UserAgent" -> {"adbc.spark.user_agent"}
                  [] f = "SessionID" -> {"adbc.spark.session_id"}
                  [] f = "UseTLS"    -> {"adbc.spark.tls.enabled"}
Values(keys) == {call.opts[k] : k \in keys \cap DOMAIN call.opts}
Asked(f) == IF f = "UseTLS" THEN {ParseBool[v] : v \in Values(OptionsOf(f)) \cap DOMAIN ParseBool}
            ELSE Values(OptionsOf(f))
AskedHeader(h) == Values({k \in DOMAIN HeaderOptions : HeaderOptions[k] = h})

HeaderOf(c, h) == IF h \in DOMAIN c.Headers THEN {c.Headers[h]} ELSE {}
AllHeaders == {<<"x-a">>, <<"X-A">>}

\* A token "implies TLS".
Inferred(f) == IF f = "UseTLS" /\ Current.Token # <<>> THEN {"true"} ELSE {}

\* "Option keys take precedence", for a first call and for a later one, with
\* or without a string of its own: after a call that succeeded each field and
\* header that an option names has that option's value (one of them, where
\* two options name the same field), and every other the string's, or without
\* a string the value from before; but where there is a token and no option
\* about TLS, TLS may be on as well, as the documents have it.  A request then
\* carries an option's header, unless the string has it in another case.
OptionsTakePrecedence ==
    LET base == IF Address = None THEN before
                ELSE ParseConnectionString(Render(Address))
    IN  outcome = "OK" =>
        /\ Current.Host = base.Host /\ Current.Port = base.Port
        /\ \A f \in Fields : Current[f] \in IF Asked(f) = {} THEN {base[f]} \cup Inferred(f)
                                           ELSE Asked(f)
        /\ \A h \in AllHeaders :
               HeaderOf(Current, h) = IF AskedHeader(h) = {} THEN HeaderOf(base, h)
                                      ELSE AskedHeader(h)
        /\ \A h \in AllHeaders :
               (AskedHeader(h) # {} /\ \A o \in DOMAIN Current.Headers :
                    ToLower(o) = ToLower(h) => AskedHeader(o) # {}) =>
               Candidates(Current, ToLower(h)) \subseteq Values(DOMAIN HeaderOptions)

\* A call with a connection string changes the database all at once or, when
\* the string or any option after it is refused, not at all.  Without one it
\* may stop half-way, and then every field has its old value or an option's.
FailedCallKeepsConfig ==
    outcome \notin {"none", "OK"} =>
        IF Address # None \/ before = None THEN Current = before
        ELSE /\ Current.Host = before.Host /\ Current.Port = before.Port
             /\ \A f \in Fields : Current[f] \in Asked(f) \cup {before[f]}
             /\ \A h \in AllHeaders :
                    HeaderOf(Current, h) \in {HeaderOf(before, h), AskedHeader(h)}

=============================================================================
