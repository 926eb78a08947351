-------------------------- MODULE MCConnectionConfig --------------------------
(* Addresses that vary in the part before the parameters, and addresses with *)
(* up to two parameters of any kind; option maps of up to three options.     *)
EXTENDS ConnectionConfig, TLC

MCMeant ==
    (<<"a", "+", "=">> :> <<"a", "+", "=">>) @@ (<<"%3B", "a">> :> <<";", "a">>)
    @@ (<<"%", "%3B">> :> <<"%", "%3B">>) @@ (<<"a", "/">> :> <<"a", "/">>)
    @@ (<<"http", ":", "/", "/", "a">> :> <<"http", ":", "/", "/", "a">>)
    @@ (<<>> :> <<>>) @@ (<<"true">> :> <<"true">>) @@ (<<"1">> :> <<"1">>)
    @@ (<<"false">> :> <<"false">>) @@ (<<"%2F">> :> <<"/">>)

MCNumerals == {"443", "15002"}

MCWords == {"sc", "SC", "grpcs", "http", "h", "1", "443", "https", "15002", "db", "user_id",
            "user", "Token", "x-a", "ssl", "session_id", "useragent", "justakey", "a", "+",
            "%", "%3B", "%2F", "true", "false"}

Param1(k, v) == [key |-> k, value |-> v]
Word(w) == [word |-> w]

Params ==
    {Param1(k, v) : k \in {<<"user_id">>, <<"user">>, <<"Token">>, <<"x-a">>},
                    v \in {<<"a", "+", "=">>, <<"%3B", "a">>, <<"a", "/">>}}
    \cup {Param1(<<"ssl">>, v) : v \in {<<"false">>, <<"1">>, <<"a", "/">>}}
    \cup {Param1(<<"session_id">>, <<"%", "%3B">>), Param1(<<"useragent">>, <<"%2F">>),
          Param1(<<"x-a">>, <<"http", ":", "/", "/", "a">>), Param1(<<>>, <<>>),
          Word(<<>>), Word(<<"justakey">>)}

Addr(s, h, p, f, ps) == [scheme |-> s, host |-> h, port |-> p, form |-> f, params |-> ps]
Hosts == {<<"h">>, <<"[", ":", ":", "1", "]">>}
Schemes == {<<>>, <<"SC">>, <<"grpcs">>}
User == Param1(<<"user_id">>, <<"a", "/">>)

Heads ==
    {Addr(s, h, p, f, <<>>) :
        s \in Schemes \cup {<<"http">>}, h \in Hosts \cup {<<>>},
        p \in {<<>>, <<":">>, <<":", "443">>, <<":", "https">>},
        f \in {Slash, Slash \o Semi, Slash \o <<"db">>}}
    \cup {Addr(s, h, p, <<>>, <<>>) : s \in Schemes, h \in Hosts, p \in {<<>>, <<":", "443">>}}
Parametrised ==
    {Addr(s, h, <<>>, f, ps) : s \in Schemes \ {<<"SC">>}, h \in {<<"h">>},
        f \in {Semi, Slash \o Semi},
        ps \in {<<p>> : p \in Params} \cup {<<p, q>> : p, q \in Params}}

Call(u, su, o) == [uri |-> u, sparkURI |-> su, opts |-> o]
NoOptions == [o \in {} |-> <<>>]
A1 == Addr(<<"sc">>, <<"h">>, <<":", "443">>, Slash \o Semi,
           <<User, Param1(<<"Token">>, <<"a", "/">>), Param1(<<"x-a">>, <<"a", "/">>)>>)
A2 == Addr(<<"grpcs">>, <<"h">>, <<>>, Slash \o Semi, <<Param1(<<"user">>, <<"%3B", "a">>)>>)

Keys == {"adbc.spark.token", "password", "username", "adbc.spark.user_agent",
         "adbc.spark.session_id", "adbc.spark.tls.enabled", "adbc.spark.headers.x-a",
         "adbc.spark.headers.X-A", "adbc.spark.bogus", "adbc.connection.autocommit"}
KeySets == {S \in SUBSET Keys : Cardinality(S) <= 3}
ValueOf(k) == IF k = "adbc.spark.tls.enabled" THEN {<<"true">>, <<"%2F">>} ELSE {<<k>>}
OptionMaps == {o \in UNION {[S -> UNION {ValueOf(k) : k \in S}] : S \in KeySets} :
                  \A k \in DOMAIN o : o[k] \in ValueOf(k)}

Small == {o \in OptionMaps : Cardinality(DOMAIN o) <= 2}
Single == {o \in OptionMaps : Cardinality(DOMAIN o) = 1}
Bad == {o \in Single : DOMAIN o \subseteq {"adbc.spark.bogus", "adbc.spark.tls.enabled"}}

\* A first call of every sort, then one with few options.
MCCalls == <<{Call(a, None, NoOptions) : a \in Heads \cup Parametrised}
             \cup {Call(A1, None, o) : o \in OptionMaps}
             \cup {Call(None, A2, o) : o \in Small}
             \cup {Call(A1, A2, o) : o \in Single} \cup {Call(None, None, o) : o \in Single},
             {Call(None, None, o) : o \in Small} \cup {Call(A2, None, o) : o \in Bad}
             \cup {Call(Addr(<<"http">>, <<"h">>, <<>>, <<>>, <<>>), None, NoOptions)}>>

=============================================================================
