------------------------------ MODULE MCCodec ------------------------------
EXTENDS Codec, MCCharacters

Http == <<"http", ":", "/", "/">>
Https == <<"HTTPS", ":", "/", "/">>

Authorities ==
  { sub \o name \o prt :
      sub \in {<<>>, <<"WWW", ".">>},
      name \in {<<"a">>, <<"foo">>, <<"A", ".", "com">>, <<"foo", ".", "html">>,
                <<"b", "-", ".", "foo", ".", "com">>, <<"a", ".", ".", "b", ".", "c">>,
                <<"80", ".", "0", ".", "0", ".", "1">>, <<"%", "b", "0", ".", "com">>,
                <<"b", ".">>, <<"a", ".", "b", ".">>,
                (* a host of eleven characters in short labels *)
                <<"f", ".", "f", ".", "f", ".", "f", ".", "f", ".", "f", ".", "com">>,
                (* nine labels, and ten *)
                <<"a">> \o [i \in 1..8 |-> "."] \o <<".", "com">>,
                <<"a">> \o [i \in 1..9 |-> "."] \o <<".", "com">>},
      prt \in {<<>>, <<":", "080">>, <<":", "443">>, <<":", "3000">>, <<":", "9999">>} }

Paths ==
  { <<>>, <<"/">>, <<"/", "foo", "/", "b", "-">>, <<"/", "b", "/">>,
    <<"/", "index", ".", "html">>, <<"/", "a", "/", "index", ".", "php">>,
    <<"/", "INDEX", ".", "html">>, <<"/", "foo", "/", "index", ".">>,
    <<"/", "index", ".", "html", "/">>,
    <<"/", "%", "b", "0", "%", "0", "a">>, <<"/", "eacute">>,
    <<"/", "0", "0", "/", "a", "a", "a">>,
    <<"/", "a", "/", "a", "/", "a", "/", "index", ".", "html">>,
    <<"/", "/", "/", "/">> }

Queries ==
  { <<>>, <<"?">>, <<"?", "a">>, <<"?", "b", "=">>, <<"?", "foo", "=", "1", "&", "=", "=">>,
    <<"?", "&", "&">>, <<"?", "a", "&", "b", "&", "c", "&", "d">> }

Fragments == { <<>>, <<"#">>, <<"#", "/", "b">>, <<"#", "a", "?", "a", "#">> }

(* Every authority with a short resource, every resource with a short host.*)
MCTexts ==
  { s \o a \o r : s \in {Http, Https}, a \in Authorities, r \in {<<>>, <<"?">>} }
  \cup { Http \o <<"a">> \o p \o q \o f : p \in Paths, q \in Queries, f \in Fragments }
  \cup { Https \o <<"a", "@", "b">>, <<"a", "/", "/">> }

(* One text for every form a field can take. *)
MCSampleTexts ==
  { Http \o <<"foo", ".", "com", "/">>,
    Https \o <<"www", ".", "b", ".", "0", ".", "c", ":", "3000", "/", "foo", "/", "b", "-">>,
    Http \o <<"A", "-", ":", "9999", "/", "a", "/", "INDEX", ".", "html", "#", "b">>,
    Http \o <<"%", "b", "0", ".", "com", "/", "index", ".", "html", "?", "a", "=", "1",
             "&", "b">>,
    Https \o <<"b", "?", "a", "&", "b", "&", "c", "#", "eacute", "/">> }
=============================================================================
