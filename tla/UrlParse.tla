------------------------------ MODULE UrlParse ------------------------------
(***************************************************************************)
(* urlparse.rs: normalisation of a URL text, its split into the fields of  *)
(* ParsedUrl, and the Display of those fields.  Pure operators; a parse    *)
(* result is [ok |-> FALSE] or [ok |-> TRUE, url |-> ParsedUrl].           *)
(***************************************************************************)
EXTENDS UrlText

Invalid == [ok |-> FALSE]
Valid(v) == [ok |-> TRUE, url |-> v]

(* bug: the hex digits of an existing escape are copied as they are *)
NormalizePercentKeepsCase(s) ==
  LET from[i \in 1..(Len(s) + 3)] ==
        IF i > Len(s) THEN <<>>
        ELSE IF s[i] \in DOMAIN Utf8
        THEN FlattenSeq([k \in 1..Len(Utf8[s[i]]) |-> Escape(Utf8[s[i]][k])])
               \o from[i + 1]
        ELSE <<s[i]>> \o from[i + 1]
  IN  Valid(from[1])

(* The scan of the characters: an escape must be whole and its digits go   *)
(* to upper case, a non-ASCII character becomes the escapes of its bytes.  *)
NormalizePercentEncoding(s) ==
  LET wellFormed(i) ==
        i + 2 <= Len(s) /\ IsHex(s[i + 1]) /\ IsHex(s[i + 2])
      head(i) ==
        CASE s[i] = "%" -> <<"%", HexUp(s[i + 1]), HexUp(s[i + 2])>>
          [] s[i] \in DOMAIN Utf8 ->
               FlattenSeq([k \in 1..Len(Utf8[s[i]]) |-> Escape(Utf8[s[i]][k])])
          [] OTHER -> <<s[i]>>
      from[i \in 1..(Len(s) + 3)] ==
        IF i > Len(s) THEN Valid(<<>>)
        ELSE IF s[i] = "%" /\ ~wellFormed(i) THEN Invalid
        ELSE LET rest == from[i + (IF s[i] = "%" THEN 3 ELSE 1)]
             IN  IF rest.ok THEN Valid(head(i) \o rest.url) ELSE Invalid
  IN  from[1]

(* Lower case, except that the digits of an escape stay upper case. *)
NormalizeHostEscapes(s) ==
  LET inEscape(i) == \E k \in 1..2 : i > k /\ s[i - k] = "%"
  IN  [i \in 1..Len(s) |->
         IF inEscape(i) /\ IsHex(s[i]) THEN HexUp(s[i]) ELSE Lower(s[i])]

-----------------------------------------------------------------------------
(* The resource part. *)

(* bug: a trailing slash leaves no empty last segment behind *)
SplitPathTrims(path) ==
  LET parts == Split(Tail(path), "/")
  IN  IF path = <<>> THEN <<>>
      ELSE IF Len(parts) > 1 /\ parts[Len(parts)] = <<>>
      THEN SubSeq(parts, 1, Len(parts) - 1) ELSE parts

SplitPath(path) ==
  IF path = <<>> THEN <<>>
  ELSE Split(IF path[1] = "/" THEN Tail(path) ELSE path, "/")

NoValue == [some |-> FALSE, text |-> <<>>]
SomeValue(v) == [some |-> TRUE, text |-> v]

(* bug: a pair is split at its last "=" *)
SplitPairLast(pair) ==
  LET eq == RFind(pair, {"="})
  IN  IF eq = 0 THEN [key |-> pair, value |-> NoValue]
      ELSE [key |-> Before(pair, eq), value |-> SomeValue(After(pair, eq))]

SplitPair(pair) ==
  LET eq == Find(pair, {"="})
  IN  IF eq = 0 THEN [key |-> pair, value |-> NoValue]
      ELSE [key |-> Before(pair, eq), value |-> SomeValue(After(pair, eq))]

SplitQuery(query, present) ==
  LET pairs == Split(query, "&")
  IN  IF ~present THEN <<>> ELSE [i \in 1..Len(pairs) |-> SplitPair(pairs[i])]

SplitFragment(fragment) ==
  IF fragment = <<>> THEN <<>> ELSE Split(fragment, "/")

(* The kinds of IndexSuffix; the literal of Other is the last segment. *)
DetectIndexSuffix(path) ==
  LET last == path[Len(path)]
      lowered == [i \in 1..Len(last) |-> Lower(last[i])]
  IN  IF path = <<>> THEN "none"
      ELSE IF last = <<"index", ".", "html">> THEN "html"
      ELSE IF last = <<"index", ".", "php">> THEN "php"
      ELSE IF IsPrefix(<<"index", ".">>, lowered) THEN "other"
      ELSE "none"

-----------------------------------------------------------------------------
(* The authority. *)

IsIpv4Literal(host) ==
  LET groups == Split(host, ".")
  IN  /\ Len(groups) = 4
      /\ \A k \in 1..4 : Len(groups[k]) = 1 /\ groups[k][1] \in Octets

(* bug: port 80 is taken for the default of https as well *)
DefaultPortHttpOnly(https) == HttpPort

DefaultPort(https) == IF https THEN HttpsPort ELSE HttpPort

(* host and tld of a host label and its port suffix: the cut is at the     *)
(* last dot of the two together, and drops that dot.                       *)
SplitHost(label, suffix) ==
  LET full == label \o suffix
      dot  == RFind(full, {"."})
  IN  IF IsIpv4Literal(label) \/ dot = 0 THEN [host |-> full, tld |-> <<>>]
      ELSE [host |-> Before(full, dot), tld |-> After(full, dot)]

ParseAuthority(authority, https) ==
  LET colon   == RFind(authority, {":"})
      portTxt == After(authority, colon)
      number  == Len(portTxt) = 1 /\ portTxt[1] \in DOMAIN Numeral
      port    == Numeral[portTxt[1]]
      suffix  == IF colon = 0 \/ port = DefaultPort(https) THEN <<>>
                 ELSE <<":", PortText[port]>>
      part    == IF colon = 0 THEN authority ELSE Before(authority, colon)
      lowered == NormalizeHostEscapes(part)
      www     == IsPrefix(<<"www", ".">>, lowered)
      label   == IF www THEN SubSeq(lowered, 3, Len(lowered)) ELSE lowered
      split   == SplitHost(label, suffix)
  IN  IF \/ authority = <<>> \/ Contains(authority, "@") \/ authority[1] = "["
         \/ colon # 0 /\ ~number
         \/ Contains(part, ":")
         \/ label = <<>> \/ split.host = <<>>
      THEN Invalid
      ELSE Valid([www |-> www, host |-> split.host, tld |-> split.tld])

SchemeEnd(t) ==
  LET at(i) == SubSeq(t, i, i + 2) = <<":", "/", "/">>
      ends  == {i \in 1..(Len(t) - 2) : at(i)}
  IN  IF ends = {} THEN 0 ELSE CHOOSE i \in ends : \A j \in ends : i <= j

SchemeOf(text) == [i \in 1..Len(text) |-> Lower(text[i])]

(* The authority and everything after it, of a text normalised already. *)
ParseRest(https, rest) ==
  LET stop      == Find(rest, {"/", "?", "#"})
      resource  == IF stop = 0 THEN <<>> ELSE SubSeq(rest, stop, Len(rest))
      hash      == Find(resource, {"#"})
      pathQuery == IF hash = 0 THEN resource ELSE Before(resource, hash)
      mark      == Find(pathQuery, {"?"})
      fields(auth, path) ==
        IF ~auth.ok THEN Invalid
        ELSE Valid([https    |-> https,
                    www      |-> auth.url.www,
                    host     |-> auth.url.host,
                    tld      |-> auth.url.tld,
                    index    |-> DetectIndexSuffix(path),
                    path     |-> path,
                    query    |-> SplitQuery(After(pathQuery, mark), mark # 0),
                    fragment |-> SplitFragment(IF hash = 0 THEN <<>>
                                               ELSE After(resource, hash))])
  IN  fields(ParseAuthority(IF stop = 0 THEN rest ELSE Before(rest, stop), https),
             SplitPath(IF mark = 0 THEN pathQuery ELSE Before(pathQuery, mark)))

ParseUrl(s) ==
  LET parse(t, end) ==
        LET scheme == SchemeOf(SubSeq(t, 1, end - 1))
        IN  IF end = 0 \/ scheme \notin {<<"http">>, <<"https">>} THEN Invalid
            ELSE ParseRest(scheme = <<"https">>, SubSeq(t, end + 3, Len(t)))
      wellFormed(n) == IF n.ok THEN parse(n.url, SchemeEnd(n.url)) ELSE Invalid
  IN  wellFormed(NormalizePercentEncoding(s))

-----------------------------------------------------------------------------
(* Display for ParsedUrl. *)

Scheme(https) == <<IF https THEN "https" ELSE "http", ":", "/", "/">>

ShowPair(p) == p.key \o (IF p.value.some THEN <<"=">> \o p.value.text ELSE <<>>)

Display(u) ==
  LET segs(parts) == FlattenSeq([i \in 1..Len(parts) |-> <<"/">> \o parts[i]])
      pairs == [i \in 1..Len(u.query) |-> ShowPair(u.query[i])]
  IN  Scheme(u.https)
      \o (IF u.www THEN <<"www", ".">> ELSE <<>>)
      \o u.host
      \o (IF u.tld = <<>> THEN <<>> ELSE <<".">> \o u.tld)
      \o segs(u.path)
      \o (IF u.query = <<>> THEN <<>> ELSE <<"?">> \o Join(pairs, "&"))
      \o (IF u.fragment = <<>> THEN <<>> ELSE <<"#">> \o Join(u.fragment, "/"))

=============================================================================
