----------------------------- MODULE UrlParsing -----------------------------
(***************************************************************************)
(* parse_url, Display and parse_corpus run on every text of a character    *)
(* set, built up character by character.                                   *)
(***************************************************************************)
EXTENDS UrlReference

CONSTANTS
  Openings,   (* texts to start from                                       *)
  Typed,      (* characters a text is continued with                       *)
  MaxTyped,   (* bound: characters added to an opening                     *)
  Blanks      (* the white space trim() takes away, "LF" (the \n that ends *)
              (* a line) included                                          *)

ASSUME TypedCharacters ==
  /\ Typed \subseteq Characters
  /\ Openings \subseteq Seq(Characters)
  /\ MaxTyped \in Nat

ASSUME WhiteSpace == "LF" \in Blanks /\ Blanks \subseteq Characters

(* The words of the address the corpus check asks about are lower case. *)
ASSUME CorpusAddress == {"http", "a"} \subseteq ToSet(Lowers)

VARIABLES
  address,  (* the argument of parse_url                                   *)
  typed,    (* characters added so far                                     *)
  parsed    (* its result                                                  *)

pvars == <<address, typed, parsed>>

ParsingInit ==
  /\ address \in Openings
  /\ typed = 0
  /\ parsed = ParseUrl(address)

Continue ==
  /\ typed < MaxTyped
  /\ typed' = typed + 1
  /\ \E c \in Typed : address' = Append(address, c)
  /\ parsed' = ParseUrl(address')

ParsingNext == Continue

ParsingSpec == ParsingInit /\ [][ParsingNext]_pvars

-----------------------------------------------------------------------------
(* parse_corpus: the text whose characters are counted for a codebook.     *)

Solid == Characters \ Blanks

(* trim *)
Trim(s) ==
  IF Find(s, Solid) = 0 THEN <<>> ELSE SubSeq(s, Find(s, Solid), RFind(s, Solid))

(* bug: of two schemes in a line the last is taken (rfind) *)
ParseCorpusLineLast(line) ==
  LET ends == {i \in 1..(Len(line) - 2) : SubSeq(line, i, i + 2) = <<":", "/", "/">>}
      last == CHOOSE i \in ends : \A j \in ends : i >= j
      rest == SubSeq(line, last + 3, Len(line))
      stop == Find(rest, {"/", "?", "#"})
  IN  IF ends = {} THEN line
      ELSE IF stop = 0 THEN <<>> ELSE SubSeq(rest, stop, Len(rest))

(* The resource of a trimmed line.  The authority ends at any of the marks *)
(* (the doc comment names the "/" only); a line without scheme is kept.    *)
ParseCorpusLine(line) ==
  LET rest == SubSeq(line, SchemeEnd(line) + 3, Len(line))
      stop == Find(rest, {"/", "?", "#"})
  IN  IF SchemeEnd(line) = 0 THEN line
      ELSE IF stop = 0 THEN <<>> ELSE SubSeq(rest, stop, Len(rest))

(* The loop over lines().  A "\r" that lines() takes off is white space,   *)
(* and a blank line, which the loop skips, has an empty resource.          *)
ParseCorpus(text) ==
  LET lines == Split(text, "LF")
  IN  FlattenSeq([k \in 1..Len(lines) |-> ParseCorpusLine(Trim(lines[k]))])

-----------------------------------------------------------------------------
Kept == parsed.ok /\ ~HasTrailingDot(address)

(* "Parsing is deterministic and lossless ... every field preserves the    *)
(* exact normalized input": putting the fields of an accepted URL together *)
(* again gives the text, normalised as the docs say and otherwise          *)
(* unchanged, for every place a delimiter may turn up in.  (Hosts with a   *)
(* trailing dot are the exception: their dot is not kept.)                 *)
DisplayIsNormalForm == Kept => Display(parsed.url) = NormalText(address)

(* Parsing is stable: the displayed URL is accepted again and yields the   *)
(* same fields, index suffix included.                                     *)
DisplayParsesBack == Kept => ParseUrl(Display(parsed.url)) = parsed

(* No field holds a character at which the text it is put back into would  *)
(* be cut, which is what lets the decoder reassemble a URL from fields.    *)
FieldsHoldNoDelimiter ==
  parsed.ok =>
    LET u == parsed.url
        Free(s, cs) == ToSet(s) \cap cs = {}
    IN  /\ Free(u.host \o u.tld, {"/", "?", "#", "@"}) /\ Free(u.tld, {"."})
        /\ \A s \in ToSet(u.path) : Free(s, {"/", "?", "#"})
        /\ \A p \in ToSet(u.query) :
             Free(p.key, {"&", "=", "#"}) /\ Free(p.value.text, {"&", "#"})
        /\ \A s \in ToSet(u.fragment) : Free(s, {"/"})

(* A codebook is trained on what it will encode.  In a corpus with a URL   *)
(* to a line, white space around it, whatever lines come before: to their  *)
(* training text parse_corpus, which cuts the raw line without parsing it, *)
(* adds what parses to the path, query and fragment parse_url finds in the *)
(* URL, and no more.                                                       *)
CorpusKeepsTheResource ==
  LET url == ParseUrl(Trim(address))
  IN  url.ok /\ "LF" \notin ToSet(address) =>
        \A first \in Openings :
          LET before == ParseCorpus(first)
              all    == ParseCorpus(first \o <<"LF">> \o address \o <<"LF">>)
              kept   == ParseUrl(<<"http", ":", "/", "/", "a">> \o After(all, Len(before)))
          IN  /\ IsPrefix(before, all)
              /\ kept.ok
              /\ kept.url.path = url.url.path
              /\ kept.url.query = url.url.query
              /\ kept.url.fragment = url.url.fragment

=============================================================================
