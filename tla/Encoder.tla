------------------------------ MODULE Encoder ------------------------------
(***************************************************************************)
(* encode.rs: one call of encode, a block of encode_to_bits per action.    *)
(*                                                                         *)
(* estep is the block that comes next; "encoded" and "rejected" are the    *)
(* Ok and Err ends of the call.                                            *)
(***************************************************************************)
EXTENDS WireFormat, UrlParse

VARIABLES
  url,      (* `parsed`                                                    *)
  estep,    (* program counter                                             *)
  out,      (* `bs`, the bit writer                                        *)
  todo      (* items of the current region still to write                  *)

evars == <<url, estep, out, todo>>

EncoderSteps ==
  {"idle", "header", "port", "host", "labels", "tld", "literal", "flags",
   "path", "segments", "query", "pairs", "fragment", "parts", "finish",
   "encoded", "rejected"}

NoUrl == [ok |-> FALSE]

EncoderIdle == url = NoUrl /\ estep = "idle" /\ out = NewWriter /\ todo = <<>>

(* Write w, then go on at `next` with `rest` to do; a write error ends it. *)
Emit(w, next, rest) ==
  /\ out' = w
  /\ estep' = IF w.ok THEN next ELSE "rejected"
  /\ todo' = rest
  /\ UNCHANGED url

EncodeCall(text) ==
  LET parsed == ParseUrl(text)
  IN  /\ estep = "idle"
      /\ url' = IF parsed.ok THEN parsed.url ELSE NoUrl
      /\ estep' = IF parsed.ok THEN "header" ELSE "rejected"
      /\ out' = NewWriter /\ todo' = <<>>

WriteHeader ==
  /\ estep = "header"
  /\ Emit(WriteFields(out,
            << <<WireVersion, 4>>, <<DictSetId, 4>>,
               <<IF url.https THEN 1 ELSE 0, 1>>, <<IF url.www THEN 1 ELSE 0, 1>>,
               <<IndexCode(url.index), 2>> >>),
          "port", <<>>)

(* split_once(':') and parse::<u16>().ok() *)
Cut(s) ==
  LET colon == Find(s, {":"})
      digits == After(s, colon)
  IN  IF colon = 0 THEN [text |-> s, port |-> NoPort]
      ELSE [text |-> Before(s, colon),
            port |-> IF Len(digits) = 1 /\ digits[1] \in DOMAIN Numeral
                     THEN Numeral[digits[1]] ELSE NoPort]

(* bug: a port behind a host without a TLD is overlooked *)
PortOfTldOnly(u) == Cut(u.tld).port

PortOf(u) == IF Cut(u.tld).port # NoPort THEN Cut(u.tld).port ELSE Cut(u.host).port

WritePort ==
  /\ estep = "port"
  /\ LET port   == PortOf(url)
         fields == IF port = NoPort THEN << <<0, 1>> >>
                   ELSE IF Contains(ShortPorts, port)
                   THEN << <<1, 1>>, <<Index(port, ShortPorts), 2>> >>
                   ELSE << <<1, 1>>, <<LiteralPort, 2>>, <<port, PortBits>> >>
     IN  Emit(WriteFields(out, fields), "host", <<>>)

(* host modes 0 (dictionary), 1 (lower-case letters), 2 (anything else) *)
WriteWholeHost(w, host) ==
  IF Known(host, Hosts)
  THEN WriteFields(w, << <<0, 2>>, <<Index(host, Hosts), HostBits>> >>)
  ELSE WriteSegment(WriteBits(w, IF ToSet(host) \subseteq ToSet(Lowers) THEN 1 ELSE 2, 2),
                    host, FALSE)

(* bug: ten labels are counted in the three bits as well *)
LabelledUpToTen(labels) == Len(labels) \in 2..(MaxLabels + 1)

Labelled(labels) == Len(labels) \in 2..MaxLabels

WriteHost ==
  /\ estep = "host"
  /\ LET host   == Cut(url.host).text
         labels == Split(host, ".")
     IN  IF Labelled(labels)
         THEN Emit(WriteFields(out, << <<1, 1>>, <<Len(labels) - 2, 3>> >>),
                   "labels", labels)
         ELSE Emit(WriteWholeHost(WriteBits(out, 0, 1), host), "tld", <<>>)

(* An item of a region, and the block to go on with after the last one. *)
EmitItem(loop, w, next) ==
  /\ estep = loop
  /\ Emit(w, IF Len(todo) = 1 THEN next ELSE loop, Tail(todo))

WriteLabel ==
  EmitItem("labels", WriteEntry(out, Head(todo), Hosts, HostBits, FALSE), "tld")

WriteTld ==
  /\ estep = "tld"
  /\ LET tld == Cut(url.tld).text
         w   == IF tld = <<>> THEN WriteFields(out, << <<0, 1>>, <<TldEscape, TldBits>> >>)
                ELSE IF Known(tld, Tlds)
                THEN WriteFields(out, << <<0, 1>>, <<Index(tld, Tlds), TldBits>> >>)
                ELSE WriteSegment(WriteBits(out, 1, 1), tld, FALSE)
     IN  Emit(w, "literal", <<>>)

WriteLiteral ==
  /\ estep = "literal"
  /\ Emit(IF url.index = "other" THEN WriteSegment(out, Last(url.path), TRUE) ELSE out,
          "flags", <<>>)

WriteFlags ==
  /\ estep = "flags"
  /\ LET flag(parts) == <<IF parts # <<>> THEN 1 ELSE 0, 1>>
     IN  Emit(WriteFields(out, <<flag(url.path), flag(url.query), flag(url.fragment)>>),
              "path", <<>>)

(* A region: nothing when it is absent, else its count and then its items. *)
OpenRegion(region, present, items, loop, next) ==
  /\ estep = region
  /\ LET w == IF ~present THEN out
              ELSE IF Len(items) > MaxSegments THEN WriteFail(out)
              ELSE WriteCompactCount(out, Len(items))
     IN  Emit(w, IF items = <<>> THEN next ELSE loop, items)

(* bug: the index segment goes out twice, as the suffix and in the path *)
PathItemsWithIndex(u) == u.path

(* The index segment is not among the path segments written. *)
PathItems(u) == IF u.index = "none" THEN u.path ELSE Front(u.path)

WritePathCount ==
  OpenRegion("path", url.path # <<>>, PathItems(url), "segments", "query")

WritePathSegment ==
  EmitItem("segments", WriteEntry(out, Head(todo), PathTokens, PathBits, TRUE), "query")

WriteQueryCount ==
  OpenRegion("query", url.query # <<>>, url.query, "pairs", "fragment")

(* bug: "k=" is written like "k" *)
WritePairDropsEmpty(w, pair) ==
  LET key == WriteEntry(w, pair.key, QueryKeys, KeyBits, TRUE)
  IN  IF pair.value.text # <<>>
      THEN WriteEntry(WriteBits(key, 1, 1), pair.value.text, QueryValues, ValueBits, TRUE)
      ELSE WriteBits(key, 0, 1)

WritePair(w, pair) ==
  LET key == WriteEntry(w, pair.key, QueryKeys, KeyBits, TRUE)
  IN  IF pair.value.some
      THEN WriteEntry(WriteBits(key, 1, 1), pair.value.text, QueryValues, ValueBits, TRUE)
      ELSE WriteBits(key, 0, 1)

WriteQueryPair == EmitItem("pairs", WritePair(out, Head(todo)), "fragment")

WriteFragmentCount ==
  OpenRegion("fragment", url.fragment # <<>>, url.fragment, "parts", "finish")

WriteFragmentPart ==
  EmitItem("parts", WriteSegment(out, Head(todo), TRUE), "finish")

(* into_bytes, and encode's check of the payload's length *)
Finish ==
  /\ estep = "finish"
  /\ out' = [out EXCEPT !.bits = IntoBytes(out)]
  /\ estep' = IF PayloadLen(ToPayload(IntoBytes(out))) > MaxPayload
              THEN "rejected" ELSE "encoded"
  /\ UNCHANGED <<url, todo>>

EncoderNext ==
  \/ WriteHeader \/ WritePort \/ WriteHost \/ WriteLabel \/ WriteTld
  \/ WriteLiteral \/ WriteFlags \/ WritePathCount \/ WritePathSegment
  \/ WriteQueryCount \/ WriteQueryPair \/ WriteFragmentCount
  \/ WriteFragmentPart \/ Finish

=============================================================================
