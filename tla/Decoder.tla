------------------------------ MODULE Decoder ------------------------------
(***************************************************************************)
(* decode.rs: one call of decode_bits, a block of it per action, on any    *)
(* stream of bits.                                                         *)
(*                                                                         *)
(* dstep is the block that comes next; "accepted" and "rejected" are the   *)
(* Ok and Err ends of the call.                                            *)
(***************************************************************************)
EXTENDS WireFormat

CONSTANT Streams   (* the streams decode_bits may be called on             *)

ASSUME StreamsAreBits == Streams \subseteq Seq(Bit)

VARIABLES
  stream,    (* `bits`                                                     *)
  pos,       (* bits consumed by `bs`                                      *)
  dstep,     (* program counter                                            *)
  https, www, indexCode,   (* the header's flags                           *)
  port,      (* NoPort for None                                            *)
  nth,       (* items of the current loop already read                     *)
  count,     (* items of the current loop                                  *)
  host, tld, literal,      (* texts; literal is <<>> for None              *)
  regions,   (* which of path, query, fragment are present                 *)
  result     (* the URL put together                                       *)

dvars == <<stream, pos, dstep, https, www, indexCode, port, nth, count, host,
           tld, literal, regions, result>>

DecoderSteps ==
  {"idle", "header", "port", "host", "labels", "tld", "literal", "flags",
   "path", "segments", "query", "pairs", "fragment", "parts", "padding",
   "accepted", "rejected"}

Regions == {"path", "query", "fragment"}

(* The locals of decode_bits before the first read. *)
Start ==
  /\ pos = 0 /\ https = FALSE /\ www = FALSE /\ indexCode = 0 /\ port = NoPort
  /\ nth = 0 /\ count = 0 /\ host = <<>> /\ tld = <<>> /\ literal = <<>>
  /\ regions = {} /\ result = <<>>

DecoderInit == stream \in Streams /\ dstep = "header" /\ Start

DecoderIdle == stream = <<>> /\ dstep = "idle" /\ Start

(* decode_bits is called on bits. *)
DecodeCall(bits) ==
  /\ stream' = bits /\ dstep' = "header"
  /\ pos' = 0 /\ https' = FALSE /\ www' = FALSE /\ indexCode' = 0 /\ port' = NoPort
  /\ nth' = 0 /\ count' = 0 /\ host' = <<>> /\ tld' = <<>> /\ literal' = <<>>
  /\ regions' = {} /\ result' = <<>>

(* An Err return. *)
Reject ==
  /\ dstep' = "rejected"
  /\ UNCHANGED <<stream, pos, https, www, indexCode, port, nth, count, host, tld,
                 literal, regions, result>>

(* Go on behind what r has read. *)
Consume(r, next) == pos' = r.pos /\ dstep' = next /\ UNCHANGED stream

ReadHeader ==
  LET version == ReadBits(stream, ReaderAt(pos), 4)
      dict    == ReadBits(stream, version, 4)
      isHttps == ReadBits(stream, dict, 1)
      isWww   == ReadBits(stream, isHttps, 1)
      index   == ReadBits(stream, isWww, 2)
  IN  /\ dstep = "header"
      /\ IF index.ok /\ version.val = WireVersion /\ dict.val = DictSetId
         THEN /\ Consume(index, "port")
              /\ https' = (isHttps.val = 1)
              /\ www' = (isWww.val = 1)
              /\ indexCode' = index.val
              /\ UNCHANGED <<port, nth, count, host, tld, literal, regions, result>>
         ELSE Reject

(* val is the port, NoPort without the flag *)
PortRead ==
  LET flag == ReadBits(stream, ReaderAt(pos), 1)
      mode == ReadBits(stream, flag, 2)
  IN  IF ~flag.ok \/ flag.val = 0 THEN [flag EXCEPT !.val = NoPort]
      ELSE IF mode.ok /\ mode.val # LiteralPort
      THEN [mode EXCEPT !.val = ShortPorts[mode.val + 1]]
      ELSE ReadBits(stream, mode, PortBits)

ReadPort ==
  LET take(r) == IF r.ok
                 THEN /\ Consume(r, "host")
                      /\ port' = r.val
                      /\ UNCHANGED <<https, www, indexCode, nth, count, host, tld,
                                     literal, regions, result>>
                 ELSE Reject
  IN  dstep = "port" /\ take(PortRead)

(* a host of one piece, by its mode *)
WholeHostRead(r) ==
  LET mode  == ReadBits(stream, r, 2)
      index == ReadBits(stream, mode, HostBits)
  IN  IF mode.ok /\ mode.val = 0
      THEN IF index.ok /\ index.val = HostEscape THEN ReadSegment(stream, index)
           ELSE ReadIndex(stream, mode, Hosts, HostBits)
      ELSE IF mode.ok /\ mode.val \in {1, 2} THEN ReadSegment(stream, mode)
      ELSE TextFail(mode)

TooLong(text) == ByteLen(text) > MaxHostTld

(* text, up to r, is the whole host: its length is checked before all else.*)
FinishHost(text, r) ==
  IF r.ok /\ ~TooLong(text)
  THEN /\ Consume(r, "tld")
       /\ host' = text
       /\ UNCHANGED <<https, www, indexCode, port, nth, count, tld, literal, regions,
                      result>>
  ELSE Reject

ReadHost ==
  LET flag   == ReadBits(stream, ReaderAt(pos), 1)
      labels == ReadBits(stream, flag, 3)
      whole(r) == FinishHost(r.val, r)
  IN  /\ dstep = "host"
      /\ IF flag.ok /\ flag.val = 1
         THEN IF labels.ok
              THEN /\ Consume(labels, "labels")
                   /\ nth' = 0
                   /\ count' = labels.val + 2
                   /\ UNCHANGED <<https, www, indexCode, port, host, tld, literal,
                                  regions, result>>
              ELSE Reject
         ELSE whole(WholeHostRead(flag))

(* labels.join(".") as the labels come in *)
ReadLabel ==
  LET joined(label) == (IF nth = 0 THEN <<>> ELSE host \o <<".">>) \o label.val
      take(label) ==
        IF label.ok /\ nth + 1 < count
        THEN /\ Consume(label, "labels")
             /\ nth' = nth + 1
             /\ host' = joined(label)
             /\ UNCHANGED <<https, www, indexCode, port, count, tld, literal, regions,
                            result>>
        ELSE FinishHost(joined(label), label)
  IN  dstep = "labels" /\ take(ReadEntry(stream, ReaderAt(pos), Hosts, HostBits))

TldRead ==
  LET mode  == ReadBits(stream, ReaderAt(pos), 1)
      index == ReadBits(stream, mode, TldBits)
  IN  IF mode.ok /\ mode.val = 1 THEN ReadSegment(stream, mode)
      ELSE IF index.ok /\ index.val = TldEscape THEN Text(index.pos, <<>>)
      ELSE ReadIndex(stream, mode, Tlds, TldBits)

(* bug: the length of a TLD segment is not checked *)
ReadTldUnchecked ==
  LET take(r) == IF r.ok
                 THEN /\ Consume(r, "literal")
                      /\ tld' = r.val
                      /\ UNCHANGED <<https, www, indexCode, port, nth, count, host,
                                     literal, regions, result>>
                 ELSE Reject
  IN  dstep = "tld" /\ take(TldRead)

ReadTld ==
  LET take(r) == IF r.ok /\ ~TooLong(r.val)
                 THEN /\ Consume(r, "literal")
                      /\ tld' = r.val
                      /\ UNCHANGED <<https, www, indexCode, port, nth, count, host,
                                     literal, regions, result>>
                 ELSE Reject
  IN  dstep = "tld" /\ take(TldRead)

LiteralRead ==
  CASE indexCode = 0 -> Text(pos, <<>>)
    [] indexCode = 1 -> Text(pos, <<"index", ".", "html">>)
    [] indexCode = 2 -> Text(pos, <<"index", ".", "php">>)
    [] indexCode = 3 -> ReadSegment(stream, ReaderAt(pos))

ReadLiteral ==
  LET take(r) == IF r.ok
                 THEN /\ Consume(r, "flags")
                      /\ literal' = r.val
                      /\ UNCHANGED <<https, www, indexCode, port, nth, count, host, tld,
                                     regions, result>>
                 ELSE Reject
  IN  dstep = "literal" /\ take(LiteralRead)

DefaultPortOf(isHttps) == IF isHttps THEN HttpsPort ELSE HttpPort

(* bug: the port is put before the TLD *)
HeadOfResultPortFirst ==
  LET scheme == <<IF https THEN "https" ELSE "http", ":", "/", "/">>
      named  == IF port \in {NoPort, DefaultPortOf(https)} THEN <<>>
                ELSE <<":", PortText[port]>>
  IN  scheme \o (IF www THEN <<"www", ".">> ELSE <<>>) \o host \o named
      \o (IF tld = <<>> THEN <<>> ELSE <<".">> \o tld)

(* scheme to port *)
HeadOfResult ==
  LET scheme == <<IF https THEN "https" ELSE "http", ":", "/", "/">>
      named  == IF port \in {NoPort, DefaultPortOf(https)} THEN <<>>
                ELSE <<":", PortText[port]>>
  IN  scheme \o (IF www THEN <<"www", ".">> ELSE <<>>) \o host
      \o (IF tld = <<>> THEN <<>> ELSE <<".">> \o tld) \o named

ReadFlags ==
  LET path     == ReadBits(stream, ReaderAt(pos), 1)
      query    == ReadBits(stream, path, 1)
      fragment == ReadBits(stream, query, 1)
  IN  /\ dstep = "flags"
      /\ IF fragment.ok
         THEN /\ Consume(fragment, "path")
              /\ regions' = {region \in Regions :
                               \/ region = "path" /\ path.val = 1
                               \/ region = "query" /\ query.val = 1
                               \/ region = "fragment" /\ fragment.val = 1}
              /\ result' = HeadOfResult
              /\ UNCHANGED <<https, www, indexCode, port, nth, count, host, tld, literal>>
         ELSE Reject

-----------------------------------------------------------------------------
(* The three regions. *)

(* The index literal follows the path's segments, or stands for the path. *)
PathEnd == IF indexCode = 0 THEN <<>> ELSE <<"/">> \o literal

(* The count of a region, 0 when it is absent, then its items or, when it  *)
(* has none, `next`; `tail` is what closes a region without items.         *)
ReadCount(region, loop, next, tail) ==
  LET take(items) ==
        IF items.ok /\ items.val \in 0..MaxSegments
        THEN /\ Consume(items, IF items.val = 0 THEN next ELSE loop)
             /\ nth' = 0
             /\ count' = items.val
             /\ result' = IF items.val = 0 THEN result \o tail ELSE result
             /\ UNCHANGED <<https, www, indexCode, port, host, tld, literal, regions>>
        ELSE Reject
  IN  /\ dstep = region
      /\ take(IF region \in regions THEN ReadCompactCount(stream, ReaderAt(pos))
              ELSE ReaderAt(pos))

(* One item, read by r, added with its separator. *)
ReadItem(loop, r, separator, next, tail) ==
  LET text == result \o <<separator>> \o r.val
      more == nth + 1 < count
  IN  /\ dstep = loop
      /\ IF r.ok
         THEN /\ Consume(r, IF more THEN loop ELSE next)
              /\ nth' = nth + 1
              /\ result' = IF more THEN text ELSE text \o tail
              /\ UNCHANGED <<https, www, indexCode, port, count, host, tld, literal,
                             regions>>
         ELSE Reject

ReadPathCount == ReadCount("path", "segments", "query", PathEnd)

ReadPathSegment ==
  ReadItem("segments", ReadEntry(stream, ReaderAt(pos), PathTokens, PathBits),
           "/", "query", PathEnd)

ReadQueryCount == ReadCount("query", "pairs", "fragment", <<>>)

(* key, has_value flag, value *)
PairRead ==
  LET valued(key, value) ==
        IF value.ok THEN Text(value.pos, key.val \o <<"=">> \o value.val)
        ELSE TextFail(value)
      flagged(key, flag) ==
        IF flag.ok /\ flag.val = 0 THEN Text(flag.pos, key.val)
        ELSE valued(key, ReadEntry(stream, flag, QueryValues, ValueBits))
      keyed(key) == flagged(key, ReadBits(stream, key, 1))
  IN  keyed(ReadEntry(stream, ReaderAt(pos), QueryKeys, KeyBits))

ReadQueryPair ==
  ReadItem("pairs", PairRead, IF nth = 0 THEN "?" ELSE "&", "fragment", <<>>)

ReadFragmentCount == ReadCount("fragment", "parts", "padding", <<>>)

ReadFragmentPart ==
  ReadItem("parts", ReadSegment(stream, ReaderAt(pos)), IF nth = 0 THEN "#" ELSE "/",
           "padding", <<>>)

(* The rest of the stream is zero, however long it is. *)
(* bug: only the padding of the last byte is let pass *)
CheckPaddingOneByte ==
  /\ dstep = "padding"
  /\ dstep' = IF RestIsZero(stream, pos) /\ Len(stream) - pos < ByteBits
              THEN "accepted" ELSE "rejected"
  /\ UNCHANGED <<stream, pos, https, www, indexCode, port, nth, count, host, tld,
                 literal, regions, result>>

CheckPadding ==
  /\ dstep = "padding"
  /\ dstep' = IF RestIsZero(stream, pos) THEN "accepted" ELSE "rejected"
  /\ UNCHANGED <<stream, pos, https, www, indexCode, port, nth, count, host, tld,
                 literal, regions, result>>

DecoderNext ==
  \/ ReadHeader \/ ReadPort \/ ReadHost \/ ReadLabel \/ ReadTld \/ ReadLiteral
  \/ ReadFlags \/ ReadPathCount \/ ReadPathSegment \/ ReadQueryCount
  \/ ReadQueryPair \/ ReadFragmentCount \/ ReadFragmentPart \/ CheckPadding

DecoderRuns == dstep \notin {"idle", "accepted", "rejected"}

DecoderOver == ~DecoderRuns /\ UNCHANGED dvars

(* A call runs to its end, nothing else takes part in it: weak fairness of *)
(* DecoderNext, which is enabled exactly while the call runs.              *)
DecoderFairness == <>[]DecoderRuns => []<><<DecoderNext>>_dvars

DecoderSpec == DecoderInit /\ [][DecoderNext \/ DecoderOver]_dvars /\ DecoderFairness

-----------------------------------------------------------------------------
DecoderTypeOK ==
  /\ stream \in Seq(Bit) /\ pos \in 0..Len(stream)
  /\ dstep \in DecoderSteps
  /\ https \in BOOLEAN /\ www \in BOOLEAN /\ indexCode \in 0..3
  /\ port \in {NoPort} \cup 0..(Pow2[PortBits] - 1)
  /\ nth \in Nat /\ count \in Nat
  /\ {host, tld, literal, result} \subseteq Seq(Characters)
  /\ regions \subseteq Regions

PastHost == dstep \notin {"idle", "header", "port", "host", "labels", "rejected"}
PastTld == PastHost /\ dstep # "tld"

(* Whatever the bits say, no loop of the decoder is entered for more items *)
(* than its limit, none is entered with nothing to read or left late, and  *)
(* no host or TLD beyond MAX_HOST_TLD_LEN gets past its block.             *)
DecoderLimits ==
  /\ dstep = "labels" => count \in 2..MaxLabels /\ nth \in 0..(count - 1)
  /\ dstep \in {"segments", "pairs", "parts"} =>
       count \in 1..MaxSegments /\ nth \in 0..(count - 1)
  /\ PastHost => ~TooLong(host)
  /\ PastTld => ~TooLong(tld)

(* The longest text one segment or dictionary index can stand for. *)
SegmentBudget ==
  Max({3 * MaxSymbols, 3} \cup {Len(s) : s \in UNION {ToSet(dict) :
         dict \in {Tlds, Hosts, PathTokens, QueryKeys, QueryValues}}})

(* Items of a region read so far, by the step the decoder is at. *)
ItemsRead(earlier, loop) ==
  IF dstep \in earlier THEN 0 ELSE IF dstep = loop THEN nth ELSE MaxSegments

(* The hostile-input promise, "strict memory boundaries": the text built   *)
(* is bounded by the limits alone, at every step of a call.  A host still  *)
(* being joined grows by a segment and a dot per label; the result, from   *)
(* its head on, by a segment and a separator per path segment and fragment *)
(* part, by two of each per query pair, and by the index segment.          *)
TextWithinBudget ==
  LET item == SegmentBudget + 1
      toQuery == {"path", "segments", "query"}
      toFragment == toQuery \cup {"pairs", "fragment"}
  IN  /\ dstep = "labels" => Len(host) <= nth * item
      /\ PastTld /\ dstep \notin {"literal", "flags"} =>
           Len(result) <= Len(HeadOfResult)
                            + item * ItemsRead({"path"}, "segments")
                            + (IF dstep \in {"path", "segments"} THEN 0 ELSE item)
                            + 2 * item * ItemsRead(toQuery, "pairs")
                            + item * ItemsRead(toFragment, "parts")

=============================================================================
