# A TLA+ model of urlz

urlz packs a URL into a short base-85 text and back. It is a pure library (Rust,
`src/crates/urlz`): no threads, no files, no network while it encodes or decodes. What is
hard about it is agreement. The wire format has no tags and almost no lengths; the encoder
and the decoder derive the same widths, counts and defaults from different data, and one
disagreement shifts every later bit. The decoder also reads whatever it is given, and must
keep to its limits on any bits. Beside the codec there is the Huffman coder it uses, whose
codebooks a program may build itself and keep in files (`urlz dict build`). The model is about
these three things.

## Inventory

| component | source | state | operations | what makes it correct |
|---|---|---|---|---|
| bit streams | `bitstream.rs` | bytes and a bit position, on each side | `write_bits`, `write_varint`, `into_bytes`; `read_bits`, `read_varint`, `read_remaining_all_zero` | what is written is read back in order; a refused write adds nothing; a foreign varint never overflows the word |
| alphabets | `alphabet.rs` | none (tables) | `char_index`, `to_base`, `from_base`, big-endian bytes of a number | digits and number determine each other once the count is known |
| segments | `segment.rs`, `write_segment`, `read_segment` | none | alphabet choice, fixed widths, percent bytes | the chosen form is the smallest; a segment comes back whole, and its reader stops at its end |
| URL parser | `urlparse.rs` | none | `parse_url`, `Display` | the fields put together again are the normalised URL |
| encoder | `encode.rs` | the bit writer, the parsed URL | `encode_to_bits`, `encode` | refuses only for a stated reason; canonical |
| decoder | `decode.rs` | the bit reader, the fields read, the text so far | `decode_bits`, `decode` | limits kept on any bits, never reads past the end, always returns |
| codec as a whole | `lib.rs` | - | `encode`, then `decode` | lossless on intact payloads; a payload that lost its end is refused |
| dictionaries | `dict.rs` | none (tables) | look-up, index | modelled over small tables |
| Huffman codebooks | `huffman.rs` | an arena and a heap while building; code lengths, canonical tables | `build_codebook`, `build_from_corpus`, `parse_corpus`, (de)serialise, `encode`, `encode_into`, `decode`, `decode_from` | lengths optimal and prefix-free; decode inverts encode; a foreign stream has one spelling |
| command line | `main.rs` | `codebook.bin` | `dict build` | a codebook that loads was built; the exit code tells what is in the file |
| error values | `error.rs` | - | wording | not modelled: an error is a refusal |
| xtask, benches | `crates/xtask`, `benches/` | - | measure sizes and times | not modelled |

`encode` calls `parse_url`, then writes block after block through the bit writer; each text
field goes through a dictionary or `write_segment`. `decode` undoes the base-85 number and
hands the bytes to `decode_bits`, which reads the blocks in the same order. There is no
shared state and no callback: encoder and decoder meet in the bits alone. `encode_to_bits`
and `decode_bits` are public too, so `decode_bits` can be called on bytes cut short or
damaged on the way.

Hard behaviours, each listed in `PROJECT.json` under "hazards" with its line: widths
computed on both sides, leading zeros lost in numbers, defaults dropped and restored,
optional fields, normalisation rules that must agree between parser and decoder, counts at
the edge of their field, limits on foreign input, streams cut short; in the Huffman coder ties
between frequencies, sums and depths at the width of their integers, codes at the length of a
word, and a file that is written in place.

## Modules

    UrlText --- UrlParse --- UrlReference --- UrlParsing          (parser)
       \            \               \
     BitFields      Encoder ------- Codec --> UrlCodecSpec        (promise)
       |  \        /               /
       |   Segment -- WireFormat -- Decoder
       |      \
    BitStream  SegmentCoding

    Codebook --- HuffmanTree --- DictBuild --> HuffmanMerging     (building)
        \
         HuffmanCode (with BitFields) --> PrefixReader            (coding)

The proofs stand beside the modules they are about (`A <- B`: B extends A):

    NaturalSets <- BitFieldsProofs <- BitStreamProofs             (BitStream)
         |               |    \
         |               |     ParserProofs                       (UrlParsing)
         |               |          \
         |               |           SegmentProofs                (SegmentCoding)
         |               |                \
         |               |                 CodecProofs            (Decoder, Codec)
         |               HuffmanCodeProofs                        (HuffmanCode)
         DictBuildProofs                                          (HuffmanTree, DictBuild)

* **Powers** - powers of two and of a radix, as recursive functions.
* **BitFields** - the vocabulary of bit writers and readers. A writer is a record
  `[ok, bits]`, a reader `[ok, pos, val]`; the `?` of the code is the sticky `ok`.
* **BitStream** - a session of calls on a writer, then the same calls on a reader, or a
  foreign stream. Its caller may go on after an error; the encoder does not.
* **UrlText** - characters and the `str` operations the code uses. The character set is a
  parameter: a small instance takes words like `www` or `8080` as single characters of the
  byte class their letters have. Delimiters, case, escapes and alphabets work as in the code
  and texts stay short.
* **UrlParse** - `parse_url` and `Display` as operators. **UrlReference** - the normal form
  of a URL written from the documented rules, as a rewriting of the text that never splits it
  into the parser's fields. **UrlParsing** - both, and `parse_corpus` line by line,
  run on texts built up character by character.
* **Segment** - `analyze_segment`, `fixed_bit_len`, percent bytes, `write_segment`,
  `read_segment` and the payload readers below it. **SegmentCoding** - runs them against each
  other and on foreign bits.
* **WireFormat** - limits, dictionaries, dictionary entries, the payload as a number.
* **Encoder**, **Decoder** - state machines, one action per block of `encode_to_bits` and
  `decode_bits`. `estep` and `dstep` are program counters, the other variables the functions'
  locals. A loop is one action per item.
* **UrlCodecSpec** - what a caller is promised, in six actions and no bits.
* **Codec** - encode, a delivery (intact, cut at a byte, one wrong bit), decode, and once
  more with what came out. `KeepsThePromise` is the refinement of `UrlCodecSpec`.
* **Codebook** - code lengths, `validate_lengths`, the file form.
* **HuffmanTree** - `build_codebook`: one action per merge of two heap entries and one per node
  the walk takes off its stack. Frequencies wrap at `FreqSpace`.
* **HuffmanMerging** - Huffman's algorithm on groups of bytes, which `HuffmanTree` implements
  (`IsHuffmansAlgorithm`): two lightest groups are joined until one is left, and it ends.
* **DictBuild** - `urlz dict build`: read, count, build, make the directory, empty the file,
  write it in any number of pieces, report; each step of the operating system may fail, and
  the process may be killed before any step. Besides, a program calling `build_codebook`.
* **HuffmanCode** - canonical tables one symbol at a time, `encode` and `encode_into` one symbol
  at a time, `decode` and `decode_from` one bit at a time, for any codebook.
* **PrefixReader** - a reader that reads one symbol's code after the other, which
  `HuffmanCode` implements (`ReadsByPrefix`). `ReadHuffman` in Segment is the same rule: the
  segments' prefix code is justified by this refinement and by `CodesArePrefixFree`.
* **NaturalSets** - what the proofs know of numbers: least elements, induction, powers, division
  by them, sums over finite sets, and loops. **BitFieldsProofs** - each call of the bit writer
  against the call of the reader that undoes it. The other proof modules hold the theorems.
* **MC...** - values for the constants.

The reads in one action of the decoder are one block of straight-line code; nothing runs
beside it, so no intermediate state is visible to anybody.

## What is abstracted

* The base-85 payload is the number it denotes, kept by its significant bits
  (`ToPayload`, `FromPayload`); the digits are not spelt out. Leading zeros are lost as in
  the code. `PayloadLen` is the length at `DigitBits` bits a character.
* A port prints as one character (`PortText`), and the numerals `parse::<u16>()` accepts are
  characters too; `080` and `80` are two numerals of one port.
* `fixed_bit_len` multiplies in floating point. The model takes the least width that holds
  every value; for the four radices and all counts up to `MAX_SYMBOL_COUNT` both agree.
* The default codebook is a constant, any prefix-free code of ASCII characters.
* The heap is the set of its entries; a pop takes the least, which ids make unique. The
  decoder's tables are one row per length. Bytes are numbers; `NumBytes` of them, some in
  the alphabet.
* A codebook's word width is `MAX_CODE_LENGTH`, as both are 64 in the code.
* `codebook.bin` that does not exist and one that is empty are the same (neither loads).
* The wording of errors.

## Runs

| run | question | bounds |
|---|---|---|
| `bitstream` | Do reads return what was written, whatever the mix of calls and refusals? What do foreign bits read as? | 3 calls, words of 5 bits in 2-bit groups: the last group has one usable bit, as 64 = 9 * 7 + 1 does |
| `segment` | Does every short segment come back, in the smallest form, with the reader stopping at its end? What do foreign bits become? | up to 4 pieces; radices 3, 5, 8, 13, 14, so widths are rounded up and over-range values exist |
| `parsing` | Is the parser lossless up to the documented normal form, and stable? Does `parse_corpus` agree with it on what a resource is? | seven openings, each continued by 3 of 23 characters, white space and the line feed among them; each text as the last line of a corpus behind each opening |
| `decoder` | Does `decode_bits` keep to its limits on bits nobody wrote, and stay inside them? | nine beginnings, one per region of the format, each with all 2^13 continuations |
| `intact` | Is the whole codec lossless and canonical, block by block in step, and a refinement of the promise? | 872 texts: every authority with a short resource and every resource with a short host; two rounds |
| `damaged` | What becomes of a stream cut at any byte, with any bit wrong or with a zero byte behind it, and of what it decodes to? | five texts with every form of every field; two rounds |
| `dict_build` | Are the lengths of `build_codebook` those of an optimal prefix-free code, of least depth, whatever overflows? What is in `codebook.bin` after any failure or kill? | five characters, every table of frequencies up to 4 (depth 4 takes 9 symbols, sums wrap at 16), codes limited to 3 bits; six corpora; two runs of the command |
| `huffman_code` | Does every codebook that is accepted code and decode, and does the decoder accept one spelling only? | all 3125 codebooks of five bytes, words of 3 bits; 16 texts; all one-byte streams with counts up to 2 |
| `trailing_dot`, `host_limit` | the promise without its two exceptions | as `intact` |
| `full_length_code` | decoding without its exception | as `huffman_code` |
| `flipped_bits` | Is a wrong bit always noticed? | as `damaged`, one round |

The limits are small (`MaxSymbols`, `MaxSegments`, `MaxHostTld`, `MaxPayload` in the cfg
files) so that texts on both sides of each of them exist in the run: refusals for each
reason, ten labels, escaped counts, an index literal, port codes of every kind all occur.
Deadlock is off where a session simply ends (`bitstream`, `segment`, `parsing`); encoder,
decoder and codec and the Huffman modules check it: a call always has a next step until it has returned.

`parsing` also runs `parse_corpus`, with its split into lines and its trimming, on each text as the
last line of a corpus: to the training text of the lines before it must add the part of the URL
whose characters the encoder will write (`CorpusKeepsTheResource`). `parse_url` does not trim, so
the comparison is with the trimmed line; a text with a line feed in it, which `parse_url` accepts,
is two lines of a corpus and left out. White space is a character of its own in this run only.

**Fairness.** A call that runs takes its next step: nothing can preempt or block it, so weak
fairness of the encoder's and of the decoder's steps is what the language guarantees.
Nothing is assumed of the caller, who may never deliver a payload. It is written out as
`<>[]EncoderRuns => []<><<EncodeStep>>_vars`: evaluating ENABLED of the chained reads is
out of TLC's reach, and the running step is enabled whenever the call runs (no deadlock).
`DictBuild` and `HuffmanCode` state `WF_vars(OwnStep)` and `WF_hvars(HStep)`: the steps of a
running call or command, not the calls themselves and not a kill. Termination is part of both
refinements (`Ends`).

## What the runs found

* **A trailing dot is lost** (`trailing_dot`). `https://b.` comes back as `https://b`: the
  host is split at its last dot and an empty TLD is not told from none
  (`urlparse.rs:243`). The module comment calls parsing lossless. `RoundTrip` excepts such
  hosts, and so does `PayloadIsCanonical`: `https://a.b.` is encoded with an empty TLD, its answer
  `https://a.b` with the TLD `b`.
* **encode accepts hosts decode refuses** (`host_limit`). The encoder limits each label to
  4096 symbols, the decoder the assembled host to 4096 bytes (`decode.rs:148`).
  `EncodedIsDecodable` and the abstract `Failed` except such hosts.
* **A codebook the decoder cannot read** (`full_length_code`). With codes of 64 bits that use up
  the code space, `first + count` is 2^64, which wraps to 0 (`huffman.rs:365`), and no such code
  is ever matched; `validate_lengths` accepts the codebook and the encoder writes with it. The
  codebooks `build_codebook` makes get there only beyond 4 * 10^13 symbols, but
  `deserialize_codebook` and `From<[u8; 256]>` take any. `Unreadable` excepts these symbols.
* **A wrong bit may pass** (`flipped_bits`). There is no checksum; `ARCHITECTURE.md:646` promises
  an error. What then holds is that the result behaves as any URL (`damaged`).

Two smaller differences between text and code have no run, since the tests or the properties that
hold show them as well:

* `parse_corpus` ends the authority at the first of `/`, `?` and `#`; its doc comment
  (`huffman.rs:498`) and `ARCHITECTURE.md:807` name the first `/` only. The tests at
  `huffman.rs:905` and 906 expect what the code does, and it is what `parse_url` does: cut at the
  slash alone, `CorpusKeepsTheResource` fails on `http://a?`.
* A port that is not the default one is printed as a number, so `https://a:080` is displayed as
  `https://a:80`. The docs mention default ports only; the normal form of `UrlReference` has it.

All other properties hold.

## What is proved

Thirty-three theorems, each for every value of the constants that satisfies the named assumptions,
which TLC evaluates on the runs. An invariant a theorem needs was model-checked on the
component's run before it was proved.

### Bit streams (`BitStreamProofs`)

For any number of calls, any word width and group width:

* `TypeCorrect`: `[]TypeOK`. `TypeOK` alone is not inductive: a reading session starts at
  position 0, so `TypeInv` adds that the position stays 0 until then.
* `RefusalsAddNothing`: `RefusedCallAddsNothing`. `write_bits` checks before it writes, and
  `write_varint` counts its groups first, each of which then fits its byte.
* `WrittenIsRead`, `PaddingIsLeft`: `[]ReadsWhatWasWritten`, `[]OnlyPaddingLeft`. The invariant
  `SessionInv` says that the accepted calls lie end to end in the bits, each as the field, the
  varint or the count it wrote, and that the reader stands where the next one starts. Below it
  lies one lemma per call in `BitFieldsProofs`: what `write_bits`, `write_varint` and
  `write_compact_count` append is what their readers take, wherever it lies.
* `ForeignCountsFit`: `[]ForeignCountsFitTheWord`. The groups read before the last one hold less
  than a word, and the bits of the last that may be set are the ones that are left.
* `ShortestVarint`: `[]WriterVarintIsShortest`.

Assumptions: `BitWidths`, `SessionBounds`, `CallsFitTheWord` (a value given to `write_bits` is
a word, as its type says).

### Parser (`ParserProofs`)

For every character set, every opening and any number of characters behind it:

* `FieldsAreFreeOfDelimiters`: `[]FieldsHoldNoDelimiter`. A text without the characters of a set
  is a sequence over the ASCII characters outside it, so what each step of the parser does to a
  text is a statement about the sequences it is in. A cut at the first or last delimiter leaves a
  part in a smaller set (`CutAtFirst`, `CutAtLast`, `SplitParts`), and what is done to the part
  afterwards must not put the character back: lower case and a numeral printed again. Before the cuts the
  percent-encoding normalisation leaves ASCII only, with `%` and digits for every other character
  (`NormalIsAscii`). The lemmas follow the fields, from
  `SplitHostFields` to `UrlIsClean`. `ParsingInv` adds that the text is made of characters and
  that `parsed` is what `parse_url` makes of it.
* `DisplaysNormalText`: `[]DisplayIsNormalForm`, for every accepted text whose host does not end
  in a dot. The scan of the escapes does what the docs say of each character (`SpellIsNormal`),
  and what `Display` writes for a field is the part of the scanned text it was cut from: joining
  what a text was split into gives the text (`JoinSplit`), a cut loses only the character it is
  made at, which `Display` writes back (`CutShown`), so path, query and fragment together are the
  resource but for an empty fragment (`ResourceShown`), and `www`, host and TLD are the authority
  in lower case with its port as a `u16` is printed (`AuthorityShown`, `CanonicalShown`). A cut at
  the last dot loses the dot when nothing follows it: the excluded case (`DotSeen`).
* `DisplayedIsParsedBack`: `[]DisplayParsesBack`. Each step of the parser is idempotent: the scan
  leaves a text with whole upper-case escapes as it is (`NormalTwice`), and the host in lower case
  (`HostEscapesTwice`). An escape never reaches over a cut (`PartIsClosed`, `ResourceLed`), so the
  displayed text is such a text (`CatClosed`); it is cut where the first one was (`RestRebuilt`),
  and a host part and port give the same fields a second time (`AuthorityAgain`).
* `CorpusIsTheResource`: `[]CorpusKeepsTheResource`. A line break splits a text into the lines
  before and behind it (`SplitApart`), and what is put together of them are the two training texts
  (`CorpusApart`), so the last line adds its own resource whatever comes before (`CorpusGrows`).
  `parse_corpus` cuts that trimmed line as typed, the parser as scanned. The scan copies scheme and
  slashes one by one (`PlainStep`), leaves an authority without a mark, since escapes spell none
  (`AuthorityScanned`), and copies the mark that ends it (`MarkLeads`); so what is kept is scanned
  to the resource (`CorpusLineScanned`), whatever stands ahead of it (`PlainAhead`), and the fields
  of a resource depend on nothing else (`ResourceAlone`).

Assumptions: `CharacterSet`, `DelimitersStandAlone` (no delimiter is a letter, a digit or a
numeral), `UppersStandAlone` (a letter has one case, a numeral none), `CorpusAddress`
(the words of the address the corpus check prepends are lower case), `WhiteSpace` (what `trim`
takes away are characters, the line feed among them), `TypedCharacters`, `BitWidths`.

### Segments (`SegmentProofs`)

For every character set, radix, prefix code, limit and width:

* `SegmentsComeBack`: `[]SegmentRoundTrip`. Each form's payload reader gives back the payload it
  finds, whatever precedes and follows it (`SegmentWritten`): the fixed width holds every number
  of so many digits, digits and number determine each other once the count is known, Huffman
  codes and UTF-8 encodings begin no other one, and escapes are spelt with upper-case digits,
  which is the condition under which the encoder chooses that form.
* `ForeignSegmentsAreWritable`: `[]ForeignSegmentIsWritable`. What the readers accept is within
  the symbol limit and made of characters, so `write_segment` accepts it, and the first theorem
  gives the way back.

The invariant is only that segment and bits are of their types. Assumptions: `BitWidths`,
`SegmentLimits` (the symbol limit and the identifiers fit a word), `IdsFitTheWord`,
`CharacterSet` (classes are what the alphabets spell), `Utf8Encoding`, `CodingBounds`.

### Decoder (`CodecProofs`)

For every set of streams of bits:

* `DecoderKeepsLimits`: `[]DecoderLimits`.
* `DecoderStaysInside`: the reader's position is always inside the stream, and the index code
  in the range its `match` covers.
* `DecoderTypeCorrect`: `[]DecoderTypeOK`.
* `DecoderTextBounded`: `[]TextWithinBudget`.

`DecoderLimits` alone is not inductive. The count of labels is read from three bits, and its
bound is a fact about `BitsToNat` on a sequence of three bits, which is what `read_bits` cuts
out only if the position lies inside the stream. `DecoderInv` adds the position, the type of
the stream and the range of the index code. That the position stays inside is a lemma per
reader (`ReadBitsInside`, `ReadVarintInside`, ..., `ReadEntryInside`). Then there is one lemma
per action. `TextInv` adds the types of all fields and the budget so far: nothing is joined to
the host before its first label, a host of n labels is at most n items long, and the text at any
point is at most the longest head plus one item for each label and segment read.

Assumptions: `BitWidths`, `SegmentLimits`, `WireLimits`, `CharacterSet`, `Dictionaries`,
`OwnWords`, `Utf8Encoding`, `StreamsAreBits`.

### Codec (`CodecProofs`)

For every character set, dictionary, prefix code, limit and set of texts, any number of rounds, and
every way the bytes may be damaged in between:

* `CodecTyped`: `[]TypeOK`.
* `EncoderRefusesForAReason`: `[]RefusedForAReason`.
* `DecoderAcceptsEncoded`: `[]EncodedIsDecodable`.
* `CutsAreNoticed`: `[]CutIsNoticed`.
* `DecoderStaysInStep`: the action property `InStep`.

The argument follows the bits. `Laid` says how each block of a URL lies in a stream, from where to
where: fields by `Written`, texts by `SegmentAt` and `EntryAt`, counts by `CountAt`. What is written
stays written in every longer stream (`LaidStays`). Each action of the encoder either lays its
block behind what is there or refuses for one of the limits (`EncoderAdvances`). For the second half
the fields must be what the writers take: `Fields` says what the normalisations of the parser have
made of them (`UrlIsTidy` in `ParserProofs`), down to escapes in upper case and a dictionary word
being worth its index. The places the encoder was at make a `Tape`, whose marks are `frames`.

Each action of the decoder, given the bits or the beginning of them, comes to the next place on the
tape or refuses, and refuses nothing that is whole but an overlong host or TLD (`DecoderFollows`);
`Hears` is this for a single read. `DecodedTo` is what the decoder must have got right until then to
go on: the index code, the regions, the count of a loop and the labels joined so far. The last
place is less than a byte before the end, so a stream that lost a byte ends before it (`CutIsShorter`);
and the number the payload is keeps every bit, as the version is not zero (`PayloadComesBack`).

`CodecInv` says where encoder and decoder are on the tape, together with `TextInv` of the decoder.
It quantifies over tapes, which TLC cannot enumerate; its consequences above are what the runs check.

Assumptions: those of the decoder, `CodecBounds`, `DelimitersStandAlone`, `TypedCharacters`.

### Canonical Huffman codes (`HuffmanCodeProofs`)

For every number of byte values, every width of the word and every set of codebooks, texts,
headers and streams, all four safety invariants of `HuffmanCode` and the steps of its refinement:

* `CanonicalCodes`: `[]CodesArePrefixFree`. `BookInv` follows the loop of
  `build_canonical_tables`: each symbol has been given the code behind that of the one before.
  With M the greatest length, a symbol of length l takes a share of 2^(M-l) of the code space
  of 2^M, one after the other; its code is where its share begins, cut to l bits. The shares of
  all symbols sum up to `KraftSum`, which `validate_lengths` has bounded by 2^M. So no code
  and no shift loses a bit in the `u64`, a code fits its length, and of two codes the later one
  lies behind the whole share of the earlier one: none begins another. The sum over a set
  is compared with the running sum along the sorted sequence by induction over the cardinality
  of finite sets (`NaturalSets`).
* `AllOrNothing`: `[]NothingHalfWritten`. `EncInv` says that once the first pass has gone
  through, all symbols have a code; a code fits its length, so `write_bits` refuses none.
* `DecodesItsOwn`: `[]DecodeInvertsEncode`. `TableInv` says that the rows of the decoder's
  tables are contiguous pieces of the sorted symbols, with consecutive codes. `OwnInv` says that
  the decoder stands inside the code of the next symbol, with its first bits in `code`. A row
  matches a shorter prefix of that code for no symbol, by prefix-freeness, and the whole of it
  for this one, but for one case: the end of the row's range is the word's overflow. That is
  when the code space is full and the code has all its bits, which is `Unreadable`.
* `OneSpelling`: `[]DecodedReencodes`. `ForeignInv` says that the codes of the symbols found lie
  in the input end to end, and the bits read since are in `code`.

* `DecodesByPrefix`: `HuffmanCode` implements the steps of `PrefixReader` (`Reader!SpecSteps`):
  each step begins, reads a symbol, finds none, finishes, or is a stutter. `ReadInv` says that
  the bits read since the last symbol are in `code`, and that no readable code ends within them,
  because the table rows passed so far matched none. A row matches exactly the codes of its
  length, so the next one to match is the one code the bits ahead begin with.

Assumptions: `CodebookBounds`, `BitWidths`, `CodecInputs`.

### Building a codebook (`DictBuildProofs`)

For every number of byte values, every alphabet, width and table of frequencies, every corpus
and any number of runs:

* `DictTypeCorrect`: `[]TypeOK`. No place outside the arena is read, ids stay below
  twice the number of byte values, and a depth fits the `u8` the code keeps it in, although
  frequencies may wrap.
* `ExitIsTrue`: `[]ExitTellsTheFile`, whatever fails or is killed.
* `OnlyBuiltBooksLoad`: `[]LoadedBookWasBuilt`, wherever the file was torn.

`TypeOK` does not say why a depth fits. `TreeInv` does: the leaves come first in the arena, a
child stands before its parent, and there are fewer merges than leaves, because each merge
makes the heap smaller by one (`HeapInv`); so a place on the walk's stack is at most as deep as
there are inner nodes behind it in the arena (`Fits`). That a pop finds a least entry rests on
ids being distinct, and for the leaves on `Occurring` being strictly ascending
(`OccurringLists`, by induction). `FileInv` adds how far the file has been written at each
step, and that a file left by an earlier run is the beginning of a codebook in `made`.

* `CodeSpaceAlwaysFull`: `[]CodeSpaceIsFull`, sums that wrap included.
* `DepthIsPaidFor`: `[]DeepTreesTakeLongTexts`.
* `BuiltBooksLoad`: `[]BuiltBookIsUsable`.

These three are about the tree, and `TreeInv` says nothing of that. `TreeShape` has three parts,
which `DictBuildProofs` proves inductive together:

* `ShapeInv`: the leaves are the bytes that occur, once each with its frequency; every node is
  the child of at most one, never its own sibling, and those that are nobody's child are what
  the heap holds (`Roots`). A merge keeps that (`MergeKeepsShape`), and it ends with one root.
* `WeightInv`: while no sum has wrapped, an inner node weighs what its children do, nothing in
  the heap weighs less than what was taken out before it, and so a node's sibling weighs at
  least what a child of that node does.
* `WalkInv`: each place on the stack carries the level of its node, and each leaf passed has its
  level as its length.

The code space is full because a level's share of it is that of the two levels below, so that
merge by merge the share of the leaves is that of the root (`CutSums`, `LevelShares`). This uses
the shape only, and holds with any weights. With the weights right, the heaviest node and
sibling at a level bound the whole text from below by consecutive Fibonacci numbers, by descent
from the root (`DepthTakesText`). A text shorter than that leaves all lengths within
`MAX_CODE_LENGTH`, and a full code space is what `validate_lengths` asks of them at most
(`ShortTextsFit`). `BookInv` carries this through the command's steps to the file. Sums over a
set are compared piece by piece, by induction over its subsets (`Sums` in `NaturalSets`).

* `MergesAsHuffman`: `DictBuild` implements the steps of `HuffmanMerging` (`Huffman!SpecSteps`).
  The groups are the bytes below the roots. `GroupInv` says that they are disjoint, that together
  they are the bytes that occur, and that a node weighs what the bytes below it sum to, modulo
  `FreqSpace`: reducing before or after adding is the same (`ModAdd`). So the two least entries
  of the heap stand for two lightest groups, and a node put over two others adds one to the
  depth of exactly their bytes (`GroupsJoined`). At the end of the walk a leaf's level is its depth
  below the root (`LevelsAreDepths`), so what is returned is what the merges have added up to.
  The walk, the command's steps and the file are stutters, and a kill forgets everything.

Assumptions: `CodebookBounds`, `FrequencyTables`, `DictInputs`, and `DeepTreesCount`: the
shortest text whose tree is deeper than `MAX_CODE_LENGTH` has a length a frequency can hold. With
the code's constants that is 4.5 * 10^13 in a `u64`; without it, sums could wrap in a shorter text.

### How the proofs deal with data

The operators read and write in loops, which are recursive functions here. That such a function
exists, and what each of its values is, goes by induction over a set of naturals
(`NatSetInduction`, from a least counterexample; `UpTo` is its bounded form), with the set
chosen for the loop. Induction schemes with an operator parameter cannot be instantiated here.

## Only model-checked

* Liveness: `Ends` and the termination part of the refinements. `ENABLED` and fairness are
  outside the prover.
* Of the refinements `IsHuffmansAlgorithm` and `ReadsByPrefix` the part that says it ends; their
  steps are proved. The refinement `KeepsThePromise` as a whole.
* Optimality of the lengths `build_codebook` computes (`LengthsAreOptimal`): the exchange
  argument compares the tree with every other book.
* `ChosenFormIsSmallest`; of the codec `RoundTrip` and `PayloadIsCanonical`.

## Not modelled, and the plan

`error.rs` is wording. `xtask` and `benches/` measure and keep no state. Of `main.rs` the
argument parser and the two commands that make one library call are left out. The entries of
the dictionaries are data, and so are the bundled codebook and corpus.

What is left to do, in this order:

1. Payload text: base 85 digit by digit, non-digits, and the leading zero digits that give
   one payload several texts.
2. Proofs: `RoundTrip` and the steps of `Codec` against `UrlCodecSpec`, from the tape of
   `CodecProofs` with the texts the decoder joins; `ChosenFormIsSmallest`.
