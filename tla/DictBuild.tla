----------------------------- MODULE DictBuild -----------------------------
(***************************************************************************)
(* `urlz dict build` (main.rs) around build_codebook: read a corpus, count *)
(* its bytes, build the codebook and write it to codebook.bin, with every  *)
(* step that can fail and a kill at any moment; and a program that calls   *)
(* build_codebook on frequencies of its own.                               *)
(*                                                                         *)
(* Whoever loads the file (deserialize_codebook) may do so at any moment,  *)
(* so what can be loaded is stated of every state.                         *)
(***************************************************************************)
EXTENDS HuffmanTree

CONSTANTS
  Corpora,       (* the texts parse_corpus can return, as bytes            *)
  DefaultBook,   (* assets/codebook.bin                                    *)
  MaxRuns        (* bound: runs of the command                             *)

ASSUME DictInputs ==
  /\ Corpora \subseteq Seq(Bytes)
  /\ \A text \in Corpora : Len(text) < FreqSpace
  /\ DefaultBook \in Codebooks /\ ValidLengths(DefaultBook)
  /\ UsedBytes(DefaultBook) = Base85
  /\ MaxRuns \in Nat

(* The shortest text with a tree too deep can be counted: 65 levels take   *)
(* 4.5 * 10^13 symbols, and a frequency goes up to 1.8 * 10^19.            *)
ASSUME DeepTreesCount == LeastTotal(MaxCodeLength + 1) < FreqSpace

VARIABLES
  cstep,     (* program counter of the command                             *)
  corpus,    (* the text this run has read, <<>> before                    *)
  book,      (* `cb`                                                       *)
  file,      (* codebook.bin; <<>> also when there is none                 *)
  found,     (* codebook.bin when this run began                           *)
  made,      (* every codebook a run has come to have in `cb`              *)
  exit,      (* how the last run ended: "none" while it has not            *)
  runs       (* runs begun                                                 *)

cvars == <<cstep, corpus, book, file, found, made, exit, runs>>
vars == <<tvars, cvars>>

CommandSteps ==
  {"idle", "library", "read", "build", "mkdir", "create", "write", "report", "exited"}

Init ==
  /\ TreeIdle
  /\ cstep = "idle" /\ corpus = <<>> /\ book = NoCodes /\ file = <<>> /\ found = <<>>
  /\ made = {} /\ exit = "none" /\ runs = 0

-----------------------------------------------------------------------------
(* A program calls build_codebook. *)
LibraryCall ==
  /\ cstep = "idle" /\ cstep' = "library"
  /\ \E f \in Frequencies : BuildCall(f)
  /\ UNCHANGED <<corpus, book, file, found, made, exit, runs>>

LibraryStep == cstep = "library" /\ TreeNext /\ UNCHANGED cvars

-----------------------------------------------------------------------------
(* The command. *)
Begin(step, cb) ==
  /\ cstep \in {"idle", "exited"} /\ runs < MaxRuns
  /\ cstep' = step /\ runs' = runs + 1 /\ found' = file /\ exit' = "none"
  /\ corpus' = <<>> /\ book' = cb
  /\ UNCHANGED <<tvars, file>>

RunWithCorpus == Begin("read", NoCodes) /\ UNCHANGED made

RunWithDefault == Begin("mkdir", DefaultBook) /\ made' = made \cup {DefaultBook}

Occurrences(text, b) == Cardinality({i \in 1..Len(text) : text[i] = b})

(* bug: characters the corpus lacks get no code *)
CountsOnlySeen(text) ==
  [b \in Bytes |-> IF b \in Base85 THEN Occurrences(text, b) ELSE 0]

(* build_from_corpus: each character of the alphabet counts at least once. *)
Counts(text) ==
  [b \in Bytes |-> IF b \notin Base85 THEN 0
                   ELSE IF Occurrences(text, b) = 0 THEN 1 ELSE Occurrences(text, b)]

ReadCorpus ==
  /\ cstep = "read" /\ cstep' = "build"
  /\ \E text \in Corpora : corpus' = text /\ BuildCall(Counts(text))
  /\ UNCHANGED <<book, file, found, made, exit, runs>>

BuildStep == cstep = "build" /\ TreeNext /\ UNCHANGED cvars

BookBuilt ==
  /\ cstep = "build" /\ tstep = "built" /\ cstep' = "mkdir"
  /\ book' = lengths /\ made' = made \cup {lengths}
  /\ UNCHANGED <<tvars, corpus, file, found, exit, runs>>

MakeDir ==
  /\ cstep = "mkdir" /\ cstep' = "create"
  /\ UNCHANGED <<tvars, corpus, book, file, found, made, exit, runs>>

(* std::fs::write creates or empties the file, and then writes until every *)
(* byte is out.                                                            *)
Create ==
  /\ cstep = "create" /\ cstep' = "write" /\ file' = <<>>
  /\ UNCHANGED <<tvars, corpus, book, found, made, exit, runs>>

Write ==
  /\ cstep = "write"
  /\ \E n \in (Len(file) + 1)..NumBytes :
       /\ file' = SubSeq(Serialize(book), 1, n)
       /\ cstep' = IF n = NumBytes THEN "report" ELSE "write"
  /\ UNCHANGED <<tvars, corpus, book, found, made, exit, runs>>

(* println! panics when standard output cannot be written. *)
Report ==
  /\ cstep = "report" /\ cstep' = "exited" /\ exit' \in {"ok", "panic"}
  /\ UNCHANGED <<tvars, corpus, book, file, found, made, runs>>

(* bug: an error of the write is not looked at *)
FailUnnoticed ==
  /\ cstep \in {"read", "mkdir", "create", "write"} /\ cstep' = "exited"
  /\ exit' = IF cstep = "write" THEN "ok" ELSE "error"
  /\ UNCHANGED <<tvars, corpus, book, file, found, made, runs>>

(* A step of the operating system fails; `?` ends the run with exit code 1.*)
Fail ==
  /\ cstep \in {"read", "mkdir", "create", "write"} /\ cstep' = "exited"
  /\ exit' = "error"
  /\ UNCHANGED <<tvars, corpus, book, file, found, made, runs>>

(* The process is killed; its memory is gone, the file stays. *)
Kill ==
  /\ cstep \notin {"idle", "library", "exited"} /\ cstep' = "exited"
  /\ exit' = "killed"
  /\ freqs' = NoCodes /\ nodes' = <<>> /\ heap' = {} /\ nextId' = NumBytes
  /\ stack' = <<>> /\ lengths' = NoCodes /\ tstep' = "idle"
  /\ UNCHANGED <<corpus, book, file, found, made, runs>>

(* The library call has returned, or no further run is begun. *)
Over ==
  /\ \/ cstep = "library" /\ tstep = "built"
     \/ cstep = "exited" /\ runs = MaxRuns
  /\ UNCHANGED vars

OwnStep ==
  \/ LibraryStep \/ ReadCorpus \/ BuildStep \/ BookBuilt \/ MakeDir \/ Create \/ Write
  \/ Report \/ Fail

Next == LibraryCall \/ RunWithCorpus \/ RunWithDefault \/ OwnStep \/ Kill \/ Over

(* A thread that can run does; nobody has to call, and nobody has to kill. *)
Spec == Init /\ [][Next]_vars /\ WF_vars(OwnStep)

-----------------------------------------------------------------------------
TypeOK ==
  /\ TreeTypeOK
  /\ cstep \in CommandSteps /\ corpus \in Seq(Bytes) /\ book \in Codebooks
  /\ file \in Seq(Bytes) /\ found \in Seq(Bytes) /\ made \subseteq Codebooks
  /\ exit \in {"none", "ok", "panic", "error", "killed"} /\ runs \in 0..MaxRuns

(* A codebook that loads is one that some run built: a file torn by a full *)
(* disk or a kill in the middle of the write is refused, never read as a   *)
(* codebook nobody built.                                                  *)
LoadedBookWasBuilt ==
  Deserialize(file).ok => Deserialize(file).book \in made

(* The exit code tells what is in the file: this run's codebook, whole,    *)
(* after success or a panic over the report, and after an error either what*)
(* was there before or the beginning of this run's codebook.               *)
ExitTellsTheFile ==
  /\ exit \in {"ok", "panic"} => file = Serialize(book)
  /\ exit = "error" => file = found \/ IsStrictPrefix(file, Serialize(book))

(* What the command wrote can be used: the file loads, and every character *)
(* of the alphabet has a code in it whatever the corpus lacked, unless the *)
(* corpus was long enough for a tree deeper than MAX_CODE_LENGTH.          *)
BuiltBookIsUsable ==
  exit = "ok" /\ Sum(Counts(corpus), Bytes) < LeastTotal(MaxCodeLength + 1) =>
    /\ Deserialize(file).ok
    /\ UsedBytes(Deserialize(file).book) = Base85

-----------------------------------------------------------------------------
(* build_codebook, merge by merge in its arena and then node by node down  *)
(* the tree, is Huffman's algorithm, and it returns.                       *)
Depths ==
  LET trees == Trees
  IN  [b \in Bytes |->
         LET holding == {t \in trees : b \in DOMAIN t}
         IN  IF holding = {} THEN 0 ELSE (CHOOSE t \in holding : TRUE)[b]]

Phase == IF tstep \in {"merge", "walk"} THEN "building" ELSE tstep

Huffman == INSTANCE HuffmanMerging WITH
  Symbols <- Bytes,
  groups <- {DOMAIN t : t \in Trees},
  depth <- Depths,
  phase <- Phase,
  answer <- IF tstep = "built" THEN lengths ELSE NoCodes

IsHuffmansAlgorithm == Huffman!SpecPromise

=============================================================================
