-------------------------- MODULE MCSegmentCoding --------------------------
(* Radices 3, 5, 8, 13 and 14 and bytes of 6 bits: most widths are rounded *)
(* up, so that values above the capacity of a width exist.                 *)
EXTENDS SegmentCoding

MCDigits == <<"0", "1", "2">>
MCLowers == <<"a", "b", "c", "d", "e">>
MCUppers == <<"A", "B", "C", "D", "E">>
MCSyms   == <<"-">>
MCOthers == <<"%", ".", ":", "/", "?", "#", "&", "=", "@", "[">>
MCLowerOf == "A" :> "a" @@ "B" :> "b" @@ "C" :> "c" @@ "D" :> "d" @@ "E" :> "e"
MCHexUpper == <<"0", "1", "2", "A", "B", "C", "D", "E">>
MCHexVal == "0" :> 0 @@ "1" :> 1 @@ "2" :> 2
            @@ "A" :> 3 @@ "B" :> 4 @@ "C" :> 5 @@ "D" :> 6 @@ "E" :> 7
            @@ "a" :> 3 @@ "b" :> 4 @@ "c" :> 5 @@ "d" :> 6 @@ "e" :> 7
MCUtf8 == "eacute" :> <<60, 33>>
MCNumeral == "0" :> 0 @@ "1" :> 1
MCPortText == 0 :> "0" @@ 1 :> "1"
MCOctets == {"0", "1"}

(* "a" and "." are frequent, "%" has no code *)
MCHuffCode == "a" :> <<0>> @@ "." :> <<1, 0>> @@ "b" :> <<1, 1, 0>>
              @@ "0" :> <<1, 1, 1, 0>> @@ "A" :> <<1, 1, 1, 1>>

MCPieces == {<<c>> : c \in {"0", "1", "2", "a", "b", "A", "B", "-", "%", ".",
                    "eacute"}}
            \cup {<<"%", "0", "A">>, <<"%", "B", "1">>}

MCTrails == {<<>>, <<0>>, <<1>>, <<1, 0, 1, 1>>, <<0, 0, 0, 0, 0, 0>>}

(* any alphabet and count; two raw bytes that may be a non-ASCII         *)
(* character; three symbols (an escaped count) of base 14                 *)
MCHeads == {<<0>>, <<1>>, <<1, 1, 0, 1, 0, 1, 1, 1, 1>>, <<1, 0, 0, 1, 1, 0, 0, 0>>}
=============================================================================
