---------------------------- MODULE MCCharacters ----------------------------
(* The character set of the codec's small instances.  Ports have 3 bits    *)
(* and are numbered anew: "80" is port 1, "443" 2, "8080" 3, "8443" 4,     *)
(* "3000" 5, "9999" 6.  Hex digits have 3 bits: 0 1 A B C D E F.           *)
EXTENDS Integers, Sequences, TLC

MCDigits == <<"0", "1", "80", "080", "443", "8080", "8443", "3000", "9999">>
MCLowers == <<"a", "b", "c", "d", "e", "f", "http", "https", "www", "index",
              "html", "php", "com", "foo">>
MCUppers == <<"A", "B", "C", "D", "E", "F", "HTTPS", "WWW", "INDEX">>
MCSyms   == <<"-">>
MCOthers == <<"%", ".", ":", "/", "?", "#", "&", "=", "@", "[">>
MCLowerOf == "A" :> "a" @@ "B" :> "b" @@ "C" :> "c" @@ "D" :> "d" @@ "E" :> "e"
             @@ "F" :> "f" @@ "HTTPS" :> "https" @@ "WWW" :> "www" @@ "INDEX" :> "index"
MCHexUpper == <<"0", "1", "A", "B", "C", "D", "E", "F">>
MCHexVal == "0" :> 0 @@ "1" :> 1
            @@ "A" :> 2 @@ "B" :> 3 @@ "C" :> 4 @@ "D" :> 5 @@ "E" :> 6 @@ "F" :> 7
            @@ "a" :> 2 @@ "b" :> 3 @@ "c" :> 4 @@ "d" :> 5 @@ "e" :> 6 @@ "f" :> 7
MCUtf8 == "eacute" :> <<60, 45>>
MCNumeral == "0" :> 0 @@ "80" :> 1 @@ "080" :> 1 @@ "443" :> 2 @@ "8080" :> 3
             @@ "8443" :> 4 @@ "3000" :> 5 @@ "9999" :> 6 @@ "1" :> 7
MCPortText == 0 :> "0" @@ 1 :> "80" @@ 2 :> "443" @@ 3 :> "8080" @@ 4 :> "8443"
              @@ 5 :> "3000" @@ 6 :> "9999" @@ 7 :> "1"
MCOctets == {"0", "1", "80"}
MCShortPorts == <<3, 4, 5>>

MCHuffCode == "a" :> <<0, 0>> @@ "index" :> <<0, 1>> @@ "." :> <<1, 0>>
              @@ "b" :> <<1, 1, 0>> @@ "html" :> <<1, 1, 1, 0>> @@ "INDEX" :> <<1, 1, 1, 1, 0>>
              @@ "=" :> <<1, 1, 1, 1, 1, 1>>

MCTlds == << <<"com">> >>
MCHosts == << <<"foo">> >>
MCPathTokens == << <<"foo">>, <<"www">> >>
MCQueryKeys == << <<"foo">>, <<"a">> >>
MCQueryValues == << <<"1">>, <<"html">> >>
=============================================================================
