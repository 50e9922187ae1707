---------------------------- MODULE MCUrlParsing ----------------------------
(* Hex digits are "0" and "A"; "a" is the lower-case form of "A".          *)
EXTENDS UrlParsing

MCDigits == <<"0", "80", "080", "8080", "443">>
MCLowers == <<"a", "http", "https", "www", "index", "html", "php">>
MCUppers == <<"A", "HTTP", "WWW", "INDEX">>
MCSyms   == <<"-">>
MCOthers == <<"%", ".", ":", "/", "?", "#", "&", "=", "@", "[", "SP", "LF">>
MCBlanks == {"SP", "LF"}
MCLowerOf == "A" :> "a" @@ "HTTP" :> "http" @@ "WWW" :> "www" @@ "INDEX" :> "index"
MCHexVal == "0" :> 0 @@ "A" :> 1 @@ "a" :> 1
MCHexUpper == <<"0", "A">>
MCUtf8 == "eacute" :> <<3, 1>>
(* Ports of 2 bits: "80" is port 1, "443" port 2, "8080" port 3. *)
MCNumeral == "0" :> 0 @@ "80" :> 1 @@ "080" :> 1 @@ "443" :> 2 @@ "8080" :> 3
MCPortText == 0 :> "0" @@ 1 :> "80" @@ 2 :> "443" @@ 3 :> "8080"
MCOctets == {"0", "80"}

Slashes == <<":", "/", "/">>

(* Every authority, every mix of delimiters behind a short host, and a    *)
(* line of a corpus with a blank ahead of the URL.                         *)
MCOpenings ==
  { <<"HTTP">> \o Slashes, <<"https">> \o Slashes,
    <<"http">> \o Slashes \o <<"80", ".", "0", ".", "0", ".", "80">>,
    <<"http">> \o Slashes \o <<"a", "/", "INDEX", ".">>,
    <<"http">> \o Slashes \o <<"a", "?">>,
    <<"SP", "http">> \o Slashes \o <<"a", "/">>,
    <<"http">> \o Slashes \o <<"a", ".", "%", "a", "0", ":", "080">> }

MCTyped == {"a", "A", "www", ".", ":", "/", "?", "#", "&", "=", "%", "080", "8080",
            "443", "@", "[", "eacute", "index", "html", "INDEX", "http", "SP", "LF"}
=============================================================================
