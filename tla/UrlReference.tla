---------------------------- MODULE UrlReference ----------------------------
(***************************************************************************)
(* What the module docs of urlparse.rs promise of a URL text, stated on    *)
(* the text alone: no field of ParsedUrl, no splitting and joining.  The   *)
(* parser, its Display and the whole codec are measured against it.        *)
(***************************************************************************)
EXTENDS UrlParse

(* Character i is a digit of an escape. *)
InEscape(s, i) == \E k \in {1, 2} : i > k /\ s[i - k] = "%"

(* "each character is UTF-8 encoded and every byte is written as %XX",     *)
(* "their hex digits are normalized to uppercase"                          *)
Spell(s) ==
  LET spelled(i) ==
        IF s[i] \in DOMAIN Utf8
        THEN FlattenSeq([k \in 1..Len(Utf8[s[i]]) |-> Escape(Utf8[s[i]][k])])
        ELSE IF InEscape(s, i) THEN <<HexUp(s[i])>> ELSE <<s[i]>>
  IN  FlattenSeq([i \in 1..Len(s) |-> spelled(i)])

(* The texts below are accepted ones: scheme, "://", authority, resource.  *)
AuthorityFirst == 5

AuthorityLast(t) ==
  CHOOSE i \in AuthorityFirst..Len(t) :
    /\ \A j \in AuthorityFirst..i : t[j] \notin {"/", "?", "#"}
    /\ i < Len(t) => t[i + 1] \in {"/", "?", "#"}

(* "Scheme and host are lowercased" *)
LowerHead(t) ==
  LET last == AuthorityLast(t)
  IN  [i \in 1..Len(t) |-> IF i <= last /\ ~InEscape(t, i) THEN Lower(t[i]) ELSE t[i]]

(* "default ports (80/443) are dropped silently"; what the docs leave out: *)
(* another port is shown as a number is, "080" as 80 next to https.        *)
CanonicalPort(t) ==
  LET last    == AuthorityLast(t)
      hasPort == \E i \in AuthorityFirst..last : t[i] = ":"
      port    == Numeral[t[last]]
      default == port = IF t[1] = "https" THEN HttpsPort ELSE HttpPort
      shown   == IF default THEN <<>> ELSE <<":", PortText[port]>>
  IN  IF hasPort
      THEN SubSeq(t, 1, last - 2) \o shown \o SubSeq(t, last + 1, Len(t))
      ELSE t

(* A "#" with nothing after it yields no fragment segment. *)
DropEmptyFragment(t) ==
  LET hash == {i \in 1..Len(t) : t[i] = "#"}
  IN  IF hash = {Len(t)} THEN SubSeq(t, 1, Len(t) - 1) ELSE t

(* The normalized URL of an accepted text. *)
NormalText(s) == DropEmptyFragment(CanonicalPort(LowerHead(Spell(s))))

(* The host is written with a dot after its last label. *)
HasTrailingDot(s) ==
  LET t == CanonicalPort(LowerHead(Spell(s)))
      last == AuthorityLast(t)
  IN  \/ t[last] = "."
      \/ last - 2 >= AuthorityFirst /\ t[last - 1] = ":" /\ t[last - 2] = "."

=============================================================================
