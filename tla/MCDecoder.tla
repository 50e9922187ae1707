----------------------------- MODULE MCDecoder -----------------------------
EXTENDS Decoder, MCCharacters

Header(isHttps, isWww, index) ==
  NatToBits(WireVersion, 4) \o NatToBits(DictSetId, 4) \o <<isHttps, isWww>>
    \o NatToBits(index, 2)

(* no port, host "foo", TLD "com" *)
ShortHost == <<0>> \o <<0, 0, 0, 0>> \o <<0, 0>>

(* Streams are cut open at every region of the format: what comes before   *)
(* is fixed, what follows is any run of FreeBits bits.                     *)
FreeBits == 13

Fixed ==
  { Header(0, 1, 0),                             (* port and host          *)
    Header(1, 0, 3) \o <<1, 1, 1>>,              (* a port of its own      *)
    Header(1, 0, 1) \o <<0, 1, 1, 1, 1>>,        (* nine labels            *)
    Header(0, 0, 3) \o <<0, 0, 0, 0, 0>>,        (* TLD, index literal     *)
    Header(0, 0, 1) \o ShortHost,                (* the regions            *)
    Header(0, 0, 2) \o ShortHost \o <<1, 1, 1>>,
    (* a path segment of three pure-percent bytes, one too many *)
    Header(0, 0, 0) \o ShortHost \o <<1, 0, 0>> \o <<1, 0, 0>> \o <<1, 1, 1>>
      \o <<1, 1, 0, 0, 0, 0>> \o <<0, 0, 1, 0, 1, 0>>,
    Header(1, 1, 0) \o ShortHost \o <<0, 1, 0>>,
    Header(1, 0, 0) \o ShortHost \o <<0, 0, 1>> }

MCStreams ==
  { f \o t : f \in Fixed, t \in [1..FreeBits -> Bit] }
  \cup { <<>>, <<0, 0, 1>>, <<0, 0, 1, 1, 0, 0, 0, 1>> \o [i \in 1..16 |-> 0],
         <<0, 0, 1, 0, 0, 0, 1, 1>> \o [i \in 1..16 |-> 0] }
=============================================================================
