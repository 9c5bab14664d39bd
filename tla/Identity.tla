------------------------------ MODULE Identity ------------------------------
(***************************************************************************)
(* Identities (core/src/identity.rs) and how the client reads them as      *)
(* addresses (client/src/ethereum.rs, client/src/solana.rs).               *)
(*                                                                         *)
(* A text is written in some scheme, and most texts decode under others as *)
(* well, to other bytes or to none: "deadbeef" is hex, Base58 and Base64.  *)
(* A byte string is a model value, and a text is known by the bytes it was *)
(* written for, its prefix and the blanks around it.                       *)
(***************************************************************************)
EXTENDS Integers

CONSTANTS
    Bytes,        \* byte strings, the empty one among them
    Empty,
    Undecodable,  \* the error of a decoder
    AddressOf,    \* the byte strings with an address's length, per chain
    Misread       \* what a body yields under a scheme it is not written in

Chains   == {"ethereum", "solana"}
Schemes  == {"hex", "base58", "base64"}
Bodies   == [scheme : Schemes, bytes : Bytes]
Prefixes == {"", "0x", "0X"}

\* `oversized': longer than MAX_ID_LEN, for the blanks around it.
Texts == [body : Bodies, prefix : Prefixes, blanks : BOOLEAN, oversized : BOOLEAN]

ID == [encoding : Schemes, text : Texts] \cup [encoding : {"bytes"}, bytes : Bytes]

\* The bytes a body yields under a scheme.
Under(body, scheme) ==
    IF body.scheme = scheme THEN body.bytes ELSE Misread[body, scheme]

\* Base58 writes a byte string in one way, so a text that decodes under it is
\* the text of what it decodes to, and reads alike under every scheme.
ASSUME IdentityAssumption ==
    /\ Empty \in Bytes /\ Undecodable \notin Bytes
    /\ AddressOf \in [Chains -> SUBSET (Bytes \ {Empty})]
    /\ Misread \in [Bodies \X Schemes -> Bytes \cup {Undecodable}]
    /\ \A body \in Bodies, scheme \in Schemes :
          LET bytes == Under(body, "base58") IN
          bytes # Undecodable =>
              Under([scheme |-> "base58", bytes |-> bytes], scheme) = Under(body, scheme)

\* hex::encode, bs58::encode, BASE64_STANDARD.encode.
Encoded(scheme, bytes) ==
    [body |-> [scheme |-> scheme, bytes |-> bytes], prefix |-> "",
     blanks |-> FALSE, oversized |-> FALSE]

\* No decoder takes blanks, nor a prefix that is still there: x is no hex
\* digit, 0 is not in Base58, and an address with a prefix has the wrong
\* length for Base64.
Decoded(text, scheme) ==
    IF text.blanks \/ text.prefix # "" THEN Undecodable ELSE Under(text.body, scheme)

trim(text) == [text EXCEPT !.blanks = FALSE, !.oversized = FALSE]
strip_prefix(text, prefixes) == IF text.prefix \in prefixes THEN [text EXCEPT !.prefix = ""] ELSE text
strip_hex_prefix(text) == strip_prefix(text, {"0x", "0X"})

(***************************************************************************)
(* ID                                                                      *)
(***************************************************************************)

\* Only the prefix in lower case is taken off.
to_bytes(id) ==
    CASE id.encoding = "bytes" -> id.bytes
      [] id.encoding = "hex"   -> Decoded(strip_prefix(id.text, {"0x"}), "hex")
      [] OTHER                 -> Decoded(id.text, id.encoding)

validate(id) == to_bytes(id) \notin {Undecodable, Empty}

\* Display: the text as it stands, whatever scheme it is labelled with.
to_string(id) == IF id.encoding = "bytes" THEN Encoded("base64", id.bytes) ELSE id.text

Labelled(scheme, text) == [encoding |-> scheme, text |-> text]
Canonical(scheme, bytes) == Labelled(scheme, Encoded(scheme, bytes))

\* The prefix is kept in the identity.
for_chainBug(chain, text) ==
    LET scheme == IF chain = "ethereum" THEN "hex" ELSE "base58"
    IN  {id \in {Labelled(scheme, trim(text))} : text.body.bytes # Empty}

\* At most one identity: none for a text that is refused.  (A text is
\* trimmed before its length is looked at.)
for_chain(chain, text) ==
    LET scheme == IF chain = "ethereum" THEN "hex" ELSE "base58"
        raw    == IF chain = "ethereum" THEN strip_hex_prefix(trim(text)) ELSE trim(text)
        bytes  == Decoded(raw, scheme)
    IN  IF bytes = Undecodable THEN {}
        ELSE {id \in {Canonical(scheme, bytes)} : validate(id)}

\* ID::from_str: the first scheme of the three under which the text decodes.
from_str(text) ==
    LET raw     == strip_hex_prefix(trim(text))
        Reading == [s \in Schemes |-> Decoded(raw, s)]
        Fits(s) == Reading[s] # Undecodable
        scheme  == CASE Fits("hex")                          -> "hex"
                     [] ~Fits("hex") /\ Fits("base58")       -> "base58"
                     [] OTHER                                -> "base64"
    IN  IF text.oversized \/ raw.body.bytes = Empty \/ ~Fits(scheme) THEN {}
        ELSE {Canonical(scheme, Reading[scheme])}

(***************************************************************************)
(* Addresses                                                               *)
(***************************************************************************)

Parsed(chain, text) ==
    IF chain = "ethereum" THEN Decoded(strip_hex_prefix(text), "hex")
    ELSE Decoded(text, "base58")

\* Whatever decodes is an address.
AddressInBug(chain, text) == Parsed(chain, text)

\* EthereumAgent::parse_address takes off either prefix, SolanaAgent::
\* parse_pubkey none; both want the length of an address.
AddressIn(chain, text) ==
    IF Parsed(chain, text) \in AddressOf[chain] THEN Parsed(chain, text) ELSE Undecodable
=============================================================================
