------------------------------ MODULE MCRelease ------------------------------
(* Small instances of Release for TLC. *)
EXTENDS Release

CONSTANTS none, alice, bob, escrow, junk, error

SomeBytes     == {none, alice, bob, escrow, junk}
SomeAddresses == [chain \in Chains |-> {alice, bob, escrow}]

\* Texts in hex are Base64 as well, and one of them is Base58 too: the hex of
\* junk is the text that Base58 writes bob's address with.
SomeMisreadings ==
    [p \in Bodies \X Schemes |->
        CASE p[1].bytes = none -> none
          [] p[1].scheme = "hex" /\ p[2] = "base64" /\ p[1].bytes # none -> junk
          [] p[1] = [scheme |-> "base58", bytes |-> bob] /\ p[2] # "base58" -> junk
          [] p[1] = [scheme |-> "hex", bytes |-> junk] /\ p[2] = "base58" -> bob
          [] OTHER -> error]

-----------------------------------------------------------------------------
h(s, p) == Hashlock(Sha256(<<s>>), <<p>>)
SomePoints == {"x", "y"}

\* Two locks with and without the preimage; signatures, and a key and message
\* whose bytes run together; thresholds from zero to one too many, one of them
\* over a subcondition that never holds, one with the same lock twice.
Leaves ==
    {h("a", "a"), h("a", "?"), h("b", "b"), h("b", "?"),
     Ed25519(<<"x">>, <<"m">>, Signed(<<"x">>, <<"m">>)),
     Ed25519(<<"x">>, <<"m">>, Signed(<<"y">>, <<"m">>)),
     Secp256k1(<<"02", "x">>, <<"y">>, Signed(<<"02", "x">>, <<"y">>)),
     Secp256k1(<<"05", "x">>, <<"y">>, Signed(<<"05", "x">>, <<"y">>)),
     Secp256k1(<<"04", "x">>, <<"y">>, Signed(<<"04", "x">>, <<"y">>)),
     Secp256k1(<<"04", "x", "y">>, <<>>, Signed(<<"04", "x", "y">>, <<>>))}
Thresholds ==
    {Threshold(t, <<h("a", "a"), h("b", w)>>) : t \in 0 .. 3, w \in {"b", "?"}} \cup
    {Threshold(1, <<>>), Threshold(0, <<>>), Threshold(2, <<h("a", "a"), h("a", "?")>>)}
Nested ==
    {Threshold(t, <<Threshold(u, <<h("a", "a"), h("b", "b")>>), h("b", w)>>)
        : t \in 1 .. 2, u \in {0, 2, 3}, w \in {"b", "?"}}
NestedSubs == {Threshold(u, <<h("a", "a"), h("b", "b")>>) : u \in {0, 2, 3}}
SomeConditions == Leaves \cup Thresholds \cup Nested \cup NestedSubs
SomeHeights ==
    [c \in SomeConditions |-> IF c \in Leaves THEN 0 ELSE IF c \in Nested THEN 2 ELSE 1]

-----------------------------------------------------------------------------
Text(scheme, bytes, prefix, blanks) ==
    [body |-> [scheme |-> scheme, bytes |-> bytes], prefix |-> prefix,
     blanks |-> blanks, oversized |-> FALSE]
Scheme(chain) == IF chain = "ethereum" THEN "hex" ELSE "base58"

CleanParams(chain) ==
    [chain |-> chain, agent |-> Encoded(Scheme(chain), escrow), signer |-> alice,
     asset |-> native(1), sender |-> Canonical(Scheme(chain), alice),
     recipient |-> Canonical(Scheme(chain), bob), has_conditions |-> TRUE]

\* Labels and spellings for somebody's identity.
Spelled(bytes) ==
    {Labelled("hex", Text("hex", bytes, p, b)) : p \in Prefixes, b \in BOOLEAN} \cup
    {Labelled("base64", Text("hex", bytes, "", FALSE)), Raw(bytes),
     Labelled("hex", Text("base58", bytes, "", FALSE))} \cup
    {Canonical(scheme, bytes) : scheme \in Schemes} \cup {Canonical("hex", junk)}

SomeAssets ==
    {native(n) : n \in {0, U64Max + 1, U256Max + 1}} \cup
    [kind : {"native", "token"}, amount : {1},
     agent_id : Option({Raw(none), Raw(escrow), Labelled("hex", Text("hex", escrow, "0X", FALSE))})]

\* Clean files with every condition, and files changed in one place with a
\* witness at hand or not.
Changed(p) ==
    {[p EXCEPT !.sender = id] : id \in Spelled(alice)} \cup
    {[p EXCEPT !.recipient = id] : id \in Spelled(bob)} \cup
    {[p EXCEPT !.asset = a] : a \in SomeAssets} \cup
    {[p EXCEPT !.agent = Text(Scheme(p.chain), escrow, x, b)] : x \in Prefixes, b \in BOOLEAN} \cup
    {[p EXCEPT !.signer = bob], [p EXCEPT !.has_conditions = FALSE]}

SomeScenarios ==
    [params : {CleanParams("ethereum")}, files : {SomeConditions}] \cup
    [params : UNION {Changed(CleanParams(chain)) : chain \in Chains},
     files : {{h("a", "a"), h("a", "?")}}]
=============================================================================
