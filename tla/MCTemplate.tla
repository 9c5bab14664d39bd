----------------------------- MODULE MCTemplate -----------------------------
(* Small instances of Template for TLC. *)
EXTENDS Template

\* Nothing set, a value that looks like a reference, a value that opens one
\* which the file could close, and an empty value.
SomeEnvironments ==
    {<<>>, [name \in {<<"a">>} |-> <<"${", "b", "}">>],
     [name \in {<<"b">>} |-> <<"${">>], [name \in {<<"a">>} |-> <<>>]}

SomeValues == {<<"a">>, <<"${", "a", "}">>}
=============================================================================
