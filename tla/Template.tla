------------------------------ MODULE Template ------------------------------
(***************************************************************************)
(* Loading a parameter, metadata or condition file (load_escrow_data in    *)
(* core/src/interface.rs): the text is scanned once, every ${NAME} in it   *)
(* is replaced by the value of an environment variable, and the load is    *)
(* refused if any of them is unset.                                        *)
(*                                                                         *)
(* A text is a sequence of symbols: the opening "${", the closing "}", and *)
(* other characters.  Values are texts, so a value may look like a         *)
(* reference itself.                                                       *)
(***************************************************************************)
EXTENDS Integers, Sequences, FiniteSetsExt

CONSTANTS
    Letters,       \* characters of a text besides "${" and "}"
    MaxLength,     \* bound: symbols in a file
    Environments,  \* initial environments: functions from names to values
    Values         \* what a user sets a missing variable to

Symbols == {"${", "}"} \cup Letters
Texts   == UNION {[1 .. n -> Symbols] : n \in 0 .. MaxLength}

ASSUME TemplateAssumption ==
    /\ {"${", "}"} \cap Letters = {}
    /\ MaxLength \in Nat
    /\ \A e \in Environments : \A name \in DOMAIN e : e[name] \in Seq(Symbols)
    /\ Values \subseteq Seq(Symbols)

VARIABLES
    content,    \* the file
    env,        \* the environment
    pc,         \* "expanding", "loaded" or "refused"
    remaining,  \* expand_with: what is left to scan
    result,     \* expand_with: what was produced
    missing,    \* expand_env_checked: names that were unset
    rounds      \* how often the user has set what was missing

vars == <<content, env, pc, remaining, result, missing, rounds>>

From(s, i) == SubSeq(s, i, Len(s))
Occurs(symbol, s) == {i \in DOMAIN s : s[i] = symbol}
Found(symbol, s)  == Occurs(symbol, s) # {}
find(symbol, s)   == Min(Occurs(symbol, s))

\* The symbol after the first opening one, and whether a name ends there.
AfterStart(s) == From(s, find("${", s) + 1)
Closed(s)     == Found("${", s) /\ Found("}", AfterStart(s))
VarName(s)    == SubSeq(AfterStart(s), 1, find("}", AfterStart(s)) - 1)

\* std::env::var.  The empty name is never set.
IsSet(name, e) == name \in DOMAIN e
Value(name, e) == IF IsSet(name, e) THEN e[name] ELSE <<>>

(***************************************************************************)
(* The loop of expand_with                                                 *)
(***************************************************************************)

\* What is scanned next after a reference: the value again, too.
NextScanBug(s) == Value(VarName(s), env) \o From(AfterStart(s), find("}", AfterStart(s)) + 1)

NextScan(s) == From(AfterStart(s), find("}", AfterStart(s)) + 1)

\* Only the first unset name is recorded.
RecordedBug(name) ==
    IF IsSet(name, env) \/ missing # <<>> THEN missing ELSE Append(missing, name)

\* The lookup of expand_env_checked.
Recorded(name) == IF IsSet(name, env) THEN missing ELSE Append(missing, name)

ExpandReference ==
    /\ pc = "expanding"
    /\ Closed(remaining)
    /\ result' = result \o SubSeq(remaining, 1, find("${", remaining) - 1)
                        \o Value(VarName(remaining), env)
    /\ missing' = Recorded(VarName(remaining))
    /\ remaining' = NextScan(remaining)
    /\ UNCHANGED <<content, env, pc, rounds>>

\* The text before it is kept and the scan starts over at the opening symbol.
UnclosedBug(s) == [kept |-> SubSeq(s, 1, find("${", s) - 1), rest |-> From(s, find("${", s))]

\* An opening symbol that nothing closes: the text is kept to its end.
Unclosed(s) == [kept |-> s, rest |-> <<>>]

KeepUnclosed ==
    /\ pc = "expanding"
    /\ Found("${", remaining) /\ ~Closed(remaining)
    /\ result' = result \o Unclosed(remaining).kept
    /\ remaining' = Unclosed(remaining).rest
    /\ UNCHANGED <<content, env, pc, missing, rounds>>

\* An unset variable is not an error (expand_env_vars in its place).
VerdictBug == "loaded"

\* expand_env_checked: the text goes to the JSON parser, or the error names
\* every unset variable.
Verdict == IF missing = <<>> THEN "loaded" ELSE "refused"

\* `contains' finds nothing at the start, or the loop has ended.
FinishLoad ==
    /\ pc = "expanding"
    /\ ~Found("${", remaining)
    /\ result' = result \o remaining
    /\ remaining' = <<>>
    /\ pc' = Verdict
    /\ UNCHANGED <<content, env, missing, rounds>>

\* The user sets every variable the error names, if it can be set, and runs
\* the command again.
Settable == {missing[i] : i \in DOMAIN missing} \ {<<>>}
SetMissing ==
    /\ pc = "refused"
    /\ Settable # {}
    /\ \E v \in Values :
          env' = [name \in DOMAIN env \cup Settable |->
                      IF name \in Settable THEN v ELSE env[name]]
    /\ pc' = "expanding"
    /\ remaining' = content
    /\ result' = <<>>
    /\ missing' = <<>>
    /\ rounds' = rounds + 1
    /\ UNCHANGED content

Init ==
    /\ content \in Texts
    /\ env \in Environments
    /\ pc = "expanding"
    /\ remaining = content
    /\ result = <<>>
    /\ missing = <<>>
    /\ rounds = 0

Next == ExpandReference \/ KeepUnclosed \/ FinishLoad \/ SetMissing

\* A command runs to its end, and the user acts on the error.
Spec == Init /\ [][Next]_vars /\ WF_vars(Next)

-----------------------------------------------------------------------------
(***************************************************************************)
(* Properties                                                              *)
(***************************************************************************)

\* The reference definition, from the first symbol on: [text, unset] of a text.
Expansion(s, e) ==
    LET Of[t \in Seq(Symbols)] ==
          IF t = <<>> THEN [text |-> <<>>, unset |-> {}]
          ELSE LET rest   == From(t, 2)
                   Closes == {j \in DOMAIN rest : rest[j] = "}"}
                   name   == SubSeq(rest, 1, Min(Closes) - 1)
                   after  == From(rest, Min(Closes) + 1)
               IN  IF t[1] # "${" \/ Closes = {}
                   THEN [text |-> <<t[1]>> \o Of[rest].text, unset |-> Of[rest].unset]
                   ELSE [text  |-> Value(name, e) \o Of[after].text,
                         unset |-> Of[after].unset \cup (IF IsSet(name, e) THEN {} ELSE {name})]
    IN  Of[s]

\* Every variable has its type, and what is left to scan is an end of the file.
TypeOK ==
    /\ content \in Texts
    /\ pc \in {"expanding", "loaded", "refused"}
    /\ Len(remaining) <= Len(content)
    /\ remaining = From(content, Len(content) - Len(remaining) + 1)
    /\ result \in Seq(Symbols)
    /\ rounds \in Nat

\* What was produced and what is left make up the expansion of the file, at
\* every turn of the loop: values are copied and never expanded again,
\* unclosed references are kept, and the names missed are the unset ones.
ExpandsOnce ==
    LET rest == Expansion(remaining, env)  whole == Expansion(content, env) IN
    /\ result \o rest.text = whole.text
    /\ {missing[i] : i \in DOMAIN missing} \cup rest.unset = whole.unset

\* A file that loads has no reference that came out empty for want of a
\* variable ("a missing variable is a hard error here", expand_env_checked).
NothingSilentlyEmpty == pc = "loaded" => Expansion(content, env).unset = {}

\* "The error names every unset variable so the misconfiguration is
\* actionable": once the user has set what it names, the second load is not
\* refused for a variable that could be set.
OneErrorSuffices == pc = "refused" /\ rounds > 0 => Settable = {}

\* Every load ends, and in the end the file loads or refers to the empty name.
LoadEnds == <>[](pc = "loaded" \/ (pc = "refused" /\ Settable = {}))
=============================================================================
