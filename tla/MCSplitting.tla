---------------------------- MODULE MCSplitting ----------------------------
(***************************************************************************)
(* Instances of Splitting: all short texts over the characters that matter *)
(* to an expression, long enough to be cut into chunks.                    *)
(***************************************************************************)
EXTENDS Splitting

Texts(S, from, to) == UNION {[1..n -> S] : n \in from..to}

Scanned(scheme) == [engine |-> "scanner", scheme |-> scheme,
                    behavior |-> "Isolated", invert |-> FALSE]

\* What may follow an apostrophe, alone or after a word.
AfterQuote == {h \o <<"quote">> \o t :
                   h \in {<<>>, <<"s">>, <<"A">>, <<"lo">>, <<"sp">>},
                   t \in Texts({"s", "S", "longs", "l", "r", "e", "lo", "one", "sp"}, 1, 2)}

\* Long enough for two chunks, cut after a newline in the second half if one is
\* there, and for three.
Long(S) == {<<h>> \o t : h \in {"lo", "dot"}, t \in Texts(S, 7, 7)}
Longer == {<<"lo", "nl">> \o t : t \in Texts({"nl", "s"}, 10, 10)}

ScannerInputs ==
    UNION {[split : {Scanned(p[1])}, text : p[2]] : p \in
        {<<"Qwen2", Texts({"lo", "one", "sp", "tab", "nl", "quote"}, 1, 4)>>,
         <<"Qwen2", Longer>>,
         <<"Qwen2N3", Texts({"one", "sp"}, 1, 5) \cup Long({"one", "nl"}) \cup Long({"sp", "nl", "dot"})>>,
         <<"Kimi", Texts({"A", "s", "lo", "mark", "han", "sp"}, 1, 4)>>,
         <<"Kimi", Texts({"one", "han", "hannum", "hanother", "mark", "tab"}, 1, 3)>>,
         <<"Kimi", Texts({"quote", "nl", "slash", "sp"}, 1, 4)>>,
         <<"O200k", Texts({"A", "s", "lo", "one", "sp", "dot"}, 1, 4)>>,
         <<"Kimi", Long({"nl", "slash"})>>,
         <<"O200k", Long({"nl", "slash", "dot"})>>}
        \cup {<<scheme, AfterQuote>> : scheme \in Schemes}}

BlankRuns == <<<<Plus(Blank)>>>>
Pairs     == <<<<Words({<<"s", "s">>})>>, <<Words({<<"s", "A">>})>>>>

Engine(engine, pattern, behavior, invert) ==
    [engine |-> engine, pattern |-> pattern, behavior |-> behavior, invert |-> invert]

\* Texts of 8 to 11 characters are two chunks, of 12 three.
EngineInputs ==
    [split : {Engine("pcre2", BlankRuns, b, i) : b \in Behaviors, i \in BOOLEAN},
     text : Texts({"sp", "s"}, 1, 5)]
    \cup
    [split : {Engine("fancy", Pairs, b, FALSE) : b \in {"Removed", "Isolated"}},
     text : Texts({"s", "A"}, 8, 8)]
    \cup
    [split : {Engine("pcre2", Qwen2Pattern(2), "Isolated", FALSE)},
     text : {h \o t : h \in {<<>>, <<"one", "one", "one">>, <<"s", "one", "one", "sp">>},
                      t \in Texts({"sp", "one"}, 8, 9)}]

AllInputs == ScannerInputs \cup EngineInputs

\* Pairs found in two chunks.
PairInputs == [split : {Engine("pcre2", Pairs, "Isolated", FALSE)}, text : Texts({"s", "A"}, 8, 8)]
=============================================================================
