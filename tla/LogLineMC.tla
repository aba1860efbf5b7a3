----------------------------- MODULE LogLineMC ------------------------------
(***************************************************************************)
(* Values for checking LogLine with TLC: for each field, no bit, every     *)
(* bit, its lowest and its highest; messages of every argument; payloads   *)
(* that no enumerator names.                                               *)
(***************************************************************************)
EXTENDS LogLine

Edges(width) == {{}, {0}, {width - 1}, 0..(width - 1)}

MC_Ticks == {{}, {0}, {58}, Ones(64), {0, 59, 61, 62}}
MC_Contexts == Edges(32)
MC_Kinds == {{}, {0}, {1}, Ones(8)}
MC_Reasons == {{1}} \union Edges(16)
\* Domain bytes 0, 1, 3, 4 and 255; reasons and ids 0, 1, 2, 5 and 2^15.
MC_Corrupt ==
    {d \union r : d \in {{}, {0}, {0, 1}, {2}, 0..7},
                  r \in {{}, {16}, {17}, {16, 18}, {31}}}
    \union {Ones(64)}

MC_Leftovers == {{}, Ones(64)}

\* For the run about names, fewer.
FewTicks == {{}}
FewReasons == {{}, {0}}

\* One source that has every argument, this repository's, and one whose names and
\* texts take all the room they may.
Full ==
    [Repository EXCEPT
        !.reasons = [e_CORE |-> <<"a", "b">>, e_VULKAN |-> <<"a">>, e_METAL |-> <<"a">>],
        !.reason_names =
            [e_CORE |-> <<"core reason", "log_too_many_threads">>,
             e_VULKAN |-> <<"vulkan reason">>,
             e_METAL |-> <<"metal reason">>],
        !.messages =
            [e_CORE |-> <<"a", "b", "c", "d", "e">>, e_VULKAN |-> <<"a">>, e_METAL |-> <<"a", "b">>],
        !.arguments =
            [e_CORE |-> <<"e_NONE", "e_UNSIGNED", "e_SIGNED", "e_HEX", "e_FLOAT">>,
             e_VULKAN |-> <<"e_NONE">>,
             e_METAL |-> <<"e_HEX", "e_NONE">>],
        !.texts =
            [e_CORE |-> <<<<"nothing", " ", "more">>,
                          <<"frame ", "{", "}", " late">>,
                          <<"moved by ", "{", "}">>,
                          <<"{", "}", " at fault">>,
                          <<"scaled by ", "{", "}", " times">>>>,
             e_VULKAN |-> <<<<"vulkan message">>>>,
             e_METAL |-> <<<<"flags ", "{", "}">>, <<"metal message">>>>]]

Ten == "abcdefghij"
Hundred == Ten \o Ten \o Ten \o Ten \o Ten \o Ten \o Ten \o Ten \o Ten \o Ten
Longest ==
    [Repository EXCEPT
        !.reason_names.e_CORE = <<"unknown", Hundred \o SubSeq(Hundred, 1, 93)>>,
        !.arguments.e_CORE = <<"e_FLOAT">>,
        !.texts.e_CORE = <<<<Hundred, "{", "}", Hundred \o "1234567">>>>]

\* Sources with a mistake.
MissingText == [Full EXCEPT !.texts.e_METAL = <<<<"flags ", "{", "}">>>>]
OneMoreText == [Full EXCEPT !.texts.e_VULKAN = <<<<"vulkan message">>, <<"another">>>>]
UnsuitedText == [Full EXCEPT !.texts.e_VULKAN = <<<<"message ", "{", "}">>>>]
MissingReason == [Full EXCEPT !.reason_names.e_CORE = <<"core reason">>]
MissingArgument == [Full EXCEPT !.arguments.e_METAL = <<"e_HEX">>]
MissingKind == [Full EXCEPT !.kind_names = <<"unknown">>]
MissingDomain == [Full EXCEPT !.domain_names = <<"unknown", "core", "vulkan">>]

MC_Sources ==
    {Full, Repository, Longest, MissingText, OneMoreText, UnsuitedText, MissingReason,
     MissingArgument, MissingKind, MissingDomain}
MC_Declarations == {s.arguments : s \in MC_Sources}

FewSources == {Repository}
FewDeclarations == {k_ARGUMENTS}

MC_Counts == {Ones(64)}

Name(said, size, newlines) == [text |-> said, size |-> size, newlines |-> newlines]
MC_Threads == {Name("io", 2, {}), Name("worker", 8, {}), Name("rendering", 20, {})}
\* Names that hold a newline, past the column or in it.
MC_BrokenThreads == {Name("job[", 20, {15}), Name("stream", 7, {7})}
=============================================================================
