---------------------------- MODULE MCCommandLine ---------------------------
EXTENDS CommandLine

Command(name, argv) == [name |-> name, argv |-> argv]

\* A plain topic, a wildcard, a topic the broker refuses, one that does not fit in
\* a frame, one that is sent cut and an empty one, in orders that let each be
\* followed by another.
MCLong == {<<"long">>}
MCCut == [topic \in {<<"longer">>} |-> <<"a">>]
MCCommands ==
    {Command("sub", argv) : argv \in {<< <<"a">>, <<"+">> >>, << <<"+">>, <<"*">>, <<"a">> >>,
                                      << <<"a", "">>, <<"a">> >>, << <<"a">>, <<"long">>, <<"+">> >>,
                                      << <<"longer">>, <<"">>, <<"a">> >> }}
    \cup
    {Command("pub", argv) : argv \in {<< <<"a">>, <<"b">> >>, << <<"long">>, <<"a">>, <<"long">> >>,
                                      << <<"long">>, <<"a">> >>, << <<"longer">>, <<"">> >> }}
MCPublished == {<<"a">>, <<"b">>}
=============================================================================
