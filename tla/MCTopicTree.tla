---------------------------- MODULE MCTopicTree ----------------------------
(***************************************************************************)
(* A small instance of TopicTree: subscribers whose paths share prefixes,  *)
(* use both wildcards and skip an empty level, and one that is invalid.    *)
(***************************************************************************)
EXTENDS TopicTree, TLC

MCTopicOf ==
    ("s1" :> <<"a", "b">>) @@ ("s2" :> <<"a", "+">>) @@ ("s3" :> <<"+", "*">>)
        @@ ("s4" :> <<"a">>) @@ ("s5" :> <<"a", "*", "b">>) @@ ("s6" :> <<"a", "", "b">>)

MCSub == DOMAIN MCTopicOf

\* Readers are interchangeable.
ReaderSymmetry == Permutations(Reader)

MCPubTopic == {<<"a", "b">>, <<"a", "", "b">>, <<"a", "+">>, <<"a", "">>}

\* The instance for failing allocations, which multiply the states.
SmallTopicOf == ("s1" :> <<"a", "b">>) @@ ("s2" :> <<"a", "*">>) @@ ("s3" :> <<"a">>)

SmallSub == DOMAIN SmallTopicOf

SmallPubTopic == {<<"a", "b">>, <<"a">>}
=============================================================================
