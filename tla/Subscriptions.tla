---------------------------- MODULE Subscriptions ----------------------------
(***************************************************************************)
(* What the topic tree promises its callers, without a tree: a set of      *)
(* registered subscribers, and finds that return, exactly once each, the   *)
(* registered subscribers whose topic matches.  TopicTree implements it.   *)
(***************************************************************************)
EXTENDS Topics

CONSTANTS Sub, TopicOf, Reader, PubTopic, MallocMayFail

VARIABLES registered,  \* the subscribers finds can return
          ret,         \* what the last call of a writer returned
          answer       \* each reader's result array, << array >>, or NoAnswer

NoAnswer == <<>>

subscriptionVars == <<registered, ret, answer>>

Init ==
    /\ registered = {}
    /\ ret = "none"
    /\ answer = [r \in Reader |-> NoAnswer]

Returns(status) == ret' = status /\ UNCHANGED answer

\* The status tells the caller whether the call registered the subscriber.
Subscribe(s) ==
    \/ /\ Valid(TopicOf[s]) /\ s \notin registered
       /\ registered' = registered \cup {s}
       /\ Returns("OK")
    \/ /\ s \in registered
       /\ UNCHANGED registered
       /\ Returns("DUP_SUBSCRIBER")
    \/ /\ ~Valid(TopicOf[s])
       /\ UNCHANGED registered
       /\ Returns("INVALID_TOPIC")
    \/ /\ MallocMayFail /\ s \notin registered
       /\ UNCHANGED registered
       /\ Returns("NO_MEMORY")

Unsubscribe(s) == registered' = registered \ {s} /\ Returns("OK")

\* How many copies of each subscriber the answer to a find for t holds.
Exact(t) ==
    [s \in Sub |-> IF /\ s \in registered /\ Valid(t)
                      /\ Matches(Tokens(TopicOf[s]), Tokens(t))
                   THEN 1 ELSE 0]

Query(r, t) ==
    /\ answer[r] = NoAnswer
    /\ answer' = [answer EXCEPT ![r] = <<Exact(t)>>]
    /\ UNCHANGED <<registered, ret>>

Forget(r) ==
    /\ answer' = [answer EXCEPT ![r] = NoAnswer]
    /\ UNCHANGED <<registered, ret>>

Next ==
    \/ \E s \in Sub : Subscribe(s) \/ Unsubscribe(s)
    \/ \E r \in Reader : Forget(r) \/ \E t \in PubTopic : Query(r, t)

Spec == Init /\ [][Next]_subscriptionVars
=============================================================================
