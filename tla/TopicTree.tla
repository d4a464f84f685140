------------------------------ MODULE TopicTree ------------------------------
(***************************************************************************)
(* The broker's topic tree (lib/topic.c): a trie whose nodes hold sets of  *)
(* subscribers, shared by all client threads under one reader-writer lock. *)
(*                                                                         *)
(* A node is named by the path of tokens that leads to it from the root.   *)
(* Its children through ml_node, sl_node and the hash table nodes are the  *)
(* live paths one token longer.  Writers (topic__add_subscriber,           *)
(* topic__del_subscriber) hold the lock exclusively for their whole walk,  *)
(* so each is one step; finds (topic__tree_find_subscribers) share the     *)
(* lock and walk node by node, any number at a time.                       *)
(***************************************************************************)
EXTENDS Topics

CONSTANTS Sub,            \* subscriber structures (bpsp__subscriber*)
          TopicOf,        \* the topic of each subscriber
          Reader,         \* threads that run a find
          PubTopic,       \* the topics they look up
          MallocMayFail,  \* whether mem__malloc may return NULL
          NULL,           \* the null pointer
          Dangling        \* a pointer to a node that has been freed

ASSUME SubAssumption ==
    /\ TopicOf \in [Sub -> Seq(STRING)]
    /\ PubTopic \subseteq Seq(STRING)
    /\ MallocMayFail \in BOOLEAN

\* The subscribers whose topic topic__extract_token accepts, and the node each
\* of them belongs to.
ValidSub == {s \in Sub : Valid(TopicOf[s])}
Path == [s \in ValidSub |-> Tokens(TopicOf[s])]

\* The same for the topics that are looked up.
ValidTopic == {t \in PubTopic : Valid(t)}
Toks == [t \in ValidTopic |-> Tokens(t)]

\* Every path a subscriber can make the tree hold.
Paths == {<<>>} \cup UNION {Prefixes(Path[s]) : s \in ValidSub}

ASSUME PointerAssumption ==
    NULL # Dangling /\ {NULL, Dangling} \cap Paths = {} /\ NULL \notin PubTopic

VARIABLES
    nodes,    \* the live nodes
    subs,     \* node->subs of every node
    node,     \* sub->node of every subscriber
    ret,      \* the status the last writer returned
    corrupt,  \* the process has ended, or has met undefined behaviour
    pc,       \* what each reader is doing
    topic,    \* the topic it looks up
    pending,  \* the nodes its recursion has still to visit
    copies    \* how often each subscriber is in its result array

treeVars == <<nodes, subs, node, ret, corrupt>>
findVars == <<pc, topic, pending, copies>>
vars == <<nodes, subs, node, ret, corrupt, pc, topic, pending, copies>>

Status == {"none", "OK", "INVALID_TOPIC", "DUP_SUBSCRIBER", "NO_MEMORY"}

TypeOK ==
    /\ nodes \in SUBSET Paths
    /\ subs \in [Paths -> SUBSET Sub]
    /\ node \in [Sub -> Paths \cup {NULL, Dangling}]
    /\ ret \in Status
    /\ corrupt \in BOOLEAN
    /\ pc \in [Reader -> {"idle", "walk", "done"}]
    /\ topic \in [Reader -> ValidTopic \cup {NULL}]
    /\ pending \in [Reader -> SUBSET Paths]
    /\ copies \in [Reader -> [Sub -> Nat]]

Init ==
    /\ nodes = {<<>>}
    /\ subs = [q \in Paths |-> {}]
    /\ node = [s \in Sub |-> NULL]
    /\ ret = "none"
    /\ corrupt = FALSE
    /\ pc = [r \in Reader |-> "idle"]
    /\ topic = [r \in Reader |-> NULL]
    /\ pending = [r \in Reader |-> {}]
    /\ copies = [r \in Reader |-> [s \in Sub |-> 0]]

\* Faulty variant: the lock calls are commented out, as they are in
\* broker__accept.
WriteLock_Omitted == TRUE

-----------------------------------------------------------------------------
\* pthread_rwlock_wrlock succeeds only when no reader holds the lock.
WriteLock == \A r \in Reader : pc[r] # "walk"

\* topic__add_subscriber refuses the topic before it takes the lock.
AddInvalid(s) ==
    /\ s \notin ValidSub
    /\ ret' = "INVALID_TOPIC"
    /\ UNCHANGED <<nodes, subs, node, corrupt, findVars>>

\* Faulty variant: sub->node is not set.
AddNew_Unlinked(s) ==
    /\ WriteLock
    /\ s \in ValidSub
    /\ s \notin subs[Path[s]]
    /\ nodes' = nodes \cup Prefixes(Path[s])
    /\ subs' = [subs EXCEPT ![Path[s]] = @ \cup {s}]
    /\ ret' = "OK"
    /\ UNCHANGED <<node, corrupt, findVars>>

\* It creates the missing nodes of the path and enters the subscriber.
AddNew(s) ==
    /\ WriteLock
    /\ s \in ValidSub
    /\ s \notin subs[Path[s]]
    /\ nodes' = nodes \cup Prefixes(Path[s])
    /\ subs' = [subs EXCEPT ![Path[s]] = @ \cup {s}]
    /\ node' = [node EXCEPT ![s] = Path[s]]
    /\ ret' = "OK"
    /\ UNCHANGED <<corrupt, findVars>>

\* topic__node_add_sub finds the same structure under the same id.
AddDup(s) ==
    /\ WriteLock
    /\ s \in ValidSub
    /\ s \in subs[Path[s]]
    /\ node' = [node EXCEPT ![s] = Path[s]]
    /\ ret' = "DUP_SUBSCRIBER"
    /\ UNCHANGED <<nodes, subs, corrupt, findVars>>

\* An allocation fails.  For k below the path's length it is one for the node
\* after the first k tokens; for k equal to it, it is one for the hash element of
\* the subscriber, and topic__node_add_sub has already set sub->node.  The nodes
\* made so far stay.
AddGivesUp(s, k) ==
    /\ MallocMayFail
    /\ WriteLock
    /\ s \notin subs[Path[s]]
    /\ IF k < Len(Path[s])
       THEN /\ SubSeq(Path[s], 1, k + 1) \notin nodes
            /\ node' = node
       ELSE node' = [node EXCEPT ![s] = Path[s]]
    /\ nodes' = nodes \cup PrefixesUpTo(Path[s], k)
    /\ UNCHANGED <<subs, findVars>>

\* It is the one for the structure itself, and the caller is told.  (It may also
\* be the node of a hash node whose token happens to hold NULL.)
AddNoMemory(s, k) ==
    /\ AddGivesUp(s, k)
    /\ ret' = "NO_MEMORY"
    /\ UNCHANGED corrupt

\* A child in the hash table and the subscriber's element need more than that.
\* topic__new_hash_node without a node frees a token that it has not set yet; a
\* failed mem__strdup of the token or of the key is measured by HASH_ADD_STR; and
\* uthash exits when it gets no table.
AddUndefined(s, k) ==
    /\ AddGivesUp(s, k)
    /\ k < Len(Path[s]) => Path[s][k + 1] \notin {SL, ML}
    /\ corrupt' = TRUE
    /\ UNCHANGED ret

\* topic__extract_token does not look at what mem__strdup returns, and strtok_r
\* follows it.  No lock is held yet.
ExtractUndefined(t) ==
    /\ MallocMayFail
    /\ Copied(t)
    /\ corrupt' = TRUE
    /\ UNCHANGED <<nodes, subs, node, ret, findVars>>

\* Faulty variants: topic__node_is_empty looks at the node's subscribers alone,
\* at its children alone; the loop stops after the leaf.
Pruned_ChildrenIgnored(p, subscribers) ==
    {q \in Prefixes(p) \ {<<>>} :
        \A n \in nodes : IsPrefix(q, n) /\ IsPrefix(n, p) => subscribers[n] = {}}

Pruned_SubscribersIgnored(p, subscribers) ==
    {q \in Prefixes(p) \ {<<>>} : \A n \in nodes : IsPrefix(q, n) => IsPrefix(n, p)}

Pruned_LeafOnly(p, subscribers) ==
    {q \in {p} : \A n \in nodes : IsPrefix(q, n) => n = p /\ subscribers[n] = {}}

\* topic__tree_prune_node climbs from the node at path p and frees every node
\* left with neither subscribers nor children: the prefixes of p below which
\* nothing remains but empty nodes of the same path.
Pruned(p, subscribers) ==
    {q \in Prefixes(p) \ {<<>>} :
        \A n \in nodes : IsPrefix(q, n) => IsPrefix(n, p) /\ subscribers[n] = {}}

\* topic__del_subscriber with sub->node unset, or with the subscriber not in the
\* node it points to: the call returns BPSP_OK and changes nothing.
DelAbsent(s) ==
    /\ \/ node[s] = NULL
       \/ /\ node[s] \notin {NULL, Dangling}
          /\ WriteLock
          /\ s \notin subs[node[s]]
    /\ ret' = "OK"
    /\ UNCHANGED <<nodes, subs, node, corrupt, findVars>>

\* It removes the subscriber and prunes.  Every pointer to a freed node dangles.
DelPresent(s) ==
    /\ WriteLock
    /\ node[s] \notin {NULL, Dangling}
    /\ s \in subs[node[s]]
    /\ subs' = [subs EXCEPT ![node[s]] = @ \ {s}]
    /\ LET freed == Pruned(node[s], subs')
       IN /\ nodes' = nodes \ freed
          /\ node' = [x \in Sub |-> CASE x = s -> NULL
                                      [] x # s /\ node[x] \in freed -> Dangling
                                      [] OTHER -> node[x]]
    /\ ret' = "OK"
    /\ UNCHANGED <<corrupt, findVars>>

\* The lookup in node->subs reads a freed node: undefined behaviour, at which
\* the modelled execution ends.
DelDangling(s) ==
    /\ node[s] = Dangling
    /\ WriteLock
    /\ corrupt' = TRUE
    /\ UNCHANGED <<nodes, subs, node, ret, findVars>>

-----------------------------------------------------------------------------
\* Faulty variant: the status of topic__extract_token is not looked at.
FindBegin_Unchecked(r, t) ==
    /\ pc[r] = "idle"
    /\ pc' = [pc EXCEPT ![r] = "walk"]
    /\ topic' = [topic EXCEPT ![r] = t]
    /\ pending' = [pending EXCEPT ![r] = {<<>>}]
    /\ copies' = [copies EXCEPT ![r] = [s \in Sub |-> 0]]
    /\ UNCHANGED treeVars

\* topic__tree_find_subscribers takes the read lock and starts at the root.
FindBegin(r, t) ==
    /\ pc[r] = "idle"
    /\ t \in ValidTopic
    /\ pc' = [pc EXCEPT ![r] = "walk"]
    /\ topic' = [topic EXCEPT ![r] = t]
    /\ pending' = [pending EXCEPT ![r] = {<<>>}]
    /\ copies' = [copies EXCEPT ![r] = [s \in Sub |-> 0]]
    /\ UNCHANGED treeVars

\* It returns no array for an invalid topic; the caller delivers to nobody.
FindInvalid(r, t) ==
    /\ pc[r] = "idle"
    /\ t \notin ValidTopic
    /\ pc' = [pc EXCEPT ![r] = "done"]
    /\ copies' = [copies EXCEPT ![r] = [s \in Sub |-> 0]]
    /\ UNCHANGED <<topic, pending, treeVars>>

\* hash__subscriber_copy_to_array
CopyToArray(array, set) == [s \in Sub |-> IF s \in set THEN array[s] + 1 ELSE array[s]]

\* Faulty variant: a node's own subscribers are taken for those of its ml_node.
MultiLevel_Own(q) == subs[q]

\* The subscribers of the ml_node of q, none if there is no such node.
MultiLevel(q) == IF Append(q, ML) \in nodes THEN subs[Append(q, ML)] ELSE {}

\* Where the walk goes from q on token tok: the child in the hash table, which
\* holds no wildcard tokens, and the sl_node.
Children(q, tok) ==
    ({Append(q, SL)} \cup (IF tok \in {SL, ML} THEN {} ELSE {Append(q, tok)})) \cap nodes

\* Faulty variant: the walk does not move on from the node.
FindDescend_Stuck(r, q) ==
    /\ pc[r] = "walk" /\ q \in pending[r]
    /\ Len(q) < Len(Toks[topic[r]])
    /\ copies' = [copies EXCEPT ![r] = CopyToArray([s \in Sub |-> 0], MultiLevel(q))]
    /\ pending' = [pending EXCEPT ![r] =
                      @ \cup Children(q, Toks[topic[r]][Len(q) + 1])]
    /\ UNCHANGED <<pc, topic, treeVars>>

\* topic__node_find_subscribers visits a node q with tokens left: it collects
\* the multi-level subscribers and goes on to the children.
FindDescend(r, q) ==
    /\ pc[r] = "walk" /\ q \in pending[r]
    /\ Len(q) < Len(Toks[topic[r]])
    /\ copies' = [copies EXCEPT ![r] = CopyToArray(@, MultiLevel(q))]
    /\ pending' = [pending EXCEPT ![r] =
                      (@ \ {q}) \cup Children(q, Toks[topic[r]][Len(q) + 1])]
    /\ UNCHANGED <<pc, topic, treeVars>>

\* It visits the node at the end of the topic and collects its subscribers.
FindCollect(r, q) ==
    /\ pc[r] = "walk" /\ q \in pending[r]
    /\ Len(q) = Len(Toks[topic[r]])
    /\ copies' = [copies EXCEPT ![r] = CopyToArray(@, subs[q])]
    /\ pending' = [pending EXCEPT ![r] = @ \ {q}]
    /\ UNCHANGED <<pc, topic, treeVars>>

\* utarray_new and utarray_push_back exit when there is no memory.
FindExits(r) ==
    /\ MallocMayFail
    /\ pc[r] = "walk"
    /\ corrupt' = TRUE
    /\ UNCHANGED <<nodes, subs, node, ret, findVars>>

\* The walk is over: the lock is released and the array returned.
FindEnd(r) ==
    /\ pc[r] = "walk" /\ pending[r] = {}
    /\ pc' = [pc EXCEPT ![r] = "done"]
    /\ topic' = [topic EXCEPT ![r] = NULL]
    /\ UNCHANGED <<pending, copies, treeVars>>

\* The caller has used the array and frees it.
FindReturn(r) ==
    /\ pc[r] = "done"
    /\ pc' = [pc EXCEPT ![r] = "idle"]
    /\ copies' = [copies EXCEPT ![r] = [s \in Sub |-> 0]]
    /\ UNCHANGED <<topic, pending, treeVars>>

-----------------------------------------------------------------------------
Add(s) ==
    \/ AddInvalid(s)
    \/ AddNew(s)
    \/ AddDup(s)
    \/ (s \in ValidSub /\ \E k \in 0..Len(Path[s]) : AddNoMemory(s, k) \/ AddUndefined(s, k))
    \/ ExtractUndefined(TopicOf[s])

Del(s) ==
    \/ DelAbsent(s)
    \/ DelPresent(s)
    \/ DelDangling(s)
    \/ (node[s] # NULL /\ ExtractUndefined(TopicOf[s]))

Walk(r) ==
    \/ \E q \in Paths : FindDescend(r, q) \/ FindCollect(r, q)
    \/ FindEnd(r)

Find(r) ==
    \/ \E t \in PubTopic : FindBegin(r, t) \/ FindInvalid(r, t)
    \/ (pc[r] = "idle" /\ \E t \in PubTopic : ExtractUndefined(t))
    \/ Walk(r)
    \/ FindExits(r)
    \/ FindReturn(r)

Next ==
    /\ ~corrupt
    /\ \/ \E s \in Sub : Add(s) \/ Del(s)
       \/ \E r \in Reader : Find(r)

\* A thread inside a find takes no further lock and so is never blocked.
Spec == Init /\ [][Next]_vars /\ \A r \in Reader : WF_vars(~corrupt /\ Walk(r))

-----------------------------------------------------------------------------
\* Nothing is claimed beyond the failure of an allocation that the code does not
\* handle: there corrupt is set and the modelled execution ends.
\*
\* The tree hangs together: the root is there and the parent of every live node
\* is live, so that no subtree is lost when topic__tree_prune_node frees nodes
\* above it, nor when topic__add_subscriber gives up half way and says so.
ParentClosed == <<>> \in nodes /\ \A q \in nodes : Prefixes(q) \subseteq nodes

\* A subscriber is only ever found in the node of its own topic, that node is
\* live, and sub->node points to it: what topic__del_subscriber, which looks in
\* sub->node and nowhere else, needs in order to find it again.
Placed ==
    \A q \in Paths : \A s \in subs[q] :
        q \in nodes /\ s \in ValidSub /\ q = Path[s] /\ node[s] = q

\* As long as memory lasts, unsubscribing gives back every node: each node below
\* the root has a subscriber in it or under it.
NoGarbage ==
    MallocMayFail \/ \A q \in nodes \ {<<>>} :
                        \E s \in Sub : s \in ValidSub /\ IsPrefix(q, Path[s]) /\ s \in subs[Path[s]]

\* As long as memory lasts, sub->node is unset or points to a live node that
\* holds the subscriber, and no call dereferences a freed node.
NoDanglingNode ==
    MallocMayFail \/ /\ ~corrupt
                     /\ \A s \in Sub : node[s] # NULL =>
                            node[s] # Dangling /\ node[s] \in nodes /\ s \in subs[node[s]]

\* The array a find returns holds one copy of every registered subscriber whose
\* topic matches by the reference definition, and nothing else, whatever other
\* finds and writers do meanwhile.
FindExact ==
    \A r \in Reader : pc[r] = "walk" /\ pending[r] = {} =>
        \A s \in Sub :
            copies[r][s] = IF /\ s \in ValidSub /\ s \in subs[Path[s]]
                              /\ Matches(Path[s], Toks[topic[r]])
                           THEN 1 ELSE 0

\* Every find ends, whatever is left of adds that failed half way: the walk over
\* the tree does not go on forever, unless the process meets undefined behaviour.
FindTerminates == \A r \in Reader : pc[r] = "walk" ~> pc[r] = "done" \/ corrupt

\* The tree, its partial walks and its node pointers implement a plain set of
\* subscriptions with atomic finds, up to undefined behaviour: an add that reports
\* a failure has registered nothing and one that reports success has.
Registered == {s \in Sub : s \in ValidSub /\ s \in subs[Path[s]]}

Answer == [r \in Reader |-> IF pc[r] = "done" THEN <<copies[r]>> ELSE <<>>]

Abstract == INSTANCE Subscriptions WITH registered <- Registered, answer <- Answer

ImplementsSubscriptions == Abstract!Spec
=============================================================================
