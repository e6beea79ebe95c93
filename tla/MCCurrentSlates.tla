--------------------------- MODULE MCCurrentSlates ---------------------------
EXTENDS CurrentSlates, TLC

W1 == [week |-> "midweek", number |-> 1]
W2 == [week |-> "midweek", number |-> 2]

MCContests == {W1, W2}
MCReal == (W1 :> 1) @@ (W2 :> 3)
MCCierres == {1, 2}

\* The older contest was promoted with fabricated kickoffs, before compositions were hashed.
MCSlates == W1 :> [is_archived |-> FALSE, withdrawn |-> FALSE, closes |-> 1, fixtures |-> (W1 :> 2),
                   created |-> 0, hash |-> NoHash, promoted |-> TRUE, predicted |-> {}, ticket |-> NoTicket]
MCRows == [c \in MCContests |-> [k \in Kickoffs |-> IF c = W1 /\ k = 2 THEN "marked" ELSE "none"]]
MCGuides == W2 :> [closes |-> 2, low |-> FALSE, seen |-> 0]
\* A context file that predates the flag.
MCFile == W1 :> [closes |-> 1, canonical |-> TRUE, sheet |-> (W1 :> [kickoff |-> 2, told |-> "silent"])]
\* A client states the older contest as it is, with the later cierre.
MCPosts == {[contest |-> W1, closes |-> 2, canonical |-> TRUE,
             sheet |-> (W1 :> [kickoff |-> 2, told |-> "silent"])]}
==============================================================================
