---------------------------- MODULE MCEngagement ----------------------------
(***************************************************************************)
(* Engagement for TLC, with the statements of the repository's comments    *)
(* that the code does not keep.                                            *)
(***************************************************************************)
EXTENDS Engagement, FiniteSetsExt, TLC

Symmetry == Permutations(Workers)

\* The rows of likes or of comments that a post has.
RowsOf(k, p) == MapThenSumSet(LAMBDA u : rows[<<k, u, p>>], Ids)

\* A post shows more likes or comments than it has rows only after the cascade
\* of User::destroy has taken a row from it (the author was deleted or, since
\* likes.post_id is declared to reference users, the user with the post's
\* number was).  Lost updates, deaths and overlapping saves make the counters
\* too low, never too high, and the rows still to be counted are there.
PhantomsAreCascades ==
    \A k \in Kinds, p \in IdsOf(posts) :
        <<"cascade", k, p>> \notin mishaps =>
            count[<<k, p>>] + Cardinality(Pending(k, p)) <= RowsOf(k, p)

\* Like.php says of finishSave "get post and make like ++", and Comment.php
\* the same of comments: once every save has run to its end, with no process
\* dying, no post missing and no user deleted, the counter of a post is the
\* number of its rows.
CountsMatchRows ==
    LET Finished(k, p) ==
            /\ Pending(k, p) = {}
            /\ <<"death", k, p>> \notin mishaps
            /\ <<"nopost", k, p>> \notin mishaps
            /\ users = 1..(nextUser - 1)
    IN  \A k \in Kinds, p \in IdsOf(posts) :
            Finished(k, p) =>
                count[<<k, p>>] = RowsOf(k, p)

=============================================================================
