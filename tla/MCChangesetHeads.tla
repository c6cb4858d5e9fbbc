------------------------- MODULE MCChangesetHeads -------------------------
(* Model-checking instance of ChangesetHeads.                              *)
EXTENDS ChangesetHeads

\* Four changesets give merges, a parent with two children (a branch
\* point), a child on another branch than its parent, and a merge of two
\* heads that are children of one branch point.
MCN == 4
MCBranches == {"default", "stable"}
\* Enough Adds to store every changeset, or to store some of them again
\* after a Reset has rolled them back.
MCMaxAdds == 4
=============================================================================
