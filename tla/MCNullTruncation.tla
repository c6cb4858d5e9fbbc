------------------------- MODULE MCNullTruncation -------------------------
(* Model-checking instances of NullTruncation.                             *)
EXTENDS NullTruncation

\* Three parent ids give both orders of a merge's parents, and parents
\* above and below one another.
MCParentIds == {1, 2, 3}
\* Up to three NULs of the changeset's own and three added by
\* handle_changeset_conflict: the S3 scenario and more.
MCMaxTrueNuls == 3
MCMaxExtraNuls == 3
\* Root changesets and merges ...
MCRootsAndMerges == {0, 2}
\* ... and changesets with one parent.
MCOneParent == {1}
=============================================================================
