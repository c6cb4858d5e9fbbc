------------------------- MODULE MCChangesetMetadata -------------------------
EXTENDS ChangesetMetadata

\* "M1" stands for the 40 hex digits of a manifest id; "Z" for a git
\* timezone ("+0000").  "o" is an hg utcoffset git can
\* express, "r" one it rounds to the same timezone.
MCManifestIds == {"M1"}
\* Roots and merges of parents 1 and 2, in both orders (one-parent
\* changesets ending in NUL are finding null_truncation_one_parent).
MCParentIds == {1, 2}
MCParentCounts == {0, 2}
\* Up to two conflict NULs: one more than the text's own, and two.
MCMaxExtraNuls == 2
MCGitTz == [x \in {"o", "r"} |-> "Z"]
MCHgOffset == [x \in {"Z"} |-> "o"]

MCByteOrder == <<NUL, LF, SP, "%", ",", "7", ":", "<", ">", "C", "Z",
                 "a", "b", "e", "f", "g", "j", "k", "o", "r", "v", "w", "x">>
MCPercentHex == (NUL :> "00") @@ (LF :> "0A") @@ (SP :> "20") @@ ("%" :> "25")
                @@ ("," :> "2C") @@ (":" :> "3A") @@ ("<" :> "3C") @@ (">" :> "3E")
MCAlnum == ToSet(MCByteOrder) \ DOMAIN MCPercentHex
MCMaxLen == 40

\* A changeset text in Mercurial's layout (spec 3).
Layout(extra, files, off, body) ==
    <<"M1", LF, "a", "<", "e", ">", LF, "7", SP>> \o off
    \o (IF extra = <<>> THEN <<>> ELSE <<SP>> \o extra)
    \o FlattenSeq([i \in 1..Len(files) |-> <<LF>> \o files[i]])
    \o <<LF, LF>> \o body

\* Extras: none; one; two out of key order; a duplicated key; committer as
\* an authorship ("b>" ends with '>'), as an hg committer line "b 7 o", and
\* as one whose timezone git cannot express.
MCExtras == {<<>>, <<"k", ":", "v">>,
             <<"k", ":", "v", NUL, "j", ":", "w">>,
             <<"k", ":", "v", NUL, "k", ":", "w">>,
             <<"C", ":", "b", ">">>,
             <<"C", ":", "b", SP, "7", SP, "o">>,
             <<"j", ":", "w", NUL, "C", ":", "b", SP, "7", SP, "r">>}

\* Bodies: a message, and one ending with a NUL of its own.
MCRaws(FileLists) ==
    {Layout(e, f, <<o>>, b) : e \in MCExtras, f \in FileLists, o \in {"o", "r"},
                              b \in {<<"x">>, <<"x", NUL>>}}

\* At most one file per changeset.
MCRawsOneFile == MCRaws({<<>>, <<"f">>})
\* Two files, in order and out of order.
MCRawsTwoFiles == MCRaws({<<"f", "g">>, <<"g", "f">>})

=============================================================================
