--------------------------- MODULE NullTruncation ---------------------------
(***************************************************************************)
(* The end of RawHgChangeset::from_metadata (src/src/store.rs): undoing    *)
(* handle_changeset_conflict.  When two Mercurial changesets would map to  *)
(* the same git commit, NUL bytes are appended to the commit message, so   *)
(* the rebuilt changeset text may carry more trailing NULs than the real   *)
(* one.  While the text ends with NUL, the loop hashes the parents' hg     *)
(* ids and the text, stops when that is the changeset id, and otherwise    *)
(* pops the NUL.                                                           *)
(*                                                                         *)
(* A changeset text is its non-NUL content, abstracted to one byte "x",    *)
(* followed by its trailing NULs.  SHA-1 is taken to be collision-free:    *)
(* a node is the tuple it hashes.  Hg ids are numbers, the null id 0 being *)
(* the smallest, as all-zero bytes are.                                    *)
(***************************************************************************)
EXTENDS Naturals, Sequences, SequencesExt

CONSTANTS
    ParentIds,      \* hg ids of possible parents (> 0)
    ParentCounts,   \* how many parents the commit may have (0, 1, 2)
    MaxTrueNuls,    \* most NULs the real changeset text ends with
    MaxExtraNuls    \* most NULs handle_changeset_conflict may have added

ASSUME /\ ParentIds \subseteq Nat \ {0}
       /\ ParentCounts \subseteq 0..2
       /\ MaxTrueNuls \in Nat /\ MaxExtraNuls \in Nat

NullId == 0
NUL == "NUL"
Nuls(n) == [i \in 1..n |-> NUL]

Sort2(a, b) == IF a <= b THEN <<a, b>> ELSE <<b, a>>

(* Mercurial's node of a changeset (revlog hash): the two parents, padded *)
(* with the null id, sorted, then the text.                               *)
HgNode(ps, text) ==
    LET padded == ps \o [i \in 1..(2 - Len(ps)) |-> NullId]
    IN Sort2(padded[1], padded[2]) \o <<text>>

(* The hash from_metadata computes: parents.sort(), then the null id      *)
(* chained after them, take(2), then the text.                            *)
SortSeq2(ps) == IF Len(ps) = 2 THEN Sort2(ps[1], ps[2]) ELSE ps
CodeNode(ps, text) ==
    LET padded == SortSeq2(ps) \o [i \in 1..(2 - Len(ps)) |-> NullId]
    IN <<padded[1], padded[2], text>>

VARIABLES
    parents,    \* hg ids of the commit's parents, in git parent order
    truth,      \* the real changeset text
    node,       \* metadata.changeset_id()
    changeset,  \* the text being truncated
    pc          \* "loop", "done"

vars == <<parents, truth, node, changeset, pc>>

ParentSeqs ==
    {ps \in UNION {[1..n -> ParentIds] : n \in ParentCounts} :
        Len(ps) = 2 => ps[1] # ps[2]}

-----------------------------------------------------------------------------
(* A changeset with k trailing NULs, rebuilt from a git commit whose      *)
(* message got j more.                                                    *)
Init ==
    /\ parents \in ParentSeqs
    /\ \E k \in 0..MaxTrueNuls, j \in 0..MaxExtraNuls :
         /\ truth = <<"x">> \o Nuls(k)
         /\ changeset = truth \o Nuls(j)
    /\ node = HgNode(parents, truth)
    /\ pc = "loop"

(* Variant of CheckTrailingNul that pops the NUL before comparing.        *)
CheckTrailingNulAfterPop ==
    /\ pc = "loop" /\ Last(changeset) = NUL
    /\ changeset' = Front(changeset)
    /\ pc' = IF CodeNode(parents, Front(changeset)) = node THEN "done" ELSE "loop"
    /\ UNCHANGED <<parents, truth, node>>

(* Variant of CheckTrailingNul that drops the first byte instead of the  *)
(* last (remove(0) for pop()).                                            *)
CheckTrailingNulFromFront ==
    /\ pc = "loop" /\ Last(changeset) = NUL
    /\ IF CodeNode(parents, changeset) = node
         THEN pc' = "done" /\ UNCHANGED changeset
         ELSE changeset' = Tail(changeset) /\ UNCHANGED pc
    /\ UNCHANGED <<parents, truth, node>>

(* One turn of  while changeset[changeset.len() - 1] == b'\0'.           *)
CheckTrailingNul ==
    /\ pc = "loop" /\ Last(changeset) = NUL
    /\ IF CodeNode(parents, changeset) = node
         THEN pc' = "done" /\ UNCHANGED changeset
         ELSE changeset' = Front(changeset) /\ UNCHANGED pc
    /\ UNCHANGED <<parents, truth, node>>

(* The text no longer ends with NUL: the loop is over.                    *)
NoTrailingNul ==
    /\ pc = "loop" /\ Last(changeset) # NUL
    /\ pc' = "done"
    /\ UNCHANGED <<parents, truth, node, changeset>>

Finished == pc = "done" /\ UNCHANGED vars

Next == CheckTrailingNul \/ NoTrailingNul \/ Finished

Spec == Init /\ [][Next]_vars

-----------------------------------------------------------------------------
TypeOK ==
    /\ parents \in ParentSeqs
    /\ truth \in Seq({"x", NUL})
    \* changeset[changeset.len() - 1] needs a non-empty text
    /\ changeset \in Seq({"x", NUL}) \ {<<>>}
    /\ pc \in {"loop", "done"}

(* Spec 8.7 and S3: however many NULs the git commit message carries in   *)
(* excess, the rebuilt changeset is exactly the real one, trailing NULs   *)
(* of its own included.                                                   *)
ReconstructsTruth == pc = "done" => changeset = truth

=============================================================================
