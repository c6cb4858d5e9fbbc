--------------------------- MODULE ChangesetHeads ---------------------------
(***************************************************************************)
(* The process-wide set of Mercurial branch heads of src/src/store.rs:     *)
(* CHANGESET_HEADS, a Mutex<ChangesetHeads> mapping each head to its       *)
(* branch and an insertion ordinal ("generation").  Every entry point      *)
(* holds the mutex for its whole duration, so each is one atomic step.     *)
(*                                                                         *)
(*   add_changeset_head(cs, oid)  with a metadata oid: AddHead(cs)         *)
(*                                with the null oid:  RemoveHead(cs)      *)
(*   changeset_heads()            Dump (no state change)                   *)
(*   store_changesets_metadata()  Checkpoint                               *)
(*   reset_changeset_heads()      Reset (ChangesetHeads::new())            *)
(*                                                                         *)
(* The commit graph is fixed per behaviour: changesets are 1..N, a         *)
(* changeset's parents are earlier changesets (Mercurial numbers them      *)
(* topologically), and its branch comes from the "branch" extra of its     *)
(* metadata.  "stored" is the set of changesets whose metadata is in the   *)
(* store: add_changeset_head unwrap()s the metadata of the changeset and   *)
(* of each parent, so a changeset is added once, after its parents.        *)
(***************************************************************************)
EXTENDS Naturals, Sequences, SequencesExt, FiniteSets

CONSTANTS
    N,          \* number of changesets in the graph
    Branches,   \* branch names
    MaxAdds,    \* bound on the number of Add steps in a behaviour
    NoRef       \* refs/cinnabar/metadata does not exist

ASSUME N \in Nat \ {0} /\ Branches # {} /\ MaxAdds \in Nat

Changesets == 1..N

VARIABLES
    parents,         \* parents[c]: parents of changeset c (graph, fixed)
    branch,          \* branch[c]: branch of changeset c (graph, fixed)
    stored,          \* changesets whose metadata has been stored
    heads,           \* ChangesetHeads.heads: cs -> [branch, gen]
    generation,      \* ChangesetHeads.generation
    persisted,       \* body of the commit at refs/cinnabar/metadata^1, or NoRef
    persistedStored, \* changesets stored when that commit was written
    lastAdd,         \* history: lastAdd[c] is the step count of c's last Add
    clock,           \* history: number of Add steps so far
    removed,         \* history: changesets add_changeset_head(cs, null) removed
    persistedRemoved \* history: removed when the checkpoint was written

graph == <<parents, branch>>
vars == <<parents, branch, stored, heads, generation, persisted,
          persistedStored, lastAdd, clock, removed, persistedRemoved>>

Entry(b, g) == [branch |-> b, gen |-> g]

(* The changesets of the head set in ascending generation, with their     *)
(* branch: the lines of changeset_heads() and of the checkpoint body.      *)
(* Equal generations are ordered by changeset id, as sorted() on           *)
(* (generation, id, branch) tuples does.                                   *)
Dump ==
    LET Before(a, b) == \/ heads[a].gen < heads[b].gen
                        \/ heads[a].gen = heads[b].gen /\ a < b
        order == SetToSortSeq(DOMAIN heads, Before)
    IN [i \in 1..Len(order) |-> [cs |-> order[i], branch |-> heads[order[i]].branch]]

-----------------------------------------------------------------------------
Init ==
    /\ parents \in [Changesets -> SUBSET Changesets]
    /\ \A c \in Changesets : \A p \in parents[c] : p < c
    /\ \A c \in Changesets : Cardinality(parents[c]) <= 2
    /\ branch \in [Changesets -> Branches]
    /\ stored = {}
    /\ heads = <<>>
    /\ generation = 0
    /\ persisted = NoRef
    /\ persistedStored = {}
    /\ lastAdd = [c \in Changesets |-> 0]
    /\ clock = 0
    /\ removed = {} /\ persistedRemoved = {}

(* Variant of AddHead that only looks at the first parent of a merge.     *)
AddHeadFirstParentOnly(cs) ==
    /\ clock < MaxAdds
    /\ cs \notin stored
    /\ parents[cs] \subseteq stored
    /\ stored' = stored \cup {cs}
    /\ LET first == {p \in parents[cs] : \A q \in parents[cs] : p <= q}
           dropped == {p \in first \cap DOMAIN heads : branch[p] = branch[cs]}
           kept == DOMAIN heads \ dropped
       IN heads' = [c \in kept \cup {cs} |->
                      IF c = cs THEN Entry(branch[cs], generation) ELSE heads[c]]
    /\ generation' = generation + 1
    /\ lastAdd' = [lastAdd EXCEPT ![cs] = clock + 1]
    /\ clock' = clock + 1
    /\ UNCHANGED <<graph, persisted, persistedStored, removed, persistedRemoved>>

(* Variant of AddHead whose parent loop drops every parent that is a head, *)
(* whatever its branch.                                                   *)
AddHeadAnyBranch(cs) ==
    /\ clock < MaxAdds
    /\ cs \notin stored
    /\ parents[cs] \subseteq stored
    /\ stored' = stored \cup {cs}
    /\ LET kept == DOMAIN heads \ parents[cs]
       IN heads' = [c \in kept \cup {cs} |->
                      IF c = cs THEN Entry(branch[cs], generation) ELSE heads[c]]
    /\ generation' = generation + 1
    /\ lastAdd' = [lastAdd EXCEPT ![cs] = clock + 1]
    /\ clock' = clock + 1
    /\ UNCHANGED <<graph, persisted, persistedStored, removed, persistedRemoved>>

(* Variant of AddHead that bumps the generation before reading it.       *)
AddHeadIncrementFirst(cs) ==
    /\ clock < MaxAdds
    /\ cs \notin stored
    /\ parents[cs] \subseteq stored
    /\ stored' = stored \cup {cs}
    /\ LET dropped == {p \in parents[cs] \cap DOMAIN heads : branch[p] = branch[cs]}
           kept == DOMAIN heads \ dropped
       IN heads' = [c \in kept \cup {cs} |->
                      IF c = cs THEN Entry(branch[cs], generation + 1) ELSE heads[c]]
    /\ generation' = generation + 1
    /\ lastAdd' = [lastAdd EXCEPT ![cs] = clock + 1]
    /\ clock' = clock + 1
    /\ UNCHANGED <<graph, persisted, persistedStored, removed, persistedRemoved>>

(* add_changeset_head(cs, oid) with oid the changeset's metadata: every   *)
(* parent on the same branch that is a head stops being one; cs becomes a *)
(* head of its branch with the next generation.                            *)
AddHead(cs) ==
    /\ clock < MaxAdds
    /\ cs \notin stored
    /\ parents[cs] \subseteq stored
    /\ stored' = stored \cup {cs}
    /\ LET dropped == {p \in parents[cs] \cap DOMAIN heads : branch[p] = branch[cs]}
           kept == DOMAIN heads \ dropped
       IN heads' = [c \in kept \cup {cs} |->
                      IF c = cs THEN Entry(branch[cs], generation) ELSE heads[c]]
    /\ generation' = generation + 1
    /\ lastAdd' = [lastAdd EXCEPT ![cs] = clock + 1]
    /\ clock' = clock + 1
    /\ UNCHANGED <<graph, persisted, persistedStored, removed, persistedRemoved>>

(* add_changeset_head(cs, null): cs is no longer a head.                  *)
RemoveHead(cs) ==
    /\ cs \in DOMAIN heads
    /\ heads' = [c \in DOMAIN heads \ {cs} |-> heads[c]]
    /\ removed' = removed \cup {cs}
    /\ UNCHANGED <<graph, stored, generation, persisted, persistedStored,
                   lastAdd, clock, persistedRemoved>>

(* store_changesets_metadata(): a commit whose parents are the heads and  *)
(* whose body has one "cs branch" line per head, both in generation       *)
(* order; it becomes the first parent of refs/cinnabar/metadata together  *)
(* with the notes of the stored changesets.                               *)
Checkpoint ==
    /\ persisted' = Dump
    /\ persistedStored' = stored
    /\ persistedRemoved' = removed
    /\ UNCHANGED <<graph, stored, heads, generation, lastAdd, clock, removed>>

(* Variant of Reset that restarts the generation at 0 instead of at the   *)
(* number of reloaded heads.                                              *)
ResetFromZero ==
    /\ IF persisted = NoRef
         THEN heads' = <<>>
         ELSE heads' = [c \in {persisted[i].cs : i \in DOMAIN persisted} |->
                          LET i == CHOOSE j \in DOMAIN persisted : persisted[j].cs = c
                          IN Entry(persisted[i].branch, i - 1)]
    /\ generation' = 0
    /\ stored' = persistedStored
    /\ removed' = persistedRemoved
    /\ UNCHANGED <<graph, persisted, persistedStored, lastAdd, clock,
                   persistedRemoved>>

(* reset_changeset_heads(): ChangesetHeads::new() again.  The heads are   *)
(* the body lines of refs/cinnabar/metadata^1, the n-th line getting      *)
(* generation n, and the next generation is their number; without the    *)
(* ref the set is empty.  The store's notes are reloaded with it.         *)
Reset ==
    /\ IF persisted = NoRef
         THEN /\ heads' = <<>>
              /\ generation' = 0
         ELSE /\ heads' = [c \in {persisted[i].cs : i \in DOMAIN persisted} |->
                             LET i == CHOOSE j \in DOMAIN persisted : persisted[j].cs = c
                             IN Entry(persisted[i].branch, i - 1)]
              /\ generation' = Len(persisted)
    /\ stored' = persistedStored
    /\ removed' = persistedRemoved
    /\ UNCHANGED <<graph, persisted, persistedStored, lastAdd, clock,
                   persistedRemoved>>

Next ==
    \/ \E cs \in Changesets : AddHead(cs) \/ RemoveHead(cs)
    \/ Checkpoint
    \/ Reset

Spec == Init /\ [][Next]_vars

-----------------------------------------------------------------------------
TypeOK ==
    /\ \A c \in Changesets : parents[c] \subseteq 1..(c - 1)
    /\ branch \in [Changesets -> Branches]
    /\ stored \subseteq Changesets
    /\ DOMAIN heads \subseteq Changesets
    /\ generation \in Nat
    /\ \A c \in DOMAIN heads : heads[c] \in [branch : Branches, gen : 0..(generation - 1)]
    /\ persisted = NoRef \/ persisted \in Seq([cs : Changesets, branch : Branches])
    /\ persistedStored \subseteq Changesets
    /\ lastAdd \in [Changesets -> 0..MaxAdds] /\ clock \in 0..MaxAdds
    /\ removed \subseteq Changesets /\ persistedRemoved \subseteq Changesets

(* Every entry of the head set is a head of its branch: no stored         *)
(* changeset on the same branch has it as a parent.  This is about the    *)
(* parent loop of add_changeset_head, across checkpoints and resets.      *)
HeadsAreBranchHeads ==
    \A h \in DOMAIN heads :
        /\ heads[h].branch = branch[h]
        /\ ~\E c \in stored : h \in parents[c] /\ branch[c] = branch[h]

(* The head set is ordered by insertion (spec 4.G, 9): of two heads, the  *)
(* one added last has the larger generation, also after a checkpoint and  *)
(* a reset, so changeset_heads() and the checkpoint list heads in the     *)
(* order they were added and never by id.                                 *)
HeadsOrderedByInsertion ==
    \A h1, h2 \in DOMAIN heads :
        h1 # h2 => ((heads[h1].gen < heads[h2].gen) = (lastAdd[h1] < lastAdd[h2]))


(* No head is lost: every stored changeset that no stored changeset of    *)
(* its branch has as a parent is in the head set, unless the caller       *)
(* removed it with add_changeset_head(cs, null).  With HeadsAreBranchHeads *)
(* the head set is exactly the branch heads of what is stored.  This is   *)
(* about the branch comparison in add_changeset_head's parent loop and    *)
(* about a reset reloading the heads of the checkpoint.                   *)
HeadsComplete ==
    \A c \in stored \ removed :
        (~\E d \in stored : c \in parents[d] /\ branch[d] = branch[c])
            => c \in DOMAIN heads

=============================================================================
