-------------------------- MODULE ChangesetMetadata --------------------------
(***************************************************************************)
(* The changeset round trip of src/src/store.rs: a raw Mercurial changeset *)
(* becomes a git commit (prepare_changeset_commit), its metadata is        *)
(* generated (GeneratedGitChangesetMetadata::generate, with a patch when   *)
(* the rebuilt text differs), written as a blob, read back                 *)
(* (RawGitChangesetMetadata::parse) and the changeset rebuilt              *)
(* (RawHgChangeset::from_metadata, whose trailing-NUL loop is that of      *)
(* module NullTruncation, instantiated here).                              *)
(*                                                                         *)
(* Byte strings are sequences of tokens.  A token is one byte, except      *)
(* where a comment says it stands for a fixed run of bytes (an id, a       *)
(* number, a percent escape).  Optional values are sets: {} is None and    *)
(* {x} is Some(x).                                                         *)
(***************************************************************************)
EXTENDS Naturals, Sequences, SequencesExt, TLC

CONSTANTS
    Raws,         \* the raw changesets that are imported
    ByteOrder,    \* the byte tokens in increasing byte value
    Alnum,        \* the tokens percent_encode leaves alone (NON_ALPHANUMERIC)
    PercentHex,   \* [non-alphanumeric token -> token of its two hex digits]
    ManifestIds,  \* tokens that parse as a manifest id (40 hex digits)
    ParentIds,    \* hg ids of the changesets' parents (numbers > 0)
    ParentCounts, \* how many parents a changeset may have
    MaxExtraNuls, \* most NULs handle_changeset_conflict appends
    GitTz,        \* [hg utcoffset token -> git timezone token]
    HgOffset,     \* [git timezone token -> hg utcoffset token]
    MaxLen        \* longest text, for parsing decimal offsets

NUL == "\\0"
LF == "\n"
SP == " "
CommitterKey == <<"C">>   \* b"committer"

None == {}
Some(x) == {x}
Get(o) == CHOOSE x \in o : TRUE

(* Node ids as NullTruncation defines them: Mercurial's (HgNode) and the  *)
(* one from_metadata hashes (CodeNode).  Its variables are not used.       *)
Node == INSTANCE NullTruncation WITH
    MaxTrueNuls <- 0, parents <- <<>>, truth <- <<>>, node <- <<>>,
    changeset <- <<>>, pc <- "done"

\* The changeset ids: Mercurial's node of every changeset imported.
NodeIds == {Node!HgNode(ps, r) : ps \in Node!ParentSeqs, r \in Raws}

\* An id as the one token of its 40 hex digits ("{}" of HgChangesetId).
IdToken(n) == ToString(n)

-----------------------------------------------------------------------------
(* Byte-string helpers: split / splitn / splitn_exact of slices, and the  *)
(* byte-wise order of Vec<&[u8]>::sort and of BTreeMap keys.              *)
Ascending(P) ==
    [i \in 1..Cardinality(P) |-> CHOOSE x \in P : Cardinality({y \in P : y < x}) = i - 1]
Cut(s, P) ==
    LET pts == Ascending(P \cup {0, Len(s) + 1})
    IN [i \in 1..Len(pts) - 1 |-> SubSeq(s, pts[i] + 1, pts[i + 1] - 1)]
Positions(s, b) == {i \in 1..Len(s) : s[i] = b}
Split(s, b) == Cut(s, Positions(s, b))
SplitN(s, b, n) ==
    Cut(s, {i \in Positions(s, b) :
               Cardinality({j \in Positions(s, b) : j <= i}) < n})
SplitNExact(s, b, n) ==
    IF Len(SplitN(s, b, n)) = n THEN Some(SplitN(s, b, n)) ELSE None
Join(parts, sep) ==
    FlattenSeq([i \in 1..Len(parts) |->
                   IF i = 1 THEN parts[i] ELSE <<sep>> \o parts[i]])

Rank(t) == CHOOSE i \in 1..Len(ByteOrder) : ByteOrder[i] = t
RECURSIVE LexLess(_, _)
LexLess(s, t) ==
    IF t = <<>> THEN FALSE
    ELSE IF s = <<>> THEN TRUE
    ELSE IF Head(s) # Head(t) THEN Rank(Head(s)) < Rank(Head(t))
    ELSE LexLess(Tail(s), Tail(t))
SortBytes(S) ==
    [i \in 1..Cardinality(S) |->
        CHOOSE x \in S : Cardinality({y \in S : LexLess(y, x)}) = i - 1]

(* usize::from_bytes of a decimal written by format!("{}"): one token.    *)
FromDecimal(s) ==
    {n \in 0..MaxLen : Len(s) = 1 /\ s[1] = ToString(n)}

-----------------------------------------------------------------------------
(* ChangesetExtra: a BTreeMap from key to value, as a function.           *)
ExtraSet(m, k, v) == [x \in DOMAIN m \cup {k} |-> IF x = k THEN v ELSE m[x]]

ExtraFrom(buf) ==
    IF buf = <<>> THEN <<>>
    ELSE FoldLeft(LAMBDA m, a : LET kv == Get(SplitNExact(a, ":", 2))
                                IN ExtraSet(m, kv[1], kv[2]),
                  <<>>, Split(buf, NUL))

ExtraDump(m) ==
    LET ks == SortBytes(DOMAIN m)
    IN Join([i \in 1..Len(ks) |-> ks[i] \o <<":">> \o m[ks[i]]], NUL)

-----------------------------------------------------------------------------
(* GitChangesetPatch: "start,end,data" parts joined by NUL, data          *)
(* percent-encoded; PatchInfo records [start, end, data].                 *)
PercentEncode(s) ==
    FlattenSeq([i \in 1..Len(s) |->
                   IF s[i] \in Alnum THEN <<s[i]>> ELSE <<"%", PercentHex[s[i]]>>])

RECURSIVE PercentDecode(_)
PercentDecode(s) ==
    IF s = <<>> THEN <<>>
    ELSE IF Len(s) >= 2 /\ s[1] = "%" /\ \E b \in DOMAIN PercentHex : PercentHex[b] = s[2]
    THEN <<CHOOSE b \in DOMAIN PercentHex : PercentHex[b] = s[2]>>
         \o PercentDecode(Tail(Tail(s)))
    ELSE <<Head(s)>> \o PercentDecode(Tail(s))

PatchPart(part) ==
    IF SplitNExact(part, ",", 3) = None THEN None
    ELSE LET f == Get(SplitNExact(part, ",", 3)) IN
         IF FromDecimal(f[1]) = None \/ FromDecimal(f[2]) = None THEN None
         ELSE Some([start |-> Get(FromDecimal(f[1])),
                    end |-> Get(FromDecimal(f[2])), data |-> PercentDecode(f[3])])

PatchIter(p) ==
    LET parts == Split(p, NUL)
    IN IF \E i \in 1..Len(parts) : PatchPart(parts[i]) = None THEN None
       ELSE Some([i \in 1..Len(parts) |-> Get(PatchPart(parts[i]))])

\* Variant of FromPatchInfo that writes the data without percent-encoding.
FromPatchInfoUnencoded(hunks) ==
    Join([i \in 1..Len(hunks) |->
             <<ToString(hunks[i].start), ",", ToString(hunks[i].end), ",">>
             \o hunks[i].data], NUL)

FromPatchInfo(hunks) ==
    Join([i \in 1..Len(hunks) |->
             <<ToString(hunks[i].start), ",", ToString(hunks[i].end), ",">>
             \o PercentEncode(hunks[i].data)], NUL)

(* xdiff's apply (outside src/): hunks hold offsets into the original;    *)
(* copy up to each start, emit the data, continue from its end.           *)
Apply(hunks, s) ==
    LET r == FoldLeft(LAMBDA acc, h :
                 [out |-> acc.out \o SubSeq(s, acc.cur + 1, h.start) \o h.data,
                  cur |-> h.end], [out |-> <<>>, cur |-> 0], hunks)
    IN r.out \o SubSeq(s, r.cur + 1, Len(s))

(* xdiff's textdiff(t, s) (outside src/): a patch p with apply(p, s) = t; *)
(* here one hunk replacing what lies between the common prefix and suffix. *)
TextDiff(t, s) ==
    LET pre == CHOOSE k \in 0..Len(s) :
                   /\ k <= Len(t) /\ SubSeq(s, 1, k) = SubSeq(t, 1, k)
                   /\ ~(k < Len(s) /\ k < Len(t) /\ s[k + 1] = t[k + 1])
        suf == CHOOSE k \in 0..(Len(s) - pre) :
                   /\ k <= Len(t) - pre
                   /\ SubSeq(s, Len(s) - k + 1, Len(s)) = SubSeq(t, Len(t) - k + 1, Len(t))
                   /\ ~(k < Len(s) - pre /\ k < Len(t) - pre
                        /\ s[Len(s) - k] = t[Len(t) - k])
    IN <<[start |-> pre, end |-> Len(s) - suf,
          data |-> SubSeq(t, pre + 1, Len(t) - suf)]>>

-----------------------------------------------------------------------------
(* RawHgChangeset::parse: header and body at the first "\n\n"; the header *)
(* in at most 4 lines (manifest, author, date, files); the date line in at *)
(* most 3 fields (timestamp, utcoffset, extra).                           *)
ParseChangeset(r) ==
    LET seps == {i \in 1..Len(r) - 1 : r[i] = LF /\ r[i + 1] = LF}
        header == SubSeq(r, 1, Min(seps) - 1)
        lines == SplitN(header, LF, 4)
        date == SplitN(lines[3], SP, 3)
    IN IF seps = {} THEN None
       ELSE IF Len(lines) < 3 THEN None
       ELSE IF Len(date) < 2 \/ lines[1] \notin {<<m>> : m \in ManifestIds}
       THEN None
       ELSE Some([manifest |-> lines[1][1], author |-> lines[2],
                  timestamp |-> date[1], utcoffset |-> date[2],
                  extra |-> IF Len(date) = 3 THEN Some(date[3]) ELSE None,
                  files |-> IF Len(lines) = 4 THEN Some(lines[4]) ELSE None,
                  body |-> SubSeq(r, Min(seps) + 2, Len(r))])

(* GitChangesetMetadata::files: the NUL-separated list, none when absent. *)
MetadataFiles(md) == IF md.files = None THEN <<>> ELSE Split(Get(md.files), NUL)

(* Authorship conversions of hg_data (outside src/), by what spec 4.F     *)
(* says they do: a git line is "name ts tz"; tz and utcoffset are          *)
(* converted through GitTz/HgOffset, which need not be inverse.           *)
GitAuthorLine(a, ts, off) == a \o <<SP>> \o ts \o <<SP, GitTz[off[1]]>>
LastTwoSpaces(l) ==
    LET P == Positions(l, SP)
        p2 == Max(P)
        p1 == Max(P \ {p2})
    IN [name |-> SubSeq(l, 1, p1 - 1), ts |-> SubSeq(l, p1 + 1, p2 - 1),
        tz |-> SubSeq(l, p2 + 1, Len(l))]
HgAuthorshipOf(l) ==
    LET f == LastTwoSpaces(l)
    IN [author |-> f.name, timestamp |-> f.ts, utcoffset |-> <<HgOffset[f.tz[1]]>>]
HgCommitterOf(l) ==
    LET h == HgAuthorshipOf(l)
    IN h.author \o <<SP>> \o h.timestamp \o <<SP>> \o h.utcoffset
GitFromHgCommitter(c) ==
    LET f == LastTwoSpaces(c) IN GitAuthorLine(f.name, f.ts, f.tz)

(* prepare_changeset_commit: the git author from the changeset's, the     *)
(* committer from extra "committer" (an authorship when it ends with '>', *)
(* an hg committer line otherwise), the body as the message, the parents  *)
(* (as hg ids; the code writes their git commits).                        *)
PrepareCommit(r, ps) ==
    LET cs == Get(ParseChangeset(r))
        author == GitAuthorLine(cs.author, cs.timestamp, cs.utcoffset)
        extra == IF cs.extra = None THEN <<>> ELSE ExtraFrom(Get(cs.extra))
        c == extra[CommitterKey]
    IN [author |-> author,
        committer |-> IF CommitterKey \notin DOMAIN extra THEN author
                      ELSE IF Last(c) = ">"
                      THEN GitAuthorLine(c, cs.timestamp, cs.utcoffset)
                      ELSE GitFromHgCommitter(c),
        body |-> cs.body, parents |-> ps]

(* handle_changeset_conflict (outside src/; spec 4.F.5): when the commit  *)
(* would equal another changeset's, NULs are appended to its message.     *)
ConflictNuls(c, j) == [c EXCEPT !.body = @ \o [i \in 1..j |-> NUL]]

(* The loop that undoes handle_changeset_conflict: while the text ends    *)
(* with NUL and its hash with the parents is not the changeset id, pop.    *)
RECURSIVE StripNuls(_, _, _)
StripNuls(ps, node, t) ==
    IF Last(t) = NUL /\ Node!CodeNode(ps, t) # node
    THEN StripNuls(ps, node, Front(t)) ELSE t

(* RawHgChangeset::from_metadata: authorship from the commit, the         *)
(* metadata's author override, extra "committer" when the commit's        *)
(* committer differs, files sorted, the body, then the patch, then the     *)
(* trailing-NUL loop.                                                     *)
FromMetadata(commit, md) ==
    LET hg == HgAuthorshipOf(commit.author)
        author == IF md.author = None THEN hg.author ELSE Get(md.author)
        extra0 == IF md.extra = None THEN None ELSE Some(ExtraFrom(Get(md.extra)))
        extra == IF commit.author = commit.committer THEN extra0
                 ELSE Some(ExtraSet(IF extra0 = None THEN <<>> ELSE Get(extra0),
                                    CommitterKey, HgCommitterOf(commit.committer)))
        files == SortSeq(MetadataFiles(md), LexLess)
        text == <<md.manifest, LF>> \o author \o <<LF>> \o hg.timestamp \o <<SP>>
                \o hg.utcoffset
                \o (IF extra = None THEN <<>> ELSE <<SP>> \o ExtraDump(Get(extra)))
                \o FlattenSeq([i \in 1..Len(files) |-> <<LF>> \o files[i]])
                \o <<LF, LF>> \o commit.body
        patched == IF md.patch = None THEN Some(text)
                   ELSE IF PatchIter(Get(md.patch)) = None THEN None
                   ELSE Some(Apply(Get(PatchIter(Get(md.patch))), text))
    IN IF patched = None THEN None
       ELSE Some(StripNuls(commit.parents, md.changeset, Get(patched)))

\* Variant of Generate that stores the git author line as the author.
GenerateGitAuthor(commit, id, r) ==
    LET cs == Get(ParseChangeset(r))
        temp == [changeset |-> id, manifest |-> cs.manifest,
                 author |-> IF commit.author # cs.author THEN Some(commit.author) ELSE None,
                 extra |-> cs.extra, files |-> cs.files, patch |-> None]
        new == FromMetadata(commit, temp)
    IN IF ParseChangeset(r) = None \/ new = None THEN None
       ELSE IF r # Get(new)
       THEN Some([temp EXCEPT !.patch = Some(FromPatchInfo(TextDiff(r, Get(new))))])
       ELSE Some(temp)

(* GeneratedGitChangesetMetadata::generate.                               *)
Generate(commit, id, r) ==
    LET cs == Get(ParseChangeset(r))
        temp == [changeset |-> id, manifest |-> cs.manifest,
                 author |-> IF commit.author # cs.author THEN Some(cs.author) ELSE None,
                 extra |-> cs.extra, files |-> cs.files, patch |-> None]
        new == FromMetadata(commit, temp)
    IN IF ParseChangeset(r) = None \/ new = None THEN None
       ELSE IF r # Get(new)
       THEN Some([temp EXCEPT !.patch = Some(FromPatchInfo(TextDiff(r, Get(new))))])
       ELSE Some(temp)

-----------------------------------------------------------------------------
(* The metadata blob (its writer is outside src/; spec 4.E): one line     *)
(* "key value" per present field, in the order of MetadataKeys.           *)
MetadataKeys == <<"changeset", "manifest", "author", "extra", "files", "patch">>
NullManifest == "null"

Serialize(md) ==
    LET Line(k, v) == <<k, SP>> \o v \o <<LF>>
        Opt(k, o) == IF o = None THEN <<>> ELSE Line(k, Get(o))
    IN Line("changeset", <<IdToken(md.changeset)>>) \o Line("manifest", <<md.manifest>>)
       \o Opt("author", md.author) \o Opt("extra", md.extra)
       \o Opt("files", md.files) \o Opt("patch", md.patch)

(* bstr's lines(): split at LF, no empty item after a final LF.           *)
Lines(b) ==
    IF b = <<>> THEN <<>> ELSE IF Last(b) = LF THEN Front(Split(b, LF)) ELSE Split(b, LF)

(* RawGitChangesetMetadata::parse: every line "key value" with a known    *)
(* key (the last of a key wins), a changeset id required, the manifest    *)
(* null when absent.                                                      *)
ParseMetadata(b) ==
    LET L == Lines(b)
        kv(i) == Get(SplitNExact(L[i], SP, 2))
        Field(k) == LET I == {i \in 1..Len(L) : kv(i)[1] = <<k>>}
                    IN IF I = {} THEN None ELSE Some(kv(Max(I))[2])
        Ids == ManifestIds \cup {IdToken(n) : n \in NodeIds}
        IsId(o) == o = None \/ (Len(Get(o)) = 1 /\ Get(o)[1] \in Ids)
    IN IF \E i \in 1..Len(L) : SplitNExact(L[i], SP, 2) = None THEN None
       ELSE IF \E i \in 1..Len(L) : kv(i)[1] \notin {<<k>> : k \in ToSet(MetadataKeys)}
       THEN None
       ELSE IF Field("changeset") = None \/ ~IsId(Field("changeset"))
               \/ ~IsId(Field("manifest")) THEN None
       ELSE Some([changeset |-> CHOOSE n \in NodeIds :
                                    <<IdToken(n)>> = Get(Field("changeset")),
                  manifest |-> IF Field("manifest") = None THEN NullManifest
                               ELSE Get(Field("manifest"))[1],
                  author |-> Field("author"), extra |-> Field("extra"),
                  files |-> Field("files"), patch |-> Field("patch")])

-----------------------------------------------------------------------------
VARIABLES
    raw,          \* the Mercurial changeset as received
    parents,      \* its parents' hg ids, in the order of the changeset
    commit,       \* Some(the git commit made of it)
    metadata,     \* Some(the metadata generate() made), None before
    blob,         \* the metadata blob in the object store
    rebuilt,      \* what RawHgChangeset::read() returned
    stage         \* "hg", "imported", "generated", "stored", "read", "failed"

vars == <<raw, parents, commit, metadata, blob, rebuilt, stage>>

Init ==
    /\ raw \in Raws
    /\ parents \in Node!ParentSeqs
    /\ commit = None /\ metadata = None /\ blob = <<>> /\ rebuilt = None
    /\ stage = "hg"

(* The import writes the git commit for the changeset, with NULs appended *)
(* when it collides with another changeset's commit.                      *)
Import ==
    /\ stage = "hg"
    /\ \E j \in 0..MaxExtraNuls :
         commit' = Some(ConflictNuls(PrepareCommit(raw, parents), j))
    /\ stage' = "imported"
    /\ UNCHANGED <<raw, parents, metadata, blob, rebuilt>>

(* The import generates the changeset's metadata.                         *)
GenerateMetadata ==
    /\ stage = "imported"
    /\ metadata' = Generate(Get(commit), Node!HgNode(parents, raw), raw)
    /\ stage' = IF metadata' = None THEN "failed" ELSE "generated"
    /\ UNCHANGED <<raw, parents, commit, blob, rebuilt>>

(* The metadata is written as a blob and noted against the commit.        *)
StoreMetadata ==
    /\ stage = "generated"
    /\ blob' = Serialize(Get(metadata))
    /\ stage' = "stored"
    /\ UNCHANGED <<raw, parents, commit, metadata, rebuilt>>

(* RawHgChangeset::read: parse the commit's metadata, rebuild.            *)
ReadChangeset ==
    /\ stage = "stored"
    /\ rebuilt' = IF ParseMetadata(blob) = None THEN None
                  ELSE FromMetadata(Get(commit), Get(ParseMetadata(blob)))
    /\ stage' = "read"
    /\ UNCHANGED <<raw, parents, commit, metadata, blob>>

Done == stage \in {"read", "failed"} /\ UNCHANGED vars

Next == Import \/ GenerateMetadata \/ StoreMetadata \/ ReadChangeset \/ Done

Spec == Init /\ [][Next]_vars

-----------------------------------------------------------------------------
\* The tokens of Mercurial text: every token of the raw changesets.
HgBytes == UNION {ToSet(r) : r \in Raws}

TypeOK ==
    /\ raw \in Raws /\ parents \in Node!ParentSeqs
    /\ stage \in {"hg", "imported", "generated", "stored", "read", "failed"}
    /\ \A c \in commit : c \in [author : Seq(HgBytes \cup Range(GitTz)),
                                committer : Seq(HgBytes \cup Range(GitTz)),
                                body : Seq(HgBytes),
                                parents : Node!ParentSeqs]
    /\ \A md \in metadata :
           /\ md.changeset \in NodeIds /\ md.manifest \in ManifestIds
           /\ \A v \in md.author \cup md.extra \cup md.files : v \in Seq(HgBytes)
    /\ \A t \in rebuilt : t \in Seq(HgBytes)
    /\ Cardinality(commit) <= 1 /\ Cardinality(rebuilt) <= 1

(* Every changeset is read back byte for byte from its commit and the     *)
(* metadata generate() wrote for it (spec 6, property 1): whatever the    *)
(* conversions lose (author line, timezone, committer, extra order and    *)
(* duplicates, file order) the patch restores, the patch survives its    *)
(* encoding, the blob and the parse, and the NUL loop after it removes    *)
(* the conflict NULs but not the changeset's own.                         *)
Reconstructs ==
    /\ stage # "failed"
    /\ stage = "read" => rebuilt = Some(raw)

=============================================================================
