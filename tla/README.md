# TLA+ models of git-cinnabar's HTTP transport and changeset store

This directory holds TLA+ models of the two Rust files of this repository. It
also holds the TLC configurations that check them.

- `src/helper/hg_connect_http.rs` is the Mercurial wire protocol over HTTP.
  It has a curl worker thread, a channel to the caller, argument placement,
  redirects and the wire commands.
- `src/src/store.rs` maps git objects to Mercurial objects. It has changeset
  metadata, the rebuilding of raw changesets, and the process-wide set of
  branch heads.

Each module translates the code named in `PROJECT.json` → `map`. Its line
ranges are the code each definition stands for.

## 1. The system: parts, state, operations, interactions

### HTTP side (`hg_connect_http.rs`)

| Part | State | Operations | Interacts with |
|---|---|---|---|
| `HttpClient` | `initial_request` | `request()` sets `follow_redirects` when `http_follow_config` is `always`, or is `initial` and this is the first request | HgHttpConnection |
| `HttpRequest` | url, headers, optional seekable body, `follow_redirects` | `header`, `post_data`, `execute_once`, `execute` | curl through git's `http.c` |
| worker thread (in `execute_once`) | `HttpThreadData { sender, first }`, the curl slot | `read_from_read` (upload), `http_request_execute` (write callback), `http_send_info` (status once), `run_one_slot` | caller, through an unbounded mpsc channel |
| `HttpResponse` | info, JoinHandle, `Cursor<Vec<u8>>`, `Option<Receiver>` | `read` (refill the cursor from the channel), `drop` (drop the receiver, join) | worker |
| `HgHttpConnection` | url, capabilities, client | `start_command_request` (query string or `X-HgArg-N` headers), `handle_redirect`, `simple_command`, `changegroup_command`, `push_command` | HttpRequest/HttpResponse |
| `get_http_connection`, `HgHttpBundle` | — | capabilities request; a 4-byte sniff decides between a bundle and a wire connection | HgHttpConnection |

The caller blocks for the first message on the channel. A status below 300
turns it into a response; anything else is drained and joined, and the
worker's `Err` is returned. `execute` retries once after `credential_fill`
when that error is `HTTP_REAUTH`, and dies otherwise. Reading pulls chunks
off the channel. Dropping the response makes the next write callback fail,
which aborts curl.

### Store side (`store.rs`)

| Part | State | Operations |
|---|---|---|
| `CHANGESET_HEADS` (`Mutex<ChangesetHeads>`) | `heads: cs → (branch, generation)`, `generation` | `add_changeset_head` (add, or remove with the null oid), `changeset_heads` (dump), `store_changesets_metadata` (checkpoint commit), `reset_changeset_heads` (reload from `refs/cinnabar/metadata^1`) |
| `RawGitChangesetMetadata` / `ChangesetExtra` | — (pure) | parse the key/value metadata blob; extra get/set/dump in key order |
| `GitChangesetPatch` | — (pure) | iterate and apply byte-range hunks |
| `RawHgChangeset::from_metadata` | — (pure) | rebuild the Mercurial changeset text from a git commit and its metadata. It ends by stripping the NULs that `handle_changeset_conflict` appended, checking the hash after each one |
| `GeneratedGitChangesetMetadata::generate` | — (pure) | metadata from a changeset, with a patch when the rebuilt text differs |
| `prepare_changeset_commit`, `RawHgManifest/RawHgFile::read` | — | formatting and object-store I/O |

Every heads entry point takes the mutex for its whole duration, so each is
one atomic step. The heads only meet the rest of the store through the
metadata of the changesets they read, which is the "stored" set of the model.

### The hard behaviours

- Two threads run over a channel, with an `unreachable!()` on three orders
  of messages.
- A 401 retry reuses a half-consumed upload body.
- A transfer can fail before or during the body.
- The response can be dropped while the worker is still writing.
- usize arithmetic in the header room depends on the build.
- Head generations must survive a checkpoint and a reload.
- The NUL-stripping loop must compare against the hash Mercurial computes,
  which depends on how the parents are ordered.

## 2. Modules

| Module | Models | State ↔ code |
|---|---|---|
| `HttpExecute` | one `execute()` and the use of its response | see below |
| `HttpTransport` | what `execute()` and `HttpResponse` promise: die, or a status below 300 and the body from its first byte, until end or drop | `phase`, `status`, `body`, `got`; `HttpExecute` maps onto it |
| `HgHttpConnection` | a session: the capabilities request, then wire commands, each through `HttpClient::request`, `execute` and `handle_redirect` | `url`, `initialRequest`, `credsFilled`, `req` (command, POST, follow, attempt), `conn`; the server is `target` (redirects), `protected`, `credsGood`, `servesBundle` |
| `HgArgChunking` | `start_command_request`'s argument placement | `budget` = parsed `httpheader`, `sent` = bytes already split off `args`, `num`, `headers`, `build` (debug/release) |
| `ChangesetHeads` | `CHANGESET_HEADS` and its four entry points | `heads`, `generation`; `persisted` = body of the checkpoint commit; `stored` = changesets whose metadata is in the store |
| `NullTruncation` | the NUL loop at the end of `from_metadata` | `changeset` = the text being cut, `node` = `metadata.changeset_id()`, `parents` in git order |
| `HgReply` | how each command's reply is read: the bundle sniff, content-type dispatch, the 0.2 codec byte and name, the push reply | `recv` = the received prefix of `body`, `queue`/`cursor` = channel chunks and `HttpResponse`'s cursor, `rpc` = where the caller's code is, `acc`/`need` = bytes of the current loop, `decoder`, `kind`, `out`, `err` |
| `ChangesetMetadata` | a changeset's round trip: `prepare_changeset_commit`, `generate`, the metadata blob, `RawGitChangesetMetadata::parse`, `from_metadata` | `raw`, `commit`, `metadata`, `blob`, `rebuilt`, `stage` |
| `HttpLifecycle` | git's HTTP state across a session: `http_init`, each response's worker, the capabilities sniff, commands, `getbundle`, and what every drop runs | `curl` (uninit/inited/cleaned), `worker` (perform/exited/joined), `endless`, `rx` = the receiver, `queued`, `pc` = the caller, `drops`/`resume` = the drop steps still to run |

Each `MC*` module fixes the constants for TLC.

### HttpExecute

The worker is `wpc` ("perform" → "performed" → "exited"). Its actions are:

- `WorkerUpload` is `read_from_read`.
- `WorkerWrite` and `WorkerWriteRefused` are the write callback, when the
  send succeeds and when it fails.
- `CurlComplete` and `CurlFail` are the two ways `run_one_slot` returns.
- `WorkerExit` is the trailing `http_send_info` and the thread's result.

The caller is `cpc`. Its actions are:

- `StartAttempt` is `execute_once` spawning the worker, with the seek to 0.
- `AwaitInfo` is the first `recv`.
- `DrainMessage` and `DrainEnd` are the error branch plus `execute`'s retry
  or die.
- `Read` is `HttpResponse::read`.
- `DropResponse` and `JoinResponse` are `Drop`.

`ServerRespond` is the server, which picks the status and body length. The
network can fail at any point, which `CurlFail` expresses.

Bytes are abstracted to their positions. The body is `1..srvLen` and the
upload is `0..UploadLen-1`, so "intact" is a statement about sequences of
positions. git's `handle_curl_result` is outside this repository and is
modelled from its documented behaviour (`HandleCurlResult`, spec_modelled):
- status < 300 gives OK;
- 401 gives REAUTH, or NOAUTH once credentials were filled;
- anything else gives ERROR.

`HttpExecute` also defines the refinement mapping `Transport`, an
`INSTANCE HttpTransport WITH ...`. It maps the caller's phases as follows:

- Attempts and draining map to "requesting".
- Reading maps to "streaming".
- EOF maps to "ended".
- Drop and join map to "closed".

Once the status-below-300 info has been taken, the response's status is
that info's and its body is `1..srvLen`. The property
`TransportRefinement == Transport!Spec` is checked in `http_execute`.

### HgHttpConnection

One `execute_once()` is one step (`ExecuteOk`, `ExecuteReauth`,
`ExecuteFail`), because `HttpExecute` covers its inside. `Outcome` is git's
`handle_curl_result` at the host where curl stopped:

- `Walk` follows redirects up to `CURLOPT_MAXREDIRS` (20, set by git).
- It only does so for a GET whose request follows.
- A redirect that is not followed is a 302, which is an error.

`ExecuteOk` includes `handle_redirect`, which every caller runs right after
`execute()`. For the capabilities request it also decides between a bundle
and a wire connection. `ExecuteReauth` retries the same `HttpRequest`, which
is why the follow flag survives the retry. The reference for
"where the repository is" is taken from the server alone: `RepoHosts` uses
`Descendants` of the redirect graph, from the community Graphs module.

### ChangesetHeads

The commit graph is chosen in `Init`: every changeset has at most two
parents, all with smaller ids. `AddHead(cs)` requires the parents to be
stored, because the code `unwrap()`s their metadata. `RemoveHead` is the
null-oid call. `Checkpoint` writes the generation-ordered dump; we assume the
ref update and the notes (the stored set) go with it, as the caller does.
`Reset` rebuilds the heads from that body, the n-th line getting ordinal n−1,
and sets the generation to the number of lines. `lastAdd`, `clock`,
`removed` (the changesets the caller removed) and `persistedRemoved` (its
value at the last checkpoint, restored by `Reset` with the stored set) are
history variables used only by the properties.

### NullTruncation

A text is one non-NUL byte followed by its NULs. SHA-1 is taken to be
injective, so a node is the tuple it hashes. `HgNode` is Mercurial's
definition: pad the parents with null, sort them, then the text. `CodeNode`
is the code's: sort, then pad.

### HgReply

A step is one `read()` of `HttpResponse`. It returns the rest of the
current chunk up to the buffer, refills from the next chunk, or returns 0
once the channel is closed. The chunking of the body is chosen in `Init`
(`Chunkings`). The received body is any prefix of the server's, because the
transfer can stop early (finding 1). The loops around `read()` are actions:

- `Sniff` is `read_at_most(4)` in `get_http_connection`, then the HG10/HG20
  test. It is also push's HG20 test.
- `Copy` is `std::io::copy` of the bundle or the simple reply.
- `ToEnd` is push's `read_to_end`, then the split at the first LF, or the
  "Bad output from server" panic.
- `Dispatch` is changegroup's match on the content type, which depends on
  whether `httpmediatype` offered `0.2tx` (`Offers02`).
- `CodecLen` and `CodecName` are the `read_u8` length byte and the
  `take(len).read_to_end` codec name.

`SpecReply` is a reference written at the level of whole bodies.
`ReplyAsSpecified` compares every terminal state with it.

### ChangesetMetadata

Byte strings are tuples of tokens. A token is one byte, or a fixed run of
bytes where a comment says so (an id, a decimal, a percent escape).
`Import` is `prepare_changeset_commit`. `GenerateMetadata` is `generate`,
including its `from_metadata` and its `textdiff` patch. `StoreMetadata` is
the blob writer. `ReadChangeset` is `RawHgChangeset::read`. The pure code is
operators:

- `ParseChangeset` is `RawHgChangeset::parse`.
- `ExtraFrom`, `ExtraSet` and `ExtraDump` are `ChangesetExtra`, a function
  dumped in byte order of its keys.
- `PatchIter` and `FromPatchInfo` are `GitChangesetPatch`, with
  percent-encoding.
- `ParseMetadata` is `RawGitChangesetMetadata::parse`.
- `MetadataFiles` is `GitChangesetMetadata::files`.
- `FromMetadata` is the whole of `from_metadata`. Its trailing-NUL loop
  (`StripNuls`) uses `HgNode` and `CodeNode` from `NullTruncation`,
  through `Node == INSTANCE NullTruncation`. The changeset id is Mercurial's
  node of the raw text and its parents.
- `Import` may append up to `MaxExtraNuls` NULs to the commit message, as
  `handle_changeset_conflict` does (`ConflictNuls`).

Some code is outside `src/` and is modelled from the spec (spec_modelled):

- the hg_data authorship conversions (spec §4.F);
- `handle_changeset_conflict`'s NULs (§4.F.5);
- xdiff's `apply` and `textdiff` (§4.E). `textdiff` is one hunk between the
  common prefix and suffix, which satisfies the spec's
  `apply(textdiff(t, s), s) = t`;
- the blob writer (§4.E).

The model's timezone conversion is deliberately lossy: two hg offsets map to
one git timezone. This means the rebuilt text can differ from the raw one,
and the patch has to carry the difference.

### HttpLifecycle

`get_http_connection` calls `http_init`, and `Drop for HgHttpConnection`
calls `http_cleanup`. In between, every response has a worker thread inside
`run_one_slot` on git's curl state. The module follows that state through a
whole session:

- `Connect` is `http_init` and the capabilities `execute()` (`Spawn`).
- `Sniff` is `read_at_most(4)`. Bytes starting a bundle lead to an
  `HgHttpBundle` owning the connection and the response. Anything else is
  copied to EOF (`ReadChunk`, `ReadEof`), and the response is dropped at
  the end of the function.
- `Command` is a wire command. Its reader may read to EOF or stop early
  (`StopEarly`, a decoder at the end of its stream). Either way the
  response is dropped at the end of the arm.
- `CloseConnection` drops the wire connection. `GetBundle` and `DropBundle`
  are the bundle path. `BundleDropOrder` is `HgHttpBundle`'s field order,
  which is the order Rust drops them in.
- A drop is the list of steps `FieldDrop` gives: `DropReceiver` then `Join`
  for a response, and `Cleanup` for a connection. The caller runs them in
  order. `Join` waits for the worker to exit.
- `WorkerWrite` is the write callback sending a chunk.
  `WorkerWriteRefused` is the same callback after the receiver is gone: it
  returns 0 and the transfer aborts. `CurlDone` is a finite answer ending.
  The server's answer may be endless (`endless`), and then only the refused
  write ends the worker.

## 3. Runs

| Run | cfg | Expect | What it shows |
|---|---|---|---|
| `http_execute` | `HttpExecute.cfg` | pass | See the list below |
| `http_eof` | `HttpExecuteEof.cfg` | violation | A transfer failing with no status, or in the middle of a 2xx body, is given to the reader as a normal body ending in EOF (finding 1) |
| `http_connection` | `HgHttpConnection.cfg` | pass | Over every server of three hosts and every follow policy, a session dies only when the server leaves no way through: the redirects loop, `never` forbids the first one, or the credentials are refused (`ConnectionSurvives`). Once connected, the base URL is the repository's own (`BaseIsRepository`) |
| `changeset_heads` | `ChangesetHeads.cfg` | pass | Across adds, removals, checkpoints and resets, the set holds only branch heads (`HeadsAreBranchHeads`) and loses none: every stored changeset with no stored child on its branch is in it unless the caller removed it (`HeadsComplete`). Heads are ordered by when they were added (`HeadsOrderedByInsertion`) |
| `arg_chunking` | `HgArgChunking.cfg` | pass | In both builds, every header line fits the budget and the headers rebuild the string. Budget 13 is tried up to its limit of 108 bytes, 14 up to 1107 bytes, and 32 up to 2000 bytes (past `X-HgArg-100`) |
| `arg_chunking_small` | `HgArgChunkingSmall.cfg` | violation | Budgets of 12 or less underflow on S1's 22-byte argument, and 13 and 14 one byte past their limits of 108 and 1107 bytes (finding 2) |
| `null_truncation` | `NullTruncation.cfg` | pass | Roots and merges: the loop gives back the real text with its own NULs |
| `null_truncation_one_parent` | `NullTruncationOneParent.cfg` | violation | One parent: the loop strips the real NULs too (finding 3) |
| `http_reply` | `HgReply.cfg` | pass | For every command, content type, media-type offer, body prefix and chunking, the reader ends (`ReaderTerminates`) with the outcome the whole-body reference gives (`ReplyAsSpecified`). This covers a bundle header split across chunks, a short or zero codec length, and a truncated push reply |
| `changeset_metadata` | `ChangesetMetadata.cfg` | pass | A changeset with zero or one file is rebuilt byte for byte from its commit and its metadata (`Reconstructs`). The inputs include unsorted, duplicated or committer extras and a timezone the conversion loses. The metadata holds Mercurial text only (`TypeOK`) |
| `changeset_metadata_files` | `ChangesetMetadataFiles.cfg` | violation | A changeset with two files cannot be read back (finding 4) |
| `http_lifecycle` | `HttpLifecycle.cfg` | pass | `http_cleanup` runs only after the last worker is joined, on the wire and the bundle paths alike (`CleanupAfterJoin`). Every drop of a response, a connection or a bundle completes, even when the server never stops sending and nobody reads what it sends (`DropCompletes`) |

What `http_execute` shows:

- The reader gets a prefix of the body, in order (`BodyIntact`).
- A retried POST uploads from byte 0 (`RetryResendsWholeBody`).
- No `unreachable!()` or unwrap panic fires (`NoUnreachablePanic`).
- The whole implements `HttpTransport` (`TransportRefinement`).

Every property of a passing run has a mutant in `PROJECT.json`. The mutant
is a variant of the action the property is about, for example a missing
seek, a missing cursor rewind, or a merge that only drops its first parent's
head. TLC finds each of them violated.

### Findings

1. **A truncated or failed transfer reads as a complete body.**
   `hg_connect_http.rs:211`: `execute_once` accepts any first status below
   300, including 0, which means no response. Then `Drop` ignores the
   worker's `Err` (line 271). Spec §4.A says other transport failures abort.
2. **usize underflow in header chunking.** `hg_connect_http.rs:383`: for
   `httpheader` ≤ 12, `httpheader - name.len() - 2` underflows.
   - Debug builds panic.
   - Release builds wrap. With budget 10 the whole 22-byte string goes into
     one `X-HgArg-1` header. With 11 and 12, empty headers are sent until
     the name grows.
   - Larger budgets fail the same way on long enough arguments, because
     the name grows with the header number. Budget 13 leaves no room from
     `X-HgArg-100` on, so a release build sends empty headers up to
     `X-HgArg-999` and wraps at `X-HgArg-1000` once the argument exceeds
     108 bytes. Budget 14 fails past 1107 bytes (`arg_chunking_small`).
   - Spec §8.5 promises the budget for any B > 0.
3. **Wrong parent order in the NUL check.** `store.rs:379-380`: the parents
   are sorted before null padding. For a one-parent changeset the code
   hashes `p ‖ null` where Mercurial hashes `null ‖ p`. The check never
   succeeds, and a changeset whose own text ends in NUL is rebuilt without
   those NULs.

4. **The files list is stored LF-separated.** `store.rs:177`: `generate`
   copies the changeset's raw files block, in which files are separated by
   LF, into the metadata. Spec §4.F and `files()` (line 142) expect NUL
   separators. In the blob, the LF ends the `files` line early. The next
   name is then a line with no space, and `parse` (line 95) rejects the
   whole record. As a result, `RawHgChangeset::read` returns `None` for
   every changeset touching two or more files. Spec §4.E requires
   `parse(serialize(m)) = m`.

## 4. Bounds and why they suffice

- `HttpExecute`:
  - Bodies of up to 3 bytes.
  - Chunks and reads of up to 2 bytes, so a chunk can be split across reads
    and a read can span a refill.
  - An upload of 2 bytes, so a 401 can come after part of it.
  - Statuses 200, 302 and 401, one per outcome of `handle_curl_result`.
    302 is the redirect that a POST, or a GET under a policy that does
    not follow, gets as its answer.
  - 4,696 states.
- `ChangesetHeads`:
  - Every graph on 4 changesets with 2 branches. This includes a merge, a
    merge across branches, a fork, and a merge of the two children of a
    fork.
  - Up to 4 adds, interleaved with any number of removals, checkpoints and
    resets. That is enough to add every changeset, or to add, checkpoint,
    reset and re-add.
  - 6.7M states, about 80 seconds with two workers.
- `HgArgChunking`:
  - A budget B leaves B - len(name) - 2 bytes per header, so it carries a
    bounded total: 108 bytes for 13 and 1107 for 14. No budget is safe for
    every length.
  - Every budget is tried with lengths 0..24, which reach `X-HgArg-10`,
    and with lengths at its limit. Budget 13 gets 107 and 108, and 14
    gets 1106 and 1107. Budget 32 (spec S1's value) gets 1989..2000, past
    `X-HgArg-100`.
  - `arg_chunking_small` adds one byte past each limit.
  - `UsizeMax` stands for 2^64−1. Any modulus above every length gives the
    same wrap.
- `NullTruncation`: 3 parent ids, and up to 3 NULs of each kind.
- `HgHttpConnection`:
  - Every server on 3 hosts: all 64 redirect maps (chains of two hops,
    loops of one and two hosts), all protected sets, good or bad
    credentials, and bundle or repository.
  - All three follow policies.
  - Two commands after connecting, which covers a POST after a GET.
  - 27,680 states.

- `HgReply`:
  - Every prefix of every body, in every chunking. With bodies of up to 5
    bytes, this splits the 4-byte header at every point.
  - A buffer of 3 bytes. The 4-byte sniff then needs two reads, and
    `copy` loops.
  - Codec names of 1 and 2 bytes, with length bytes 0, 1 and 2, which cover
    a name that is shorter, exact, longer or empty.
  - Both media-type offers.
  - 1,817 states.
- `ChangesetMetadata`:
  - 28 changesets: 7 extras (none; one; unsorted; a duplicate key; a
    committer authorship; an hg committer line; a committer among other
    keys) × 0 or 1 file × 2 offsets that the conversion merges.
  - Each of these forces a different patch, or no patch.
  - Each of these with a message with or without a NUL of its own, and
    with parents: none, or a merge in either order. One-parent changesets
    are left out, because finding 3 already breaks them. They fail here too,
    since the patch cannot restore NULs that the loop strips after it.
  - 0 to 2 conflict NULs on the commit.
  - 168 initial states, 2,184 states in all.
  - The two-file run uses both file orders.

- `HttpLifecycle`:
  - Up to 3 wire commands after the capabilities. This is enough for a
    command after the capabilities, after a command read to EOF, and after
    one that stopped early.
  - A finite or an endless answer for every request, and both sniff
    outcomes.
  - 114 states.

## 5. Fairness

`HgReply` and `HttpLifecycle` have liveness properties. `HgReply`'s `Spec` has weak
fairness on `ReaderStep`, the reader's `read()` loops. The caller is one
thread, and in the model the server's body is already fixed. Each `read()`
therefore returns, either with data or with 0 once the worker has closed
the channel. `http_eof` and `HttpExecute` show that the worker does close
it.

`HttpLifecycle`'s `Spec` has weak fairness on `Worker` and on `Dropping`.
The worker is an OS thread, so it is scheduled. Spec §5 (line 132) states
that join does not block forever provided the transport honours the abort.
So while the transfer runs, curl keeps calling the write callback, or the
transfer ends. A caller inside a drop is one thread, and it runs each step
once that step is enabled. There is no fairness on the caller's other
steps: a session may stop anywhere, and that is not a liveness failure.

Every other `Spec` is `Init /\ [][Next]_vars` with no fairness. Each
module has a `Finished` or `Done` stutter step for its terminal states, and
deadlock checking stays on.

## 6. Not modelled, and why

- Decompression (zlib, zstd, bzip2) is done by external crates over byte
  streams.
- `RawHgManifest`/`RawHgFile::read` and the `to_hg`/`to_git` lookups are
  object-store I/O with no control state. The tree and parent lines of
  `prepare_changeset_commit` do not feed the metadata.
- `HgChangeset::extra` and `HgChangeset::files` change no state, and
  nothing under `src/` calls them. `generate` copies the raw files slice,
  and `from_metadata` splits the metadata's slice, which `MetadataFiles`
  models.
- `from_metadata`'s `?` on parents without an hg id, and
  `ChangesetExtra::from`'s `unwrap` on an entry without `:`. Neither
  happens for changesets Mercurial produced.
- curl and git's `http.c` are used only through the documented result of
  `run_one_slot`.

## 7. Plan

Done: `HttpExecute`, `ChangesetHeads`, `HgArgChunking`, `NullTruncation`,
`HttpTransport` (with the refinement), `HgHttpConnection`, `HgReply` and
`ChangesetMetadata` and `HttpLifecycle`.

Feeding `HgReply` from `HttpTransport` instead of a fixed prefix would add
nothing. `HgReply` already starts from every prefix of every body, in every
chunking, and that is exactly what `HttpTransport` allows a reader to get.

What is left is listed under "Not modelled". `RawHgFile::read` frames the
file text with `\x01\n` markers only when a metadata blob exists. Whether
that is sound depends on the importer, which is not in this repository,
so it is not modelled.
