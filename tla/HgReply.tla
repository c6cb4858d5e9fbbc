------------------------------- MODULE HgReply -------------------------------
(***************************************************************************)
(* How the callers of execute() in src/helper/hg_connect_http.rs read a    *)
(* reply: get_http_connection's 4-byte sniff for a bundle, simple_command, *)
(* changegroup_command's dispatch on the content type (with the 0.2 codec  *)
(* byte and name), and push_command's HG20 / "stdout\nstderr" split.      *)
(*                                                                         *)
(* The body reaches HttpResponse::read() as the chunks the worker sent     *)
(* over the channel, in order; the transfer may have stopped early (run    *)
(* http_eof), so what the reader gets, recv, is a prefix of the server's   *)
(* body.  Every read() returns the rest of the current chunk, at most k    *)
(* bytes, or refills from the next chunk, or returns 0 once the channel is *)
(* closed.  Each read() call is one step; the readers are the loops of     *)
(* read_at_most, read_exact, Take and copy around it.                      *)
(***************************************************************************)
EXTENDS Naturals, Sequences, SequencesExt

CONSTANTS
    Cmds,         \* commands whose reply is read
    CTypes,       \* content types the server may answer with
    MediaTypes,   \* httpmediatype capability values, as sets of tokens
    Bodies(_),    \* Bodies(c): bodies the server may send for command c
    Codecs,       \* compression names the 0.2 reader knows
    ByteValue(_), \* the number read_u8() makes of a byte
    BufSize       \* buffer size of copy() and read_to_end()

ASSUME Cmds \subseteq {"capabilities", "simple", "changegroup", "push"}
ASSUME BufSize \in Nat \ {0}

\* Byte strings, as tuples of one-character strings.
HG10 == <<"H", "G", "1", "0">>
HG20 == <<"H", "G", "2", "0">>
ErrLine == <<"e", "r", "r", "\n">>
Zlib == <<"zlib">>      \* the decoder of a 0.1 reply
Raw == <<>>             \* no decoder: the bytes are passed on as they are

Terminal == {"done", "panicked", "died"}

VARIABLES
    cmd,          \* the command whose reply is read
    mediatype,    \* the server's httpmediatype capability
    ctype,        \* Content-Type of the response (http_resp.content_type())
    body,         \* what the server sent
    recv,         \* the prefix of it the transfer delivered
    queue,        \* chunks still in the channel
    cursor,       \* unread rest of the chunk in HttpResponse.cursor
    rpc,          \* the reader's position
    acc,          \* bytes gathered by the current loop (header, comp, buf)
    need,         \* bytes the Take of the codec name may still yield
    decoder,      \* the decoder the stream is handed to
    kind,         \* capabilities: "caps" or "bundle"; others "stream"
    dest,         \* where copy() writes: "out" or "err" (remote: prefix)
    out,          \* bytes given to the caller (response / out / caps)
    err           \* bytes given to stderr

fixed == <<cmd, mediatype, ctype, body, recv>>
vars == <<cmd, mediatype, ctype, body, recv, queue, cursor, rpc, acc, need,
          decoder, kind, dest, out, err>>

-----------------------------------------------------------------------------
(* The ways the worker's writes can cut s into non-empty chunks.          *)
Chunkings(s) ==
    { LET pts == SetToSortSeq(C \cup {0, Len(s)}, <)
      IN [i \in 1..Len(pts) - 1 |-> SubSeq(s, pts[i] + 1, pts[i + 1])]
      : C \in SUBSET (1..Len(s) - 1) }

TakeN(s, k) == SubSeq(s, 1, IF k < Len(s) THEN k ELSE Len(s))
DropN(s, k) == SubSeq(s, IF k < Len(s) THEN k + 1 ELSE Len(s) + 1, Len(s))

(* HttpResponse::read() with a buffer of k bytes.                         *)
ReadFrom(k) ==
    IF cursor # <<>>
    THEN [data |-> TakeN(cursor, k), cur |-> DropN(cursor, k), q |-> queue]
    ELSE IF queue # <<>>
    THEN [data |-> TakeN(Head(queue), k), cur |-> DropN(Head(queue), k),
          q |-> Tail(queue)]
    ELSE [data |-> <<>>, cur |-> <<>>, q |-> <<>>]

Consume(r) == cursor' = r.cur /\ queue' = r.q

(* changegroup_command: the 0.2 protocol is offered when httpmediatype    *)
(* has the exact token "0.2tx".                                           *)
Offers02(m) == "0.2tx" \in m

(* The server answers 0.2 only to a client that offered it.               *)
ServerTypes(m) == IF Offers02(m) THEN CTypes ELSE CTypes \ {"0.2"}

-----------------------------------------------------------------------------
Init ==
    /\ cmd \in Cmds
    /\ mediatype \in MediaTypes
    /\ ctype \in (IF cmd = "changegroup" THEN ServerTypes(mediatype)
                  ELSE {"0.1"})
    /\ body \in Bodies(cmd)
    /\ \E cut \in 0..Len(body) : recv = SubSeq(body, 1, cut)
    /\ queue \in Chunkings(recv)
    /\ cursor = <<>>
    /\ rpc = CASE cmd \in {"capabilities", "push"} -> "sniff"
               [] cmd = "simple"                    -> "copy"
               [] cmd = "changegroup"               -> "dispatch"
    /\ acc = <<>> /\ need = 0 /\ decoder = Raw
    /\ kind = IF cmd = "capabilities" THEN "caps" ELSE "stream"
    /\ dest = "out" /\ out = <<>> /\ err = <<>>

(* Variant of Sniff whose read_at_most makes a single read() call.        *)
SniffSingleRead ==
    /\ rpc = "sniff"
    /\ LET r == ReadFrom(4 - Len(acc))
           hdr == acc \o r.data
       IN /\ Consume(r)
          /\ acc' = hdr
          /\ IF cmd = "capabilities"
               THEN /\ kind' = IF hdr \in {HG10, HG20} THEN "bundle" ELSE "caps"
                    /\ out' = hdr /\ rpc' = "copy"
             ELSE IF hdr = HG20
               THEN out' = hdr /\ rpc' = "copy" /\ UNCHANGED kind
               ELSE rpc' = "to_end" /\ UNCHANGED <<kind, out>>
    /\ UNCHANGED fixed /\ UNCHANGED <<need, decoder, dest, err>>

(* Variant of Sniff whose read_at_most keeps reading after a read() of 0. *)
SniffIgnoringEof ==
    /\ rpc = "sniff"
    /\ LET r == ReadFrom(4 - Len(acc))
           hdr == acc \o r.data
       IN /\ Consume(r)
          /\ acc' = hdr
          /\ IF Len(hdr) < 4
               THEN UNCHANGED <<rpc, kind, out>>
             ELSE IF cmd = "capabilities"
               THEN /\ kind' = IF hdr \in {HG10, HG20} THEN "bundle" ELSE "caps"
                    /\ out' = hdr /\ rpc' = "copy"
             ELSE IF hdr = HG20
               THEN out' = hdr /\ rpc' = "copy" /\ UNCHANGED kind
               ELSE rpc' = "to_end" /\ UNCHANGED <<kind, out>>
    /\ UNCHANGED fixed /\ UNCHANGED <<need, decoder, dest, err>>

(* read_at_most(&mut header[..4]): read until 4 bytes or end of stream,   *)
(* then the caller's match on the header.                                 *)
Sniff ==
    /\ rpc = "sniff"
    /\ LET r == ReadFrom(4 - Len(acc))
           hdr == acc \o r.data
       IN /\ Consume(r)
          /\ acc' = hdr
          /\ IF r.data # <<>> /\ Len(hdr) < 4
               THEN UNCHANGED <<rpc, kind, out>>
             ELSE IF cmd = "capabilities"
               \* get_http_connection: HgHttpBundle chains the header in
               \* front of the rest; otherwise caps = header ++ rest.
               THEN /\ kind' = IF hdr \in {HG10, HG20} THEN "bundle" ELSE "caps"
                    /\ out' = hdr /\ rpc' = "copy"
             ELSE IF hdr = HG20
               \* push_command: a bundle2 reply is passed on verbatim.
               THEN out' = hdr /\ rpc' = "copy" /\ UNCHANGED kind
               ELSE rpc' = "to_end" /\ UNCHANGED <<kind, out>>
    /\ UNCHANGED fixed /\ UNCHANGED <<need, decoder, dest, err>>

(* copy(reader, dest): read until end of stream.                          *)
Copy ==
    /\ rpc = "copy"
    /\ LET r == ReadFrom(BufSize)
       IN /\ Consume(r)
          /\ IF r.data = <<>>
               THEN rpc' = "done" /\ UNCHANGED <<out, err>>
             ELSE IF dest = "out"
               THEN out' = out \o r.data /\ UNCHANGED <<rpc, err>>
               ELSE err' = err \o r.data /\ UNCHANGED <<rpc, out>>
    /\ UNCHANGED fixed /\ UNCHANGED <<acc, need, decoder, kind, dest>>

(* push_command: read_to_end(buf) after the header, then                  *)
(* buf.splitn_exact(b'\n') into stdout and stderr, or panic.              *)
ToEnd ==
    /\ rpc = "to_end"
    /\ LET r == ReadFrom(BufSize)
           nl == SelectInSeq(acc, LAMBDA x : x = "\n")
       IN /\ Consume(r)
          /\ IF r.data # <<>>
               THEN acc' = acc \o r.data /\ UNCHANGED <<rpc, out, err>>
             ELSE IF nl > 0
               THEN /\ out' = SubSeq(acc, 1, nl - 1)
                    /\ err' = SubSeq(acc, nl + 1, Len(acc))
                    /\ rpc' = "done" /\ UNCHANGED acc
               ELSE rpc' = "panicked" /\ UNCHANGED <<acc, out, err>>
    /\ UNCHANGED fixed /\ UNCHANGED <<need, decoder, kind, dest>>

(* changegroup_command: match on http_resp.content_type().               *)
Dispatch ==
    /\ rpc = "dispatch"
    /\ CASE ctype = "0.1" ->
              decoder' = Zlib /\ rpc' = "copy" /\ UNCHANGED <<out, dest>>
         [] ctype = "0.2" ->
              rpc' = "codec_len" /\ UNCHANGED <<decoder, out, dest>>
         [] ctype = "hg-error" ->
              /\ out' = ErrLine /\ dest' = "err" /\ rpc' = "copy"
              /\ UNCHANGED decoder
         [] OTHER ->
              rpc' = "panicked" /\ UNCHANGED <<decoder, out, dest>>
    /\ UNCHANGED fixed /\ UNCHANGED <<queue, cursor, acc, need,
                   kind, err>>

(* read_u8().unwrap(): read_exact of one byte; end of stream panics.      *)
CodecLen ==
    /\ rpc = "codec_len"
    /\ LET r == ReadFrom(1)
       IN /\ Consume(r)
          /\ IF r.data = <<>>
               THEN rpc' = "panicked" /\ UNCHANGED need
               ELSE need' = ByteValue(r.data[1]) /\ rpc' = "codec_name"
    /\ UNCHANGED fixed /\ UNCHANGED <<acc, decoder, kind, dest,
                   out, err>>

(* Variant of CodecName that reads a whole buffer, ignoring the Take.     *)
CodecNameUnbounded ==
    /\ rpc = "codec_name"
    /\ LET r == IF need = 0 THEN [data |-> <<>>, cur |-> cursor, q |-> queue]
                ELSE ReadFrom(BufSize)
       IN /\ Consume(r)
          /\ IF r.data # <<>>
               THEN /\ acc' = acc \o r.data /\ need' = need - Len(r.data)
                    /\ UNCHANGED <<rpc, decoder>>
             ELSE IF acc \in Codecs
               THEN decoder' = acc /\ rpc' = "copy" /\ UNCHANGED <<acc, need>>
               ELSE rpc' = "died" /\ UNCHANGED <<acc, need, decoder>>
    /\ UNCHANGED fixed /\ UNCHANGED <<kind, dest, out, err>>

(* (&mut http_resp).take(comp_len).read_to_end(&mut comp), then the match *)
(* on comp: a known codec wraps the rest of the response, any other name  *)
(* dies ("Server responded with unknown compression").                   *)
CodecName ==
    /\ rpc = "codec_name"
    /\ LET r == IF need = 0 THEN [data |-> <<>>, cur |-> cursor, q |-> queue]
                ELSE ReadFrom(IF need < BufSize THEN need ELSE BufSize)
       IN /\ Consume(r)
          /\ IF r.data # <<>>
               THEN /\ acc' = acc \o r.data /\ need' = need - Len(r.data)
                    /\ UNCHANGED <<rpc, decoder>>
             ELSE IF acc \in Codecs
               THEN decoder' = acc /\ rpc' = "copy" /\ UNCHANGED <<acc, need>>
               ELSE rpc' = "died" /\ UNCHANGED <<acc, need, decoder>>
    /\ UNCHANGED fixed /\ UNCHANGED <<kind, dest, out, err>>

(* The reader is done: the command returned, panicked or died.            *)
Finished == rpc \in Terminal /\ UNCHANGED vars

ReaderStep == Sniff \/ Copy \/ ToEnd \/ Dispatch \/ CodecLen \/ CodecName

Next == ReaderStep \/ Finished

(* The reader is a single thread that runs whenever read() can return.    *)
Spec == Init /\ [][Next]_vars /\ WF_vars(ReaderStep)

-----------------------------------------------------------------------------
\* Every byte value the server's bodies and the reader's own output use.
Bytes == UNION {ToSet(b) : b \in UNION {Bodies(c) : c \in Cmds}} \cup ToSet(ErrLine)

TypeOK ==
    /\ cmd \in Cmds /\ ctype \in CTypes /\ body \in Bodies(cmd)
    /\ IsPrefix(recv, body)
    /\ queue \in Seq(Seq(Bytes) \ {<<>>}) /\ cursor \in Seq(Bytes)
    /\ rpc \in {"sniff", "copy", "to_end", "dispatch", "codec_len",
                "codec_name"} \cup Terminal
    /\ acc \in Seq(Bytes) /\ need \in 0..255
    /\ decoder \in {Raw, Zlib} \cup Codecs
    /\ kind \in {"caps", "bundle", "stream"} /\ dest \in {"out", "err"}
    /\ out \in Seq(Bytes) /\ err \in Seq(Bytes)

(* What the protocol says the reply b, read as a whole, yields (spec 4.C  *)
(* and "Capabilities probe and bundle detection").                        *)
SpecReply(c, t, b) ==
    LET nl == SelectInSeq(b, LAMBDA x : x = "\n")
        n == ByteValue(b[1])
        name == SubSeq(b, 2, IF 1 + n < Len(b) THEN 1 + n ELSE Len(b))
        Ok(k, d, o, e) == [end |-> "done", kind |-> k, decoder |-> d,
                           out |-> o, err |-> e]
        Fails(how) == [end |-> how]
    IN CASE c = "capabilities" ->
              Ok(IF TakeN(b, 4) \in {HG10, HG20} THEN "bundle" ELSE "caps",
                 Raw, b, <<>>)
         [] c = "simple" -> Ok("stream", Raw, b, <<>>)
         [] c = "push" /\ TakeN(b, 4) = HG20 -> Ok("stream", Raw, b, <<>>)
         [] c = "push" /\ nl > 0 ->
              Ok("stream", Raw, SubSeq(b, 1, nl - 1), SubSeq(b, nl + 1, Len(b)))
         [] c = "push" -> Fails("panicked")
         [] t = "0.1" -> Ok("stream", Zlib, b, <<>>)
         [] t = "0.2" /\ b = <<>> -> Fails("panicked")
         [] t = "0.2" /\ name \in Codecs ->
              Ok("stream", name, SubSeq(b, 2 + n, Len(b)), <<>>)
         [] t = "0.2" -> Fails("died")
         [] t = "hg-error" -> Ok("stream", Raw, ErrLine, b)
         [] OTHER -> Fails("panicked")

(* Whatever chunks the worker's writes cut the body into, the loops of     *)
(* read_at_most, read_u8, take and copy around HttpResponse::read() end    *)
(* the way the whole received body prescribes: the bundle sniff, the 0.2  *)
(* codec name and payload, and push's stdout/stderr split are taken at    *)
(* the right bytes, and panics or deaths happen only on the bodies the    *)
(* protocol rejects.                                                      *)
ReplyAsSpecified ==
    rpc \in Terminal =>
        LET want == SpecReply(cmd, ctype, recv)
        IN /\ rpc = want.end
           /\ rpc = "done" => /\ kind = want.kind /\ decoder = want.decoder
                              /\ out = want.out /\ err = want.err

(* Every reader returns, panics or dies: no loop keeps calling read()     *)
(* after the end of the stream (read() returns 0 once the channel closes). *)
ReaderTerminates == <>(rpc \in Terminal)

=============================================================================
