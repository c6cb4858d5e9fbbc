--------------------------- MODULE MCHttpExecute ---------------------------
(* Model-checking instance of HttpExecute.                                 *)
EXTENDS HttpExecute

\* A body of 3 bytes split into chunks of 1 or 2 bytes, read with buffers
\* of 1 or 2 bytes, is enough for a chunk to be read in two pieces and for
\* a read to straddle two chunks.
MCMaxBody == 3
MCMaxChunk == 2
MCMaxRead == 2
\* Two bytes of upload: a 401 can arrive after the first one.
MCUploadLen == 2
\* A success, the authentication challenge, and an error: a redirect that
\* is not followed (every POST, and GETs unless the policy allows it).
MCStatuses == {200, 302, 401}
=============================================================================
