--------------------------- MODULE HttpTransport ---------------------------
(***************************************************************************)
(* What HttpRequest::execute() and the HttpResponse it returns promise to  *)
(* their callers in src/helper/hg_connect_http.rs, with the worker thread, *)
(* the channel, the attempts and the cursor hidden.                        *)
(*                                                                         *)
(* execute() either dies ("unable to access ...") or returns a response    *)
(* with a status below 300.  Reading it yields the server's body from its  *)
(* first byte on, in order, until an end of stream or until it is dropped. *)
(* The end may come before the whole body: a status of 0 stands for a      *)
(* transfer that got no HTTP answer at all, and a short body for one that  *)
(* broke off; execute() hands out both (see run http_eof).                 *)
(***************************************************************************)
EXTENDS Naturals, Sequences

CONSTANTS
    MaxBody,    \* longest response body, in bytes
    Statuses    \* HTTP statuses the server may answer with

VARIABLES
    phase,      \* "requesting", "streaming", "ended", "closed", "died"
    status,     \* status of the returned response (0 before)
    body,       \* the body the server sends, as byte positions 1..n
    got         \* what the reader has been given so far

vars == <<phase, status, body, got>>

Bodies == {[i \in 1..n |-> i] : n \in 0..MaxBody}

Init ==
    /\ phase = "requesting"
    /\ status = 0
    /\ body = <<>>
    /\ got = <<>>

(* execute() returns a response; nothing has been read yet.               *)
Respond ==
    /\ phase = "requesting"
    /\ \E s \in Statuses \cup {0} : s < 300 /\ status' = s
    /\ body' \in Bodies
    /\ phase' = "streaming"
    /\ UNCHANGED got

(* execute() gives up: the process dies.                                  *)
Die ==
    /\ phase = "requesting"
    /\ phase' = "died"
    /\ UNCHANGED <<status, body, got>>

(* read() hands out the next bytes of the body.                           *)
Deliver ==
    /\ phase = "streaming"
    /\ \E k \in (Len(got) + 1)..Len(body) : got' = SubSeq(body, 1, k)
    /\ UNCHANGED <<phase, status, body>>

(* read() returns 0: end of stream, at the end of the body or before.     *)
End ==
    /\ phase = "streaming"
    /\ phase' = "ended"
    /\ UNCHANGED <<status, body, got>>

(* The response is dropped.                                               *)
Close ==
    /\ phase \in {"streaming", "ended"}
    /\ phase' = "closed"
    /\ UNCHANGED <<status, body, got>>

Next == Respond \/ Die \/ Deliver \/ End \/ Close

Spec == Init /\ [][Next]_vars

=============================================================================
