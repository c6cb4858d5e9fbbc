---------------------------- MODULE HttpExecute ----------------------------
(***************************************************************************)
(* One HttpRequest::execute() of src/helper/hg_connect_http.rs and the     *)
(* HttpResponse it returns.                                                *)
(*                                                                         *)
(* execute_once() spawns a worker thread that runs the curl transfer.      *)
(* The worker talks to the caller over an unbounded mpsc channel: an       *)
(* HttpResponseInfo (status) first, then the body chunks handed to the     *)
(* curl write callback.  The caller blocks for the info; a status < 300    *)
(* makes the HttpResponse, anything else is drained, joined, and turned    *)
(* into an Err that execute() retries once after credential_fill when it   *)
(* is HTTP_REAUTH, and dies on otherwise.  Reading the response pulls      *)
(* chunks through a Cursor; dropping it drops the receiver, so the next    *)
(* write callback fails and aborts curl, and then joins the worker.        *)
(*                                                                         *)
(* Bytes are abstracted to their position: the response body is 1..len,   *)
(* the upload body is the offsets 0..UploadLen-1.  The HTTP server and     *)
(* the network are the environment: they pick the status, the body        *)
(* length, and may fail the transfer at any point.                         *)
(***************************************************************************)
EXTENDS Naturals, Sequences, SequencesExt

CONSTANTS
    MaxBody,     \* longest response body, in bytes
    MaxChunk,    \* most bytes curl moves in one read or write callback
    MaxRead,     \* largest buffer a reader passes to HttpResponse::read
    UploadLen,   \* length of the POST body when there is one
    Statuses     \* HTTP statuses the server may answer with

ASSUME /\ MaxBody \in Nat /\ MaxChunk \in Nat \ {0} /\ MaxRead \in Nat \ {0}
       /\ UploadLen \in Nat
       /\ Statuses \subseteq 100..599

VARIABLES
    post,        \* the request has a body (HttpRequest.body is Some)
    credsFilled, \* http_auth holds credentials
    attempt,     \* number of execute_once() calls made by this execute()
    results,     \* results of the finished worker threads, in order
    bodyPos,     \* position of the seekable upload body
    uploaded,    \* upload offsets curl read in the current attempt
    wpc,         \* worker thread: "perform", "performed", "exited", "panicked"
    wresult,     \* run_one_slot() result of the current worker
    srvStatus,   \* status line received so far (0: none)
    srvLen,      \* length of the body the server sends
    served,      \* response bytes curl has taken from the server
    infoSent,    \* ~HttpThreadData.first
    chan,        \* the mpsc channel, worker -> caller
    rxAlive,     \* the Receiver has not been dropped
    cpc,         \* caller: "start", "await_info", "draining", "reading",
                 \*         "eof", "joining", "done", "died", "panicked"
    cursorBuf,   \* HttpResponse.cursor: its Vec ...
    cursorPos,   \* ... and its position
    delivered    \* bytes returned by read() to the reader, in order

vars == <<post, credsFilled, attempt, results, bodyPos, uploaded, wpc, wresult,
          srvStatus, srvLen, served, infoSent, chan, rxAlive, cpc, cursorBuf,
          cursorPos, delivered>>

Results == {"OK", "REAUTH", "NOAUTH", "ERROR"}   \* HTTP_OK, HTTP_REAUTH, ...
Bytes == 1..MaxBody
InfoMsg(s) == [kind |-> "info", status |-> s]
DataMsg(d) == [kind |-> "data", data |-> d]
Messages == {InfoMsg(s) : s \in Statuses \cup {0}}
              \cup {DataMsg(d) : d \in BoundedSeq(Bytes, MaxChunk)}
Least(a, b) == IF a < b THEN a ELSE b
\* The bytes from+1 .. from+n of the response body.
Span(from, n) == [i \in 1..n |-> from + i]

-----------------------------------------------------------------------------
(* git's run_one_slot()/handle_curl_result() with CURLOPT_FAILONERROR off:  *)
(* a completed transfer with status >= 300 is an error, a 401 asks for     *)
(* credentials unless some were already tried.                             *)
HandleCurlResult(status) ==
    IF status < 300 THEN "OK"
    ELSE IF status = 401 THEN (IF credsFilled THEN "NOAUTH" ELSE "REAUTH")
    ELSE "ERROR"

(* http_send_info(): the info goes out once, before anything else.  The   *)
(* send is unwrap()ed, so a dropped receiver panics the worker.            *)
SendInfo(c) ==
    IF infoSent THEN c ELSE Append(c, InfoMsg(srvStatus))

-----------------------------------------------------------------------------
Init ==
    /\ post \in BOOLEAN
    /\ credsFilled \in BOOLEAN
    /\ attempt = 0
    /\ results = <<>>
    /\ bodyPos = 0
    /\ uploaded = <<>>
    /\ wpc = "exited"
    /\ wresult = "OK"
    /\ srvStatus = 0
    /\ srvLen = 0
    /\ served = 0
    /\ infoSent = FALSE
    /\ chan = <<>>
    /\ rxAlive = FALSE
    /\ cpc = "start"
    /\ cursorBuf = <<>>
    /\ cursorPos = 0
    /\ delivered = <<>>

(* Variant of StartAttempt without the seek to 0 of the upload body.      *)
StartAttemptNoRewind ==
    /\ cpc = "start"
    /\ attempt' = attempt + 1
    /\ uploaded' = <<>>
    /\ wpc' = "perform"
    /\ srvStatus' = 0
    /\ srvLen' \in 0..MaxBody
    /\ served' = 0
    /\ infoSent' = FALSE
    /\ chan' = <<>>
    /\ rxAlive' = TRUE
    /\ cpc' = "await_info"
    /\ UNCHANGED <<post, credsFilled, results, wresult, cursorBuf, cursorPos,
                   delivered, bodyPos>>

(* execute_once(): new channel, spawn the worker, which rewinds the body  *)
(* to 0 (a previous attempt may have consumed part of it) before curl     *)
(* starts; the server picks the length of its answer.                     *)
StartAttempt ==
    /\ cpc = "start"
    /\ attempt' = attempt + 1
    /\ bodyPos' = 0
    /\ uploaded' = <<>>
    /\ wpc' = "perform"
    /\ srvStatus' = 0
    /\ srvLen' \in 0..MaxBody
    /\ served' = 0
    /\ infoSent' = FALSE
    /\ chan' = <<>>
    /\ rxAlive' = TRUE
    /\ cpc' = "await_info"
    /\ UNCHANGED <<post, credsFilled, results, wresult, cursorBuf, cursorPos,
                   delivered>>

(* read_from_read(): curl pulls up to MaxChunk bytes of the POST body     *)
(* from wherever the body's cursor is.                                    *)
WorkerUpload ==
    /\ wpc = "perform" /\ post /\ srvStatus = 0
    /\ bodyPos < UploadLen
    /\ \E k \in 1..MaxChunk :
         LET n == Least(k, UploadLen - bodyPos)
         IN /\ uploaded' = uploaded \o [i \in 1..n |-> bodyPos + i - 1]
            /\ bodyPos' = bodyPos + n
    /\ UNCHANGED <<post, credsFilled, attempt, results, wpc, wresult, srvStatus,
                   srvLen, served, infoSent, chan, rxAlive, cpc, cursorBuf,
                   cursorPos, delivered>>

(* The server answers.  It only accepts a POST once it has read the       *)
(* Content-Length bytes; an error status may come early.                  *)
ServerRespond ==
    /\ wpc = "perform" /\ srvStatus = 0
    /\ \E s \in Statuses :
         /\ s < 300 /\ post => Len(uploaded) = UploadLen
         /\ srvStatus' = s
    /\ UNCHANGED <<post, credsFilled, attempt, results, bodyPos, uploaded, wpc,
                   wresult, srvLen, served, infoSent, chan, rxAlive, cpc,
                   cursorBuf, cursorPos, delivered>>

(* http_request_execute(), the curl write callback, while the receiver is *)
(* alive: send the info if not yet sent, then the chunk.                  *)
WorkerWrite ==
    /\ wpc = "perform" /\ srvStatus # 0 /\ served < srvLen
    /\ rxAlive
    /\ \E k \in 1..MaxChunk :
         LET n == Least(k, srvLen - served)
         IN /\ chan' = Append(SendInfo(chan), DataMsg(Span(served, n)))
            /\ served' = served + n
    /\ infoSent' = TRUE
    /\ UNCHANGED <<post, credsFilled, attempt, results, bodyPos, uploaded, wpc,
                   wresult, srvStatus, srvLen, rxAlive, cpc, cursorBuf,
                   cursorPos, delivered>>

(* The same callback once the response was dropped: send() fails, the     *)
(* callback returns 0 and curl aborts the transfer with a write error.    *)
WorkerWriteRefused ==
    /\ wpc = "perform" /\ srvStatus # 0 /\ served < srvLen
    /\ ~rxAlive
    /\ wpc' = IF infoSent THEN "performed" ELSE "panicked"
    /\ wresult' = "ERROR"
    /\ UNCHANGED <<post, credsFilled, attempt, results, bodyPos, uploaded,
                   srvStatus, srvLen, served, infoSent, chan, rxAlive, cpc,
                   cursorBuf, cursorPos, delivered>>

(* curl_easy_perform returns after the whole answer was received.         *)
CurlComplete ==
    /\ wpc = "perform" /\ srvStatus # 0 /\ served = srvLen
    /\ wpc' = "performed"
    /\ wresult' = HandleCurlResult(srvStatus)
    /\ UNCHANGED <<post, credsFilled, attempt, results, bodyPos, uploaded,
                   srvStatus, srvLen, served, infoSent, chan, rxAlive, cpc,
                   cursorBuf, cursorPos, delivered>>

(* The connection fails before an answer or in the middle of the body.    *)
CurlFail ==
    /\ wpc = "perform" /\ (srvStatus = 0 \/ served < srvLen)
    /\ wpc' = "performed"
    /\ wresult' = "ERROR"
    /\ UNCHANGED <<post, credsFilled, attempt, results, bodyPos, uploaded,
                   srvStatus, srvLen, served, infoSent, chan, rxAlive, cpc,
                   cursorBuf, cursorPos, delivered>>

(* Variant of WorkerExit without the http_send_info() after run_one_slot(). *)
WorkerExitWithoutInfo ==
    /\ wpc = "performed"
    /\ wpc' = "exited"
    /\ results' = Append(results, wresult)
    /\ UNCHANGED <<post, credsFilled, attempt, bodyPos, uploaded, wresult,
                   srvStatus, srvLen, served, rxAlive, cpc, cursorBuf,
                   cursorPos, delivered, chan, infoSent>>

(* After run_one_slot(): http_send_info() for an answer without body,     *)
(* then the thread returns Ok or Err(result) and its Sender is dropped.   *)
WorkerExit ==
    /\ wpc = "performed"
    /\ IF ~infoSent /\ ~rxAlive
         THEN /\ wpc' = "panicked" /\ UNCHANGED <<chan, infoSent, results>>
         ELSE /\ wpc' = "exited"
              /\ chan' = SendInfo(chan)
              /\ infoSent' = TRUE
              /\ results' = Append(results, wresult)
    /\ UNCHANGED <<post, credsFilled, attempt, bodyPos, uploaded, wresult,
                   srvStatus, srvLen, served, rxAlive, cpc, cursorBuf,
                   cursorPos, delivered>>

-----------------------------------------------------------------------------
(* Variant of AwaitInfo that takes any status below 400 as a success.    *)
AwaitInfoAcceptingBelow400 ==
    /\ cpc = "await_info"
    /\ chan # <<>> \/ wpc \in {"exited", "panicked"}
    /\ IF chan = <<>>
         THEN cpc' = "draining" /\ UNCHANGED chan
         ELSE /\ chan' = Tail(chan)
              /\ cpc' = CASE Head(chan).kind = "data"  -> "panicked"
                          [] Head(chan).status < 400  -> "reading"
                          [] OTHER                    -> "draining"
    /\ UNCHANGED <<post, credsFilled, attempt, results, bodyPos, uploaded, wpc,
                   wresult, srvStatus, srvLen, served, infoSent, rxAlive,
                   cursorBuf, cursorPos, delivered>>

(* execute_once(), receiver.recv() of the first message.  A status < 300  *)
(* gives Ok(HttpResponse); a first data message is unreachable!(); any    *)
(* other status, or a closed channel, goes to the draining branch.        *)
AwaitInfo ==
    /\ cpc = "await_info"
    /\ chan # <<>> \/ wpc \in {"exited", "panicked"}
    /\ IF chan = <<>>
         THEN cpc' = "draining" /\ UNCHANGED chan
         ELSE /\ chan' = Tail(chan)
              /\ cpc' = CASE Head(chan).kind = "data"  -> "panicked"
                          [] Head(chan).status < 300  -> "reading"
                          [] OTHER                    -> "draining"
    /\ UNCHANGED <<post, credsFilled, attempt, results, bodyPos, uploaded, wpc,
                   wresult, srvStatus, srvLen, served, infoSent, rxAlive,
                   cursorBuf, cursorPos, delivered>>

(* while receiver.recv().is_ok() {}                                       *)
DrainMessage ==
    /\ cpc = "draining" /\ chan # <<>>
    /\ chan' = Tail(chan)
    /\ UNCHANGED <<post, credsFilled, attempt, results, bodyPos, uploaded, wpc,
                   wresult, srvStatus, srvLen, served, infoSent, rxAlive, cpc,
                   cursorBuf, cursorPos, delivered>>

(* The channel is closed: drop the receiver and join.  An Ok thread is    *)
(* unreachable!(); an Err is retried by execute() once, after             *)
(* credential_fill, when it is the first attempt's HTTP_REAUTH, and       *)
(* otherwise dies with "unable to access".                                *)
DrainEnd ==
    /\ cpc = "draining" /\ chan = <<>> /\ wpc \in {"exited", "panicked"}
    /\ rxAlive' = FALSE
    /\ CASE wpc = "panicked"                        -> cpc' = "panicked"
                                                       /\ UNCHANGED credsFilled
         [] wresult = "OK"                          -> cpc' = "panicked"
                                                       /\ UNCHANGED credsFilled
         [] wresult = "REAUTH" /\ attempt = 1       -> cpc' = "start"
                                                       /\ credsFilled' = TRUE
         [] OTHER                                   -> cpc' = "died"
                                                       /\ UNCHANGED credsFilled
    /\ UNCHANGED <<post, attempt, results, bodyPos, uploaded, wpc, wresult,
                   srvStatus, srvLen, served, infoSent, chan, cursorBuf,
                   cursorPos, delivered>>

(* Variant of Read that swaps the next chunk into the cursor without      *)
(* set_position(0), so it goes on reading at the old position.            *)
ReadWithoutRewind ==
    /\ cpc = "reading"
    /\ \E b \in 1..MaxRead :
         LET left == Len(cursorBuf) - cursorPos
         IN IF left > 0
              THEN LET n == Least(b, left)
                   IN /\ delivered' = delivered \o SubSeq(cursorBuf, cursorPos + 1, cursorPos + n)
                      /\ cursorPos' = cursorPos + n
                      /\ UNCHANGED <<chan, cursorBuf, cpc>>
            ELSE IF chan # <<>> /\ Head(chan).kind = "data"
              THEN LET d == Head(chan).data
                       n == IF cursorPos < Len(d) THEN Least(b, Len(d) - cursorPos) ELSE 0
                   IN /\ chan' = Tail(chan)
                      /\ cursorBuf' = d
                      /\ cursorPos' = cursorPos + n
                      /\ delivered' = delivered \o SubSeq(d, cursorPos + 1, cursorPos + n)
                      /\ cpc' = IF n = 0 THEN "eof" ELSE cpc
            ELSE /\ chan = <<>> /\ wpc \in {"exited", "panicked"}
                 /\ cpc' = "eof"
                 /\ UNCHANGED <<chan, cursorBuf, cursorPos, delivered>>
    /\ UNCHANGED <<post, credsFilled, attempt, results, bodyPos, uploaded, wpc,
                   wresult, srvStatus, srvLen, served, infoSent, rxAlive>>

(* Variant of Read that moves the cursor by the size of the caller's      *)
(* buffer instead of by the bytes it copied.                              *)
ReadAdvancingByRequest ==
    /\ cpc = "reading"
    /\ \E b \in 1..MaxRead :
         LET left == Len(cursorBuf) - cursorPos
         IN IF left > 0
              THEN /\ delivered' = delivered \o SubSeq(cursorBuf, cursorPos + 1, cursorPos + Least(b, left))
                   /\ cursorPos' = cursorPos + b
                   /\ UNCHANGED <<chan, cursorBuf, cpc>>
            ELSE IF chan # <<>>
              THEN IF Head(chan).kind = "info"
                     THEN cpc' = "panicked" /\ chan' = Tail(chan)
                          /\ UNCHANGED <<cursorBuf, cursorPos, delivered>>
                     ELSE LET d == Head(chan).data
                          IN /\ chan' = Tail(chan)
                             /\ cursorBuf' = d
                             /\ cursorPos' = b
                             /\ delivered' = delivered \o SubSeq(d, 1, Least(b, Len(d)))
                             /\ UNCHANGED cpc
            ELSE /\ wpc \in {"exited", "panicked"}
                 /\ cpc' = "eof"
                 /\ UNCHANGED <<chan, cursorBuf, cursorPos, delivered>>
    /\ UNCHANGED <<post, credsFilled, attempt, results, bodyPos, uploaded, wpc,
                   wresult, srvStatus, srvLen, served, infoSent, rxAlive>>

(* HttpResponse::read(buf): take what is left in the cursor; when it is   *)
(* empty, recv() the next chunk into it and read from position 0, or      *)
(* return Ok(0) once the channel is closed.                               *)
Read ==
    /\ cpc = "reading"
    /\ \E b \in 1..MaxRead :
         LET left == Len(cursorBuf) - cursorPos
         IN IF left > 0
              THEN LET n == Least(b, left)
                   IN /\ delivered' = delivered \o SubSeq(cursorBuf, cursorPos + 1, cursorPos + n)
                      /\ cursorPos' = cursorPos + n
                      /\ UNCHANGED <<chan, cursorBuf, cpc>>
            ELSE IF chan # <<>>
              THEN IF Head(chan).kind = "info"
                     THEN cpc' = "panicked" /\ chan' = Tail(chan)
                          /\ UNCHANGED <<cursorBuf, cursorPos, delivered>>
                     ELSE LET d == Head(chan).data
                              n == Least(b, Len(d))
                          IN /\ chan' = Tail(chan)
                             /\ cursorBuf' = d
                             /\ cursorPos' = n
                             /\ delivered' = delivered \o SubSeq(d, 1, n)
                             /\ UNCHANGED cpc
            ELSE /\ wpc \in {"exited", "panicked"}
                 /\ cpc' = "eof"
                 /\ UNCHANGED <<chan, cursorBuf, cursorPos, delivered>>
    /\ UNCHANGED <<post, credsFilled, attempt, results, bodyPos, uploaded, wpc,
                   wresult, srvStatus, srvLen, served, infoSent, rxAlive>>

(* Drop for HttpResponse, at any point of the reading: drop the receiver  *)
(* (queued chunks go with it) ...                                         *)
DropResponse ==
    /\ cpc \in {"reading", "eof"}
    /\ rxAlive' = FALSE
    /\ chan' = <<>>
    /\ cpc' = "joining"
    /\ UNCHANGED <<post, credsFilled, attempt, results, bodyPos, uploaded, wpc,
                   wresult, srvStatus, srvLen, served, infoSent, cursorBuf,
                   cursorPos, delivered>>

(* ... then join the worker, ignoring its result; join().unwrap() panics  *)
(* if the worker did.                                                     *)
JoinResponse ==
    /\ cpc = "joining" /\ wpc \in {"exited", "panicked"}
    /\ cpc' = IF wpc = "panicked" THEN "panicked" ELSE "done"
    /\ UNCHANGED <<post, credsFilled, attempt, results, bodyPos, uploaded, wpc,
                   wresult, srvStatus, srvLen, served, infoSent, chan, rxAlive,
                   cursorBuf, cursorPos, delivered>>

Terminated == cpc \in {"done", "died", "panicked"}

(* The execute() call and the use of its response are over.               *)
Finished == Terminated /\ UNCHANGED vars

Worker == WorkerUpload \/ WorkerWrite \/ WorkerWriteRefused \/ CurlComplete
            \/ CurlFail \/ WorkerExit
Caller == StartAttempt \/ AwaitInfo \/ DrainMessage \/ DrainEnd \/ Read
            \/ DropResponse \/ JoinResponse

Next == Worker \/ ServerRespond \/ Caller \/ Finished

Spec == Init /\ [][Next]_vars

-----------------------------------------------------------------------------
TypeOK ==
    /\ post \in BOOLEAN /\ credsFilled \in BOOLEAN
    /\ attempt \in 0..2
    /\ results \in Seq(Results)
    /\ bodyPos \in 0..UploadLen
    /\ uploaded \in Seq(0..UploadLen)
    /\ wpc \in {"perform", "performed", "exited", "panicked"}
    /\ wresult \in Results
    /\ srvStatus \in Statuses \cup {0}
    /\ srvLen \in 0..MaxBody /\ served \in 0..srvLen
    /\ infoSent \in BOOLEAN
    /\ chan \in Seq(Messages)
    /\ rxAlive \in BOOLEAN
    /\ cpc \in {"start", "await_info", "draining", "reading", "eof", "joining",
                "done", "died", "panicked"}
    /\ cursorBuf \in BoundedSeq(Bytes, MaxChunk)
    /\ cursorPos \in 0..Len(cursorBuf)
    /\ delivered \in Seq(Bytes)

(* The reader of an HttpResponse gets the body without loss, duplication  *)
(* or reordering: what read() returned is always a prefix of the body.    *)
(* This is about HttpResponse::read, which refills its Cursor only when it *)
(* is exhausted and rewinds it to 0 after swapping the chunk in.          *)
BodyIntact == delivered = Span(0, Len(delivered))

(* Every attempt uploads the POST body from its first byte: the bytes     *)
(* curl read in the current attempt are a prefix of the body.  This is    *)
(* about the seek to 0 in the worker, which a retry after a 401 that      *)
(* came in the middle of the upload depends on.                           *)
RetryResendsWholeBody == uploaded = [i \in 1..Len(uploaded) |-> i - 1]

(* The unreachable!() arms of execute_once() and read(), and the unwrap() *)
(* of the info send, are indeed unreachable: the info precedes every      *)
(* chunk, is sent once, always reaches a live receiver, and a transfer    *)
(* that git reports as HTTP_OK never carries a status >= 300.             *)
NoUnreachablePanic == cpc # "panicked" /\ wpc # "panicked"

(* A reader that reaches the end of the body of the response execute()    *)
(* returned has been given a transfer that succeeded.  Section 4.A of the *)
(* spec: transport failures other than Reauth abort with a fatal error.   *)
EofMeansComplete == cpc = "eof" => wresult = "OK"


-----------------------------------------------------------------------------
(* Refinement mapping to HttpTransport.  The caller's phases collapse to  *)
(* the interface's: every attempt and the draining of a refused one are   *)
(* "requesting"; the response exists from the info with status < 300 on,  *)
(* with the status of that info and the body the server chose for that   *)
(* attempt.  A panic of the caller maps to the process dying.             *)
TransportPhase ==
    CASE cpc \in {"start", "await_info", "draining"} -> "requesting"
      [] cpc = "reading"                           -> "streaming"
      [] cpc = "eof"                               -> "ended"
      [] cpc \in {"joining", "done"}               -> "closed"
      [] cpc \in {"died", "panicked"}              -> "died"

HasResponse == TransportPhase \in {"streaming", "ended", "closed"}

Transport == INSTANCE HttpTransport WITH
    phase  <- TransportPhase,
    status <- IF HasResponse THEN srvStatus ELSE 0,
    body   <- IF HasResponse THEN Span(0, srvLen) ELSE <<>>,
    got    <- delivered

(* execute() and its HttpResponse implement the transport interface: a    *)
(* response only for a status below 300, then the server's body in order  *)
(* from its first byte, nothing after end of stream or drop.  This is     *)
(* about the whole of execute_once/execute, read and drop together.       *)
TransportRefinement == Transport!Spec

=============================================================================
