---------------------------- MODULE HttpLifecycle ----------------------------
(***************************************************************************)
(* The life of git's HTTP state around the responses of                    *)
(* src/helper/hg_connect_http.rs: get_http_connection() calls http_init(), *)
(* every response has a worker thread running a curl slot of that state,   *)
(* and Drop for HgHttpConnection calls http_cleanup().  A response is      *)
(* dropped when its owner goes away: the end of get_http_connection or of  *)
(* a command (the reader holding it), or HgHttpBundle, whose fields Rust   *)
(* drops in declaration order.  Dropping a response drops its receiver     *)
(* and joins its worker; the worker only notices the drop in its write     *)
(* callback.                                                               *)
(*                                                                         *)
(* One response exists at a time (the commands take &mut self).  Bytes    *)
(* are abstracted to whether chunks wait in the channel; the server's      *)
(* answer is finite or an endless stream, chosen per transfer.  The inside *)
(* of execute() (status, retries, dying) is module HttpExecute.            *)
(***************************************************************************)
EXTENDS Naturals, Sequences, SequencesExt

CONSTANT MaxCommands   \* bound on the wire commands of a session

VARIABLES
    curl,      \* git's http state: "uninit", "inited", "cleaned"
    worker,    \* the current response's thread: "none", "perform",
               \* "exited", "joined"
    endless,   \* the server's answer to the current request never ends
    rx,        \* HttpResponse.receiver is alive
    queued,    \* chunks wait in the channel
    pc,        \* where the caller is
    drops,     \* drop steps still to run: "rx", "join", "cleanup"
    resume,    \* where the caller goes once they are run
    cmds       \* wire commands issued

vars == <<curl, worker, endless, rx, queued, pc, drops, resume, cmds>>

ReadingPcs == {"caps_copy", "cmd_read", "bundle_read"}

-----------------------------------------------------------------------------
(* What dropping each value runs: Drop for HttpResponse drops the         *)
(* receiver, then joins; Drop for HgHttpConnection calls http_cleanup();   *)
(* the header array has no drop.                                          *)
FieldDrop(f) ==
    CASE f = "http_resp" -> <<"rx", "join">>
      [] f = "conn"      -> <<"cleanup">>
      [] f = "header"    -> <<>>

\* Variant of BundleDropOrder with conn declared before http_resp.
BundleDropOrderConnFirst == <<"conn", "header", "http_resp">>

(* struct HgHttpBundle { header, http_resp, conn }: fields are dropped in *)
(* declaration order.                                                     *)
BundleDropOrder == <<"header", "http_resp", "conn">>

BundleDrops == FlattenSeq([i \in 1..3 |-> FieldDrop(BundleDropOrder[i])])

(* execute() returned a response: its worker is performing the transfer.  *)
Spawn ==
    /\ worker' = "perform" /\ rx' = TRUE /\ queued' = FALSE
    /\ endless' \in BOOLEAN

(* The caller's scope or object ends: run these drops, then go on at r.   *)
Drop(seq, r) == pc' = "dropping" /\ drops' = seq /\ resume' = r

-----------------------------------------------------------------------------
Init ==
    /\ curl = "uninit" /\ worker = "none" /\ endless = FALSE
    /\ rx = FALSE /\ queued = FALSE
    /\ pc = "start" /\ drops = <<>> /\ resume = "start" /\ cmds = 0

(* get_http_connection(): http_init(), then the capabilities request.     *)
Connect ==
    /\ pc = "start"
    /\ curl' = "inited" /\ Spawn
    /\ pc' = "caps_sniff"
    /\ UNCHANGED <<drops, resume, cmds>>

(* read_at_most(4) of the header: HG10/HG20 (which needs bytes) makes an  *)
(* HgHttpBundle owning conn and the response; anything else is copied as  *)
(* the capabilities.                                                      *)
Sniff ==
    /\ pc = "caps_sniff" /\ (queued \/ worker \in {"exited", "joined"})
    /\ queued' \in BOOLEAN
    /\ \/ queued /\ pc' = "bundle"
       \/ pc' = "caps_copy"
    /\ UNCHANGED <<curl, worker, endless, rx, drops, resume, cmds>>

(* HttpResponse::read() takes a chunk (some may remain).                  *)
ReadChunk ==
    /\ pc \in ReadingPcs /\ queued
    /\ queued' \in BOOLEAN
    /\ UNCHANGED <<curl, worker, endless, rx, pc, drops, resume, cmds>>

(* read() returns 0: the channel is empty and the worker has exited.  The *)
(* capabilities and command responses go out of scope; getbundle returns. *)
ReadEof ==
    /\ pc \in ReadingPcs /\ ~queued /\ worker = "exited"
    /\ IF pc = "bundle_read" THEN pc' = "bundle_done" /\ UNCHANGED <<drops, resume>>
       ELSE Drop(FieldDrop("http_resp"), "idle")
    /\ UNCHANGED <<curl, worker, endless, rx, queued, cmds>>

(* The reader stops before the end: a zlib, zstd or bzip2 decoder reaches *)
(* the end of its stream, and the reader holding the response is dropped. *)
StopEarly ==
    /\ pc \in {"cmd_read", "bundle_read"}
    /\ IF pc = "bundle_read" THEN pc' = "bundle_done" /\ UNCHANGED <<drops, resume>>
       ELSE Drop(FieldDrop("http_resp"), "idle")
    /\ UNCHANGED <<curl, worker, endless, rx, queued, cmds>>

(* simple_command, changegroup_command or push_command: execute().        *)
Command ==
    /\ pc = "idle" /\ cmds < MaxCommands
    /\ Spawn /\ cmds' = cmds + 1
    /\ pc' = "cmd_read"
    /\ UNCHANGED <<curl, drops, resume>>

(* The helper is done with the wire connection: Drop for HgHttpConnection. *)
CloseConnection ==
    /\ pc = "idle"
    /\ Drop(FieldDrop("conn"), "ended")
    /\ UNCHANGED <<curl, worker, endless, rx, queued, cmds>>

(* HgHttpBundle::getbundle: copy the header and the rest of the stream.   *)
GetBundle ==
    /\ pc = "bundle"
    /\ pc' = "bundle_read"
    /\ UNCHANGED <<curl, worker, endless, rx, queued, drops, resume, cmds>>

(* The HgHttpBundle is dropped, whether getbundle ran or not.             *)
DropBundle ==
    /\ pc \in {"bundle", "bundle_done"}
    /\ Drop(BundleDrops, "ended")
    /\ UNCHANGED <<curl, worker, endless, rx, queued, cmds>>

\* The next drop step is done.
Pop == /\ drops' = Tail(drops)
       /\ pc' = IF Tail(drops) = <<>> THEN resume ELSE pc

(* drop(self.receiver.take()): queued chunks go with it.                  *)
DropReceiver ==
    /\ pc = "dropping" /\ Head(drops) = "rx"
    /\ rx' = FALSE /\ queued' = FALSE /\ Pop
    /\ UNCHANGED <<curl, worker, endless, resume, cmds>>

(* thread.join(): blocks until the worker has returned.                   *)
Join ==
    /\ pc = "dropping" /\ Head(drops) = "join" /\ worker = "exited"
    /\ worker' = "joined" /\ Pop
    /\ UNCHANGED <<curl, endless, rx, queued, resume, cmds>>

(* http_cleanup().                                                        *)
Cleanup ==
    /\ pc = "dropping" /\ Head(drops) = "cleanup"
    /\ curl' = "cleaned" /\ Pop
    /\ UNCHANGED <<worker, endless, rx, queued, resume, cmds>>

-----------------------------------------------------------------------------
(* The worker's write callback with the receiver alive: send the chunk.   *)
WorkerWrite ==
    /\ worker = "perform" /\ rx
    /\ queued' = TRUE
    /\ UNCHANGED <<curl, worker, endless, rx, pc, drops, resume, cmds>>

\* Variant of WorkerWriteRefused that returns nmemb when send() fails.
WorkerWriteIgnoringDrop ==
    /\ worker = "perform" /\ ~rx
    /\ UNCHANGED vars

(* The write callback after the drop: send() fails, it returns 0, curl    *)
(* aborts, run_one_slot returns and the thread ends.                      *)
WorkerWriteRefused ==
    /\ worker = "perform" /\ ~rx
    /\ worker' = "exited"
    /\ UNCHANGED <<curl, endless, rx, queued, pc, drops, resume, cmds>>

(* A finite answer ends (or the transfer fails): the thread returns and   *)
(* its Sender is dropped, closing the channel.                            *)
CurlDone ==
    /\ worker = "perform" /\ ~endless
    /\ worker' = "exited"
    /\ UNCHANGED <<curl, endless, rx, queued, pc, drops, resume, cmds>>

Finished == pc = "ended" /\ UNCHANGED vars

Worker == WorkerWrite \/ WorkerWriteRefused \/ CurlDone
Dropping == DropReceiver \/ Join \/ Cleanup
Caller == Connect \/ Sniff \/ ReadChunk \/ ReadEof \/ StopEarly \/ Command
            \/ CloseConnection \/ GetBundle \/ DropBundle \/ Dropping

Next == Worker \/ Caller \/ Finished

(* The worker is an OS thread and the transport keeps calling the write   *)
(* callback or ends (spec 5: join does not block provided the transport   *)
(* honours the abort); a caller blocked in a drop runs once it can.       *)
Spec == Init /\ [][Next]_vars /\ WF_vars(Worker) /\ WF_vars(Dropping)

-----------------------------------------------------------------------------
(* git's HTTP state outlives every worker using it: http_cleanup() only    *)
(* runs once the response's thread has been joined.  This is about the    *)
(* field order of HgHttpBundle, whose response may still be streaming a   *)
(* bundle nobody read when it is dropped.                                 *)
CleanupAfterJoin == curl = "cleaned" => worker = "joined"

(* Dropping a response, a connection or a bundle always completes: the    *)
(* join returns because the worker's next write callback sees the closed  *)
(* channel and aborts, even when the server never stops sending.  This is *)
(* about http_request_execute's return 0 and Drop for HttpResponse.       *)
DropCompletes == pc = "dropping" ~> pc # "dropping"

=============================================================================
