-------------------------- MODULE HgHttpConnection --------------------------
(***************************************************************************)
(* A session of HgHttpConnection (src/helper/hg_connect_http.rs): the      *)
(* capabilities request of get_http_connection, then wire commands, each   *)
(* through HttpClient::request, HttpRequest::execute and handle_redirect.  *)
(*                                                                         *)
(* One execute_once() is one step here; HttpExecute models its inside and  *)
(* shows it implements HttpTransport.  What matters at this level is where *)
(* a request goes: its base URL, whether curl follows redirects           *)
(* (http_follow_config and the client's initial_request flag; a POST never *)
(* follows), and what the server does at each host: redirect elsewhere,    *)
(* ask for credentials, or answer.  URLs are abstracted to their host:     *)
(* handle_redirect drops the query, and every command adds its own.        *)
(***************************************************************************)
EXTENDS Naturals, FiniteSets, Graphs

CONSTANTS
    Hosts,        \* the hosts URLs can point to
    Start,        \* host of the URL the helper was given
    NoHost,       \* "no redirect" / "redirects exhausted"
    NoReq,        \* no request in flight
    Modes,        \* values of http_follow_config to check
    MaxRedirs,    \* curl's CURLOPT_MAXREDIRS as git sets it
    MaxCommands   \* bound on the wire commands of a session

ASSUME /\ Start \in Hosts /\ NoHost \notin Hosts
       /\ Modes \subseteq {"never", "initial", "always"}
       /\ MaxRedirs \in Nat /\ MaxCommands \in Nat

\* The commands, by the code path that builds their request.
Commands == {"capabilities", "simple", "pushkey", "changegroup", "push"}

VARIABLES
    target,       \* server: target[h] is where h redirects to, or NoHost
    protected,    \* server: hosts that answer 401 without credentials
    credsGood,    \* the credentials credential_fill() obtains are accepted
    servesBundle, \* the repository URL serves a bundle file, not a repo
    mode,         \* http_follow_config
    initialRequest, \* HttpClient.initial_request
    url,          \* HgHttpConnection.url
    credsFilled,  \* http_auth has a username and password
    req,          \* request in flight: [cmd, post, follow, attempt], or NoReq
    conn,         \* "connecting", "wire", "bundle", "died"
    done          \* wire commands completed

server == <<target, protected, credsGood, servesBundle>>
vars == <<target, protected, credsGood, servesBundle, mode, initialRequest,
          url, credsFilled, req, conn, done>>

-----------------------------------------------------------------------------
(* curl following Location headers from host h, at most n times: the host *)
(* that answers, or NoHost when the redirects run out.                    *)
RECURSIVE Walk(_, _)
Walk(h, n) ==
    IF target[h] = NoHost THEN h
    ELSE IF n = 0 THEN NoHost
    ELSE Walk(target[h], n - 1)

(* Where curl ends for a request to h: FOLLOWLOCATION is 1 only for a GET *)
(* with follow_redirects; otherwise the host's own answer, a 302 when it  *)
(* redirects (NoHost).                                                    *)
AnsweringHost(h, r) ==
    IF r.follow /\ ~r.post THEN Walk(h, MaxRedirs)
    ELSE IF target[h] = NoHost THEN h ELSE NoHost

(* HttpClient::request(): follow redirects on the first request of the    *)
(* client under "initial", on every request under "always".               *)
FollowsRedirects == \/ mode = "initial" /\ initialRequest
                    \/ mode = "always"

(* handle_curl_result() of the attempt: HTTP_OK, HTTP_REAUTH, or an error *)
(* (a 302 not followed, too many redirects, HTTP_NOAUTH).                 *)
Outcome(r) ==
    LET f == AnsweringHost(url, r)
    IN CASE f = NoHost                                  -> "ERROR"
         [] f \notin protected                          -> "OK"
         [] ~credsFilled                                -> "REAUTH"
         [] credsGood                                   -> "OK"
         [] OTHER                                       -> "ERROR"

(* The capabilities answer starts with HG10/HG20 when the URL is a bundle. *)
ConnectionKind == IF servesBundle THEN "bundle" ELSE "wire"

NewRequest(c, post) ==
    [cmd |-> c, post |-> post, follow |-> FollowsRedirects, attempt |-> 1]

-----------------------------------------------------------------------------
Init ==
    /\ target \in [Hosts -> Hosts \cup {NoHost}]
    /\ protected \in SUBSET Hosts
    /\ credsGood \in BOOLEAN
    /\ servesBundle \in BOOLEAN
    /\ mode \in Modes
    /\ initialRequest = TRUE
    /\ url = Start
    /\ credsFilled = FALSE
    /\ req = NoReq
    /\ conn = "connecting"
    /\ done = 0

(* Issuing request r: client.request() consumes the initial flag.         *)
Issue(r) ==
    /\ req' = r
    /\ initialRequest' = FALSE
    /\ UNCHANGED <<server, mode, url, credsFilled, conn, done>>

(* get_http_connection(): the "capabilities" GET.                         *)
Connect ==
    /\ conn = "connecting" /\ req = NoReq
    /\ Issue(NewRequest("capabilities", FALSE))

(* simple_command(): a GET, or a POST with an empty body for pushkey.     *)
SimpleCommand ==
    /\ conn = "wire" /\ req = NoReq /\ done < MaxCommands
    /\ \E c \in {"simple", "pushkey"} : Issue(NewRequest(c, c = "pushkey"))

(* changegroup_command(): a GET.                                          *)
ChangegroupCommand ==
    /\ conn = "wire" /\ req = NoReq /\ done < MaxCommands
    /\ Issue(NewRequest("changegroup", FALSE))

(* push_command(): a POST of the bundle.                                  *)
PushCommand ==
    /\ conn = "wire" /\ req = NoReq /\ done < MaxCommands
    /\ Issue(NewRequest("push", TRUE))

(* Variant of ExecuteOk that leaves the base URL alone.                   *)
ExecuteOkWithoutRedirect ==
    /\ req # NoReq /\ Outcome(req) = "OK"
    /\ req' = NoReq
    /\ IF req.cmd = "capabilities"
         THEN conn' = ConnectionKind /\ UNCHANGED done
         ELSE done' = done + 1 /\ UNCHANGED conn
    /\ UNCHANGED <<server, mode, initialRequest, credsFilled, url>>

(* execute() returns a response; the caller calls handle_redirect(),      *)
(* which moves the base URL to where curl ended when it followed any      *)
(* redirect.  The capabilities answer then decides the connection kind.   *)
ExecuteOk ==
    /\ req # NoReq /\ Outcome(req) = "OK"
    /\ url' = AnsweringHost(url, req)
    /\ req' = NoReq
    /\ IF req.cmd = "capabilities"
         THEN conn' = ConnectionKind /\ UNCHANGED done
         ELSE done' = done + 1 /\ UNCHANGED conn
    /\ UNCHANGED <<server, mode, initialRequest, credsFilled>>

(* Variant of ExecuteReauth that builds the retry through client.request() *)
(* again instead of reusing the HttpRequest.                              *)
ExecuteReauthFreshRequest ==
    /\ req # NoReq /\ Outcome(req) = "REAUTH" /\ req.attempt = 1
    /\ credsFilled' = TRUE
    /\ req' = [NewRequest(req.cmd, req.post) EXCEPT !.attempt = 2]
    /\ UNCHANGED <<server, mode, initialRequest, url, conn, done>>

(* Variant of ExecuteReauth that retries after any failure.              *)
ExecuteReauthAnyError ==
    /\ req # NoReq /\ Outcome(req) # "OK"
    /\ credsFilled' = TRUE
    /\ req' = [req EXCEPT !.attempt = req.attempt + 1]
    /\ UNCHANGED <<server, mode, initialRequest, url, conn, done>>

(* The first attempt got HTTP_REAUTH: credential_fill(), then the same    *)
(* HttpRequest is executed again.                                         *)
ExecuteReauth ==
    /\ req # NoReq /\ Outcome(req) = "REAUTH" /\ req.attempt = 1
    /\ credsFilled' = TRUE
    /\ req' = [req EXCEPT !.attempt = 2]
    /\ UNCHANGED <<server, mode, initialRequest, url, conn, done>>

(* Any other failure: die!("unable to access ...").                       *)
ExecuteFail ==
    /\ req # NoReq
    /\ Outcome(req) # "OK"
    /\ ~(Outcome(req) = "REAUTH" /\ req.attempt = 1)
    /\ conn' = "died"
    /\ req' = NoReq
    /\ UNCHANGED <<server, mode, initialRequest, url, credsFilled, done>>

(* The session is over: a bundle is being streamed, the helper died, or   *)
(* the bound on commands is reached.                                      *)
Finished ==
    /\ req = NoReq
    /\ conn \in {"bundle", "died"} \/ done = MaxCommands
    /\ UNCHANGED vars

Next == \/ Connect \/ SimpleCommand \/ ChangegroupCommand \/ PushCommand
        \/ ExecuteOk \/ ExecuteReauth \/ ExecuteFail
        \/ Finished

Spec == Init /\ [][Next]_vars

-----------------------------------------------------------------------------
TypeOK ==
    /\ target \in [Hosts -> Hosts \cup {NoHost}]
    /\ protected \subseteq Hosts /\ credsGood \in BOOLEAN
    /\ servesBundle \in BOOLEAN /\ mode \in Modes
    /\ initialRequest \in BOOLEAN /\ url \in Hosts /\ credsFilled \in BOOLEAN
    /\ req \in {NoReq} \cup [cmd : Commands, post : BOOLEAN, follow : BOOLEAN,
                             attempt : 1..2]
    /\ conn \in {"connecting", "wire", "bundle", "died"}
    /\ done \in 0..MaxCommands

(* Where the repository really is, from the server's redirects alone: the *)
(* hosts reachable from Start that do not redirect (none if they loop).   *)
RedirectGraph ==
    [node |-> Hosts,
     edge |-> {<<h, target[h]>> : h \in {x \in Hosts : target[x] # NoHost}}]
RepoHosts ==
    {f \in {Start} \cup Descendants(RedirectGraph, Start) : target[f] = NoHost}

(* The server makes the session impossible: its redirects loop, the       *)
(* policy forbids following the one at the given URL, or the repository   *)
(* wants credentials that are refused.                                    *)
Unreachable ==
    \/ RepoHosts = {}
    \/ mode = "never" /\ target[Start] # NoHost
    \/ \E f \in RepoHosts : f \in protected /\ ~credsGood

(* The helper dies only when the server leaves no way through (spec 4.B,  *)
(* 6 and the "redirect immediately followed by reauth" boundary): with    *)
(* follow=initial, the capabilities request that is redirected and then   *)
(* challenged is retried as the same request, still following, and every  *)
(* later request, POSTs that never follow included, reaches the           *)
(* repository.  This is about execute()'s retry and handle_redirect.      *)
ConnectionSurvives == conn = "died" => Unreachable

(* Once connected, the base URL is the repository's own location, where   *)
(* no further redirect happens (handle_redirect after the capabilities     *)
(* request).                                                               *)
BaseIsRepository == conn \in {"wire", "bundle"} => url \in RepoHosts

=============================================================================
