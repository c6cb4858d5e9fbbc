------------------------- MODULE MCHgHttpConnection -------------------------
(* Model-checking instance of HgHttpConnection.                            *)
EXTENDS HgHttpConnection

CONSTANTS h1, h2, h3

\* Three hosts give redirect chains of two hops, loops of one and two
\* hosts, and a repository reachable only through another host.
MCHosts == {h1, h2, h3}
MCStart == h1
\* All three values of http_follow_config.
MCModes == {"never", "initial", "always"}
\* git's http.c sets CURLOPT_MAXREDIRS to 20.
MCMaxRedirs == 20
\* Two commands after connecting: a GET and a POST, in either order.
MCMaxCommands == 2
=============================================================================
