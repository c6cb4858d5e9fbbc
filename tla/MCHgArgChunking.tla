-------------------------- MODULE MCHgArgChunking --------------------------
(* Model-checking instances of HgArgChunking.                              *)
EXTENDS HgArgChunking

\* 2^30 - 1: larger than any argument length below, and still a TLC integer.
MCUsizeMax == 1073741823
MCBuilds == {"debug", "release"}

\* A budget B leaves B - len("X-HgArg-N") - 2 bytes per header: 13 leaves 2
\* bytes for X-HgArg-1..9, 1 for X-HgArg-10..99 and none from X-HgArg-100
\* on, so it carries at most 9*2 + 90*1 = 108 bytes; 14 carries at most
\* 9*3 + 90*2 + 900*1 = 1107.  Each budget is tried with every length up to
\* 24 and with lengths at its limit, where the headers reach X-HgArg-10,
\* X-HgArg-100 and (for 14) X-HgArg-999.  32 is the budget of the spec's
\* S1 scenario, tried past X-HgArg-100 (9*21 + 90*20 = 1989 bytes); 0 is
\* a server without httpheader.
MCBudgets == {0, 13, 14, 32}
MCArgLens(b) ==
    (0..24) \cup CASE b = 13 -> {107, 108}
                   [] b = 14 -> {108, 109, 1106, 1107}
                   [] b = 32 -> {1989, 1990, 2000}
                   [] OTHER  -> {}

\* Every budget fails for a long enough argument string, because the header
\* name grows with its number.  Below 11 the first subtraction already
\* underflows, 11 leaves 0 bytes for X-HgArg-1..9 and 12 from X-HgArg-10
\* on: these get 22, the length of S1's "heads=ffff&common=0000".  13 and
\* 14 get one byte more than they carry: 109 bytes reach X-HgArg-1000 with
\* 13, 1108 bytes reach X-HgArg-10000 with 14.
MCUnsafeBudgets == {10, 11, 12, 13, 14}
MCUnsafeArgLens(b) == CASE b = 13 -> {109}
                        [] b = 14 -> {1108}
                        [] OTHER  -> {22}
=============================================================================
