--------------------------- MODULE HgArgChunking ---------------------------
(***************************************************************************)
(* How HgHttpConnection::start_command_request (src/helper/               *)
(* hg_connect_http.rs) places command arguments: in the query string, or,  *)
(* when the server advertises httpheader=B with B > 0, form-urlencoded     *)
(* into one string that is cut into X-HgArg-1, X-HgArg-2, ... headers of   *)
(* at most B - len(name) - len(": ") bytes each.                           *)
(*                                                                         *)
(* The encoded string is abstracted to its length; a header is the name    *)
(* number and the bytes from..to it carries.  The subtraction is on        *)
(* usize: with overflow checks (debug builds) it panics when it would go   *)
(* below zero, without them (release builds) it wraps modulo 2^64.  Any    *)
(* modulus larger than every argument length gives the same result, so     *)
(* UsizeMax stands for 2^64 - 1.                                           *)
(***************************************************************************)
EXTENDS Naturals, Sequences

CONSTANTS
    Budgets,    \* httpheader values the server may advertise (0: absent)
    ArgLens(_), \* ArgLens(b): lengths of the form-urlencoded argument string
                \* tried with budget b
    UsizeMax,   \* largest usize value
    Builds      \* "debug" (overflow checks) and/or "release" (wrapping)

ASSUME /\ Budgets \subseteq Nat
       /\ \A b \in Budgets : \A l \in ArgLens(b) : l \in Nat /\ l < UsizeMax
       /\ Builds \subseteq {"debug", "release"}

VARIABLES
    build,      \* how the helper was compiled
    budget,     \* the httpheader capability, 0 when absent or not a number
    argLen,     \* length of the encoded arguments
    sent,       \* bytes of it already placed in headers
    num,        \* number of the next X-HgArg header
    headers,    \* the X-HgArg headers: [num, from, to]
    pc          \* "split", "headers", "query", "panicked"

vars == <<build, budget, argLen, sent, num, headers, pc>>

RECURSIVE Digits(_)
Digits(n) == IF n < 10 THEN 1 ELSE 1 + Digits(n \div 10)

(* len(format!("X-HgArg-{}", num)) *)
NameLen(n) == 8 + Digits(n)

(* a - b on usize in a release build *)
WrappingSub(a, b) == (a + (UsizeMax + 1) - b) % (UsizeMax + 1)

Least(a, b) == IF a < b THEN a ELSE b

HeaderLineLen(h) == NameLen(h.num) + 2 + (h.to - h.from)

-----------------------------------------------------------------------------
(* httpheader > 0 and some arguments: split them; otherwise each argument *)
(* is appended to the query string.                                        *)
Init ==
    /\ build \in Builds
    /\ budget \in Budgets
    /\ argLen \in ArgLens(budget)
    /\ sent = 0
    /\ num = 1
    /\ headers = <<>>
    /\ pc = IF budget > 0 /\ argLen > 0 THEN "split" ELSE "query"

(* Variant of SplitChunk whose room forgets the ": " separator.          *)
SplitChunkIgnoringSeparator ==
    /\ pc = "split" /\ sent < argLen
    /\ LET overflow == budget < NameLen(num)
           room == WrappingSub(budget, NameLen(num))
           n == Least(argLen - sent, room)
       IN IF overflow /\ build = "debug"
            THEN pc' = "panicked" /\ UNCHANGED <<sent, num, headers>>
            ELSE /\ headers' = Append(headers, [num |-> num, from |-> sent, to |-> sent + n])
                 /\ sent' = sent + n
                 /\ num' = num + 1
                 /\ UNCHANGED pc
    /\ UNCHANGED <<build, budget, argLen>>

(* Variant of SplitChunk that never advances the header number.          *)
SplitChunkSameName ==
    /\ pc = "split" /\ sent < argLen
    /\ LET overflow == budget < NameLen(num) + 2
           room == WrappingSub(budget, NameLen(num) + 2)
           n == Least(argLen - sent, room)
       IN IF overflow /\ build = "debug"
            THEN pc' = "panicked" /\ UNCHANGED <<sent, num, headers>>
            ELSE /\ headers' = Append(headers, [num |-> num, from |-> sent, to |-> sent + n])
                 /\ sent' = sent + n
                 /\ UNCHANGED <<pc, num>>
    /\ UNCHANGED <<build, budget, argLen>>

(* Variant of SplitChunk that cuts the whole room, not min(len, room).   *)
SplitChunkWithoutMin ==
    /\ pc = "split" /\ sent < argLen
    /\ LET overflow == budget < NameLen(num) + 2
           n == WrappingSub(budget, NameLen(num) + 2)
       IN IF overflow /\ build = "debug"
            THEN pc' = "panicked" /\ UNCHANGED <<sent, num, headers>>
            ELSE /\ headers' = Append(headers, [num |-> num, from |-> sent, to |-> sent + n])
                 /\ sent' = sent + n
                 /\ num' = num + 1
                 /\ UNCHANGED pc
    /\ UNCHANGED <<build, budget, argLen>>

(* One iteration of the while loop: name the header, cut                 *)
(* min(len, httpheader - name.len() - 2) bytes off the front.            *)
SplitChunk ==
    /\ pc = "split" /\ sent < argLen
    /\ LET overflow == budget < NameLen(num) + 2
           room == WrappingSub(budget, NameLen(num) + 2)
           n == Least(argLen - sent, room)
       IN IF overflow /\ build = "debug"
            THEN pc' = "panicked" /\ UNCHANGED <<sent, num, headers>>
            ELSE /\ headers' = Append(headers, [num |-> num, from |-> sent, to |-> sent + n])
                 /\ sent' = sent + n
                 /\ num' = num + 1
                 /\ UNCHANGED pc
    /\ UNCHANGED <<build, budget, argLen>>

(* The loop ends once the string is exhausted.                            *)
SplitDone ==
    /\ pc = "split" /\ sent = argLen
    /\ pc' = "headers"
    /\ UNCHANGED <<build, budget, argLen, sent, num, headers>>

Finished == pc \in {"headers", "query", "panicked"} /\ UNCHANGED vars

Next == SplitChunk \/ SplitDone \/ Finished

Spec == Init /\ [][Next]_vars

-----------------------------------------------------------------------------
TypeOK ==
    /\ build \in Builds /\ budget \in Budgets /\ argLen \in ArgLens(budget)
    /\ sent \in 0..argLen /\ num \in Nat \ {0}
    /\ headers \in Seq([num : Nat, from : Nat, to : Nat])
    /\ pc \in {"split", "headers", "query", "panicked"}

(* Spec 8.5: no "X-HgArg-N: value" header line is longer than the         *)
(* httpheader budget the server advertised.  This is about the room       *)
(* computed from the header name, whose length grows at X-HgArg-10.       *)
HeaderWithinBudget == \A i \in DOMAIN headers : HeaderLineLen(headers[i]) <= budget

(* Spec 8.5: the headers, joined in order, give back the whole argument   *)
(* string once the loop is over, and every header carries some of it.    *)
HeadersReassemble ==
    pc = "headers" =>
        /\ \A i \in DOMAIN headers :
             /\ headers[i].num = i
             /\ headers[i].from = (IF i = 1 THEN 0 ELSE headers[i - 1].to)
             /\ headers[i].from < headers[i].to
        /\ headers # <<>> /\ headers[Len(headers)].to = argLen

=============================================================================
