------------------------------ MODULE MCHgReply ------------------------------
EXTENDS HgReply

\* Codec names, shortened: "z" and "nn" stand for zstd/zlib/none/bzip2,
\* two names of different lengths so that the Take count matters.
MCCodecs == {<<"z">>, <<"n", "n">>}

MCCTypes == {"0.1", "0.2", "hg-error", "none"}

\* httpmediatype as Mercurial servers advertise it, with and without 0.2.
MCMediaTypes == {{"0.1rx", "0.1tx", "0.2tx"}, {"0.1rx", "0.1tx"}}

\* Bodies per command; every prefix of each is also received (a transfer
\* that stopped early), so shorter and broken replies are covered.
\*  - capabilities: a bundle2 and a bundle1 file, and a capabilities list;
\*  - push: a bundle2 reply, "0\nx\n" (stdout "0", stderr "x\n"), no LF;
\*  - changegroup: a 0.2 frame with each codec, with a name too short or
\*    too long for its length byte, and an empty name (the same bodies are
\*    also sent with the other content types).
MCBodies(c) ==
    CASE c = "capabilities" -> {HG20 \o <<"x">>, HG10, <<"x", "x", "x", "x", "x">>}
      [] c = "simple"       -> {<<"x", "x", "x", "x">>}
      [] c = "push"         -> {HG20 \o <<"x">>, <<"0", "\n", "x", "\n">>,
                                <<"x", "x">>}
      [] c = "changegroup"  -> {<<"<1>", "z", "x", "x">>, <<"<2>", "n", "n", "x">>,
                                <<"<1>", "n", "n">>, <<"<2>", "z", "x">>, <<"<0>", "x">>}

MCBufSize == 3

\* "<0>", "<1>", "<2>" are the bytes 0x00, 0x01, 0x02.  Any other byte of
\* these bodies is a printable character, whose value exceeds every body
\* length here, so 9 stands for all of them: a Take of 9 or of 72 bytes
\* yields the same.
MCByteValue(x) == CASE x = "<0>" -> 0 [] x = "<1>" -> 1 [] x = "<2>" -> 2
                    [] OTHER -> 9

=============================================================================
