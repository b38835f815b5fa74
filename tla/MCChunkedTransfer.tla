-------------------------- MODULE MCChunkedTransfer --------------------------
(* Buckets whose data looks like sizes and line ends, of one and two digit  *)
(* sizes, and pieces of any input.                                          *)
EXTENDS ChunkedTransfer

MCBucket == {<<"x">>, <<"1", "LF">>, <<"LF", "0", "x">>}
MCInput == {<<a>> : a \in Char} \cup {<<a, b>> : a, b \in Char}
MCFollowing == <<"1", "CR", "LF">>
=============================================================================
