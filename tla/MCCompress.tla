----------------------------- MODULE MCCompress -----------------------------
(* Instances of Compress for TLC. *)
EXTENDS Compress

\* A block is three characters and a buffer two. Inputs end inside a block, at
\* its end and behind it, inline and not, shorter and longer than the file; a file
\* kept inline grows, and one block in the fork becomes one that is kept inline;
\* a death inside the last pair leaves a block of the old table that is too short.
MCInputs == {<<>>, <<"a">>, <<"b", "b">>, <<"b", "b", "b">>, <<"a", "a", "a", "b">>,
             <<"a", "a", "a", "a", "a", "b">>, <<"b", "b", "b", "b", "a", "b", "a">>}
MCInitial == {<<"b", "b">>, <<"a", "b">>, <<"a", "b", "a">>, <<"a", "b", "a", "b", "b">>, <<"b", "a", "b", "a", "a", "a">>,
              <<"a", "b", "a", "b", "b", "b", "b">>}
=============================================================================
