------------------------- MODULE MCServerConnection -------------------------
(***************************************************************************)
(* Inputs of ServerConnection for TLC: the server's root as written, the  *)
(* names a client may send, and the lines it appends.                      *)
(***************************************************************************)
EXTENDS ServerConnection

\* The lines the configurations append: one byte, the other, both.
MCLines == {<<"a">>, <<"b">>, <<"a", "b">>}

\* root_dir: plain, absolute, nested, with "." and ".." inside, the
\* working directory, and with a trailing separator.
MCRootDirs == {<<"a">>, <<"/", "a">>, <<"/">>, <<"a", "/", "a">>,
               <<".", "/", "a">>, <<"a", "/", ".", ".", "/", "a">>,
               <<".">>, <<"a", "/">>}

\* Every name of up to two characters over {b, ., /}, and longer
\* traversals: out of the root and back, out and into a sibling, down.
MCNames == BoundedSeq({"b", ".", "/"}, 2) \cup
           {<<".", ".", "/", "b">>, <<".", ".", "/", "a", "/", "b">>,
            <<".", ".", "/", "b", "/", "b">>, <<"b", "/", ".", ".", "/", "b">>,
            <<"b", "/", "b">>, <<"/", "a", "/", "b">>, <<".", "b">>}

MCFileName == <<"b">>
=============================================================================
