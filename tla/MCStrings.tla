------------------------------- MODULE MCStrings -------------------------------
(***************************************************************************)
(* Strings with characters for TLC.                                        *)
(***************************************************************************)
EXTENDS Strings

\* 'a', '/', a line feed; characters of two, three and four bytes; a byte that
\* continues no sequence and one whose sequence is not continued.
Characters == {<<97>>, <<47>>, <<10>>, <<195, 169>>, <<226, 130, 172>>,
               <<240, 159, 152, 128>>, <<169>>, <<195>>}

\* The strings the program makes: empty, long, and one that holds a quote.
Programs == {<<>>, <<97, 34>>, <<97, 97, 97, 97, 97>>}
=============================================================================
