--------------------------- MODULE MCDecodedText ---------------------------
(***************************************************************************)
(* A vocabulary for DecodedText that has the tags whole and in parts that  *)
(* meet inside a bracket or inside a name, and a word with its blank.  Of  *)
(* the filter's tags "th" stands for the first letters of the name and     *)
(* "ink" for the others.                                                   *)
(***************************************************************************)
EXTENDS DecodedTextProps

MCOpenTag == <<"<", "th", "ink", ">">>
MCCloseTag == <<"<", "/", "th", "ink", ">">>
MCTags == <<"exec", "result">>
MCAllowed == {<<"ls">>}
MCVocabulary ==
    {Open("exec"), Close("exec"), <<"<", "/", "exec">>, <<">", "<">>,
     <<"ls", " ">>, Open("result"), <<"<", "/">>, <<"result", ">">>, <<"<">>,
     MCOpenTag, <<"<", "th">>, <<"<", "/", "th">>, <<"ink", ">">>}
=============================================================================
