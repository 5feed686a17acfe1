-------------------------------- MODULE MCSyntax --------------------------------
(***************************************************************************)
(* Scripts in three vocabularies: loops and what leaves them, the other    *)
(* constructs with their parts, and names.                                 *)
(***************************************************************************)
EXTENDS Syntax

Plain(names) == {<<n, "">> : n \in names}
Closers(kinds)  == {Closer(k) : k \in kinds}

LoopWords ==
  Plain({"FOR", "WHILE", "DO", "INCLUDE"}) \cup Closers({"FOR", "WHILE", "DO", "SUB", "FILE"})
  \cup {<<"SUB", "f">>, <<"EXIT", "FOR">>, <<"EXIT", "SUB">>, <<"CONTINUE", "">>, <<"CONTINUE", "DO">>}

PartWords ==
  Plain({"IF", "ELSEIF", "ELSE", "SELECT", "CASE", "TRY", "CATCH", "FINALLY"})
  \cup Closers({"IF", "SELECT", "TRY", "FILE"}) \cup {<<"CASE", "ELSE">>, <<"CALL", "f">>}

NameWords ==
  Plain({"IF", "INCLUDE"}) \cup Closers({"IF", "SUB", "FILE"})
  \cup {<<"SUB", "f">>, <<"SUB", "g">>, <<"DIM", "v">>, <<"PUBLIC", "v">>,
        <<"CALL", "v">>, <<"CALL", "f">>}

\* No "_": the parser does not count a continued line.
MCAlphabet == Letters \ {"_", "+", "sp"}

MCVocabularies == {LoopWords, PartWords, NameWords}

================================================================================
