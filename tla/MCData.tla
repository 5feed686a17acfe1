--------------------------------- MODULE MCData ---------------------------------
(***************************************************************************)
(* The data of a script: texts, values and the operators on them, arrays   *)
(* and the JSON document.  They share nothing but the values, so that a    *)
(* behaviour is about one of them, part.                                   *)
(***************************************************************************)
EXTENDS Arrays, JsonSearch, Text, Values

VARIABLE part

MCInit ==
  /\ part \in {"arrays", "json", "text", "operators", "select"}
  /\ ArrayInit /\ (part = "arrays" \/ \A n \in Names : var[n].len = 0)
  /\ JsonInit /\ (part = "json" \/ \A f \in Files : disk[f].doc = Missing)
  /\ TextInit /\ (part = "text" \/ ~ page)
  /\ ValuesInit /\ (part \in {"operators", "select"} \/ left = Null) /\ (part = "operators" \/ right = Null)

MCNext ==
  /\ UNCHANGED part
  /\ \/ part = "arrays" /\ ArrayNext /\ UNCHANGED <<jsonVars, text, page, valueVars>>
     \/ part = "json" /\ JsonNext /\ UNCHANGED <<arrayVars, text, page, valueVars>>
     \/ part = "text" /\ AddText /\ UNCHANGED <<arrayVars, jsonVars, valueVars>>
     \/ part = "select" /\ AddCase /\ UNCHANGED <<arrayVars, jsonVars, text, page>>

MCSpec == MCInit /\ [][MCNext]_<<part, arrayVars, jsonVars, text, page, valueVars>>

-----------------------------------------------------------------------------
\* Functions that do the same in different ways agree: those that look for, cut off and put
\* together parts of a text, those that change lines and those that order versions
\* (Global.go:174, stdlib_string.go:193, :520); and what one search finds in the document the
\* others find as well, and a value read and written back is the same.  A document is looked at
\* when it is new.
FunctionsAgree ==
  /\ part = "text" => PartsFitTogether /\ LinesAreKept /\ VersionsAreOrdered
  /\ part = "json" /\ (calls = 0 \/ store # done.before) => SearchesAgree /\ RereadsTheSame

MCSymmetry == Permutations(Names)
================================================================================
