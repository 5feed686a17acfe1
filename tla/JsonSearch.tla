------------------------------- MODULE JsonSearch -------------------------------
(***************************************************************************)
(* Reading the JSON document of a script (JsonStore): the searches of      *)
(* stdlib_json.go, to which a script passes the document as text, and what *)
(* becomes of a value that is read and written back.  Maps have no order:  *)
(* where the code ranges over one, any order is possible.                  *)
(***************************************************************************)
EXTENDS JsonStore

\* interfaceToValue and back: what a script gets when it reads a node, as json.Set stores it
\* again.  null comes back as a text.
RECURSIVE Reread(_)
Reread(n) ==
  CASE n.k = "map"  -> Map([x \in DOMAIN n.f |-> Reread(n.f[x])])
    [] n.k = "list" -> List([i \in DOMAIN n.q |-> Reread(n.q[i])])
    [] n.k = "null" -> Text("null")
    [] OTHER        -> n

-----------------------------------------------------------------------------
(***************************************************************************)
(* The searches.  A condition is a key and the text its value has to have. *)
(* The Where searches compare values in small letters, json.Query and      *)
(* json.FindKey as they are; of keys only json.SearchDeepWhereGetContains  *)
(* ignores the case.                                                       *)
(***************************************************************************)
Lowered(s) == CASE s = "XY" -> "xy" [] s = "A" -> "a" [] OTHER -> s

Within(s, t) == s = t \/ (s = "x" /\ t = "xy")

Shown(n) == IF n.k \in {"text", "num"} THEN n.s ELSE n.k      \* anyToStr

\* fmt.Sprintf("%v", v), with which json.Query compares.
Printed(n) == IF n = Number("1000000") THEN "1e+06" ELSE Shown(n)

First(q, Hits(_)) == LET found == {i \in DOMAIN q : Hits(q[i]) # {}}
                     IN  IF found = {} THEN {} ELSE Hits(q[CHOOSE i \in found : \A j \in found : i <= j])

Members(n) == CASE n.k = "map" -> {n.f[x] : x \in DOMAIN n.f} [] n.k = "list" -> ToSet(n.q) [] OTHER -> {}

\* json.Search: the values it may return.
RECURSIVE Search(_, _)
Search(n, key) ==
  CASE n.k = "map" /\ key \in DOMAIN n.f -> {Shown(n.f[key])}
    [] n.k = "list"                       -> First(n.q, LAMBDA e : Search(e, key))
    [] OTHER                              -> UNION {Search(c, key) : c \in Members(n)}

RECURSIVE SearchAll(_, _)
SearchAll(n, key) ==
  (IF n.k = "map" THEN Child(n, key) ELSE {}) \cup UNION {SearchAll(c, key) : c \in Members(n)}

matchObject(m, key, s) == key \in DOMAIN m.f /\ Lowered(Shown(m.f[key])) = Lowered(s)

\* json.SearchWhereGet and json.SearchWhereExists: lists are entered, maps are not.
RECURSIVE SearchWhereGet(_, _, _, _)
SearchWhereGet(n, ret, key, s) ==
  CASE n.k = "list" -> First(n.q, LAMBDA e : SearchWhereGet(e, ret, key, s))
    [] n.k = "map"  -> IF matchObject(n, key, s) THEN {Shown(c) : c \in Child(n, ret)} ELSE {}
    [] OTHER        -> {}

RECURSIVE SearchWhereExists(_, _, _)
SearchWhereExists(n, key, s) ==
  CASE n.k = "list" -> \E i \in DOMAIN n.q : SearchWhereExists(n.q[i], key, s)
    [] n.k = "map"  -> matchObject(n, key, s)
    [] OTHER        -> FALSE

\* Which keys are one key: part is TRUE for json.SearchDeepWhereGetContains.
SameFor(part, key) == IF part THEN Lowered(key) ELSE key

\* The texts a condition on a key is compared with: those of the object, else of the ones
\* around it.  Of two keys that are one, either may be the one that counts.
Context(m, inherited, part) ==
  LET own == {x \in DOMAIN m.f : m.f[x].k = "text"}
  IN  [y \in {SameFor(part, x) : x \in own} |->
         {Lowered(m.f[x].s) : x \in {z \in own : SameFor(part, z) = y}}] @@ inherited

\* json.SearchDeepWhereGet, and json.SearchDeepWhereGetContains whose condition may ask for a
\* part.  A condition is met if it is whichever text counts.
RECURSIVE SearchDeep(_, _, _, _, _, _)
SearchDeep(n, ret, key, s, part, inherited) ==
  LET here     == Context(n, inherited, part)
      returned == {Shown(n.f[x]) : x \in {y \in DOMAIN n.f : SameFor(part, y) = SameFor(part, ret)}}
      meets    == /\ SameFor(part, key) \in DOMAIN here
                  /\ \A t \in here[SameFor(part, key)] : IF part THEN Within(Lowered(s), t) ELSE t = Lowered(s)
  IN  CASE n.k = "list" -> First(n.q, LAMBDA e : SearchDeep(e, ret, key, s, part, inherited))
        [] n.k = "map"  -> IF meets /\ returned # {} THEN returned
                           ELSE UNION {SearchDeep(c, ret, key, s, part, here) : c \in Members(n)}
        [] OTHER        -> {}

SearchDeepWhereGet(n, ret, key, s)         == SearchDeep(n, ret, key, s, FALSE, <<>>)
SearchDeepWhereGetContains(n, ret, key, s) == SearchDeep(n, ret, key, s, TRUE, <<>>)

\* json.Query of the list at a path, and json.FindKey of the map at a path.
Query(n, path, key, s) ==
  UNION {IF c.k # "list" THEN {}
         ELSE {m \in ToSet(c.q) : m.k = "map" /\ key \in DOMAIN m.f /\ Printed(m.f[key]) = s} : c \in NodeAt(n, path)}

FindKey(n, path, s) == {x \in KeysAt(n, path) : \E c \in NodeAt(n, Append(path, x)) : Shown(c) = s}

-----------------------------------------------------------------------------
\* What a script reads it can write back: the document stays what it is.
RereadsTheSame == store # Nil => \A path \in Paths : \A n \in NodeAt(store, path) : Reread(n) = n

\* The searches agree with each other: Search finds something where SearchAll does, and one of
\* its values; an object SearchWhereGet finds is one that SearchWhereExists finds, and
\* SearchDeepWhereGet finds one as well; a condition on a part is the weaker one.  The Where
\* searches are "case-insensitiv" (md/json.md:239, :272, :284): they find an object exactly if
\* json.Query, which is not, finds it in one of the spellings of the condition.
SearchesAgree ==
  LET Asked    == Words \cup {Lowered(w) : w \in Words}
      Compared == Asked \cup Numerals
  IN
  \A n \in Members(store), key \in Keys :
    /\ Search(n, key) \subseteq {Shown(c) : c \in SearchAll(n, key)}
    /\ Search(n, key) = {} <=> SearchAll(n, key) = {}
    /\ \A s \in Asked \cup (IF "numbers" \in JsonFeatures THEN {"7"} ELSE {}), ret \in Keys :
         LET found == SearchDeepWhereGet(n, ret, key, s) # {}
         IN  /\ SearchWhereGet(n, ret, key, s) # {} => SearchWhereExists(n, key, s) /\ found
             /\ found => SearchDeepWhereGetContains(n, ret, key, s) # {}
    /\ n.k = "list" /\ {i \in DOMAIN n.q : n.q[i].k = "list"} = {} =>
         \A s \in Compared :
           SearchWhereExists(n, key, s) <=>
             \E w \in Compared : Lowered(w) = Lowered(s) /\ Query(Map([a |-> n]), <<"a">>, key, w) # {}
    /\ \A s \in Asked : FindKey(store, <<>>, s) = {x \in KeysAt(store, <<>>) : NodeAt(store, <<x>>) = {Text(s)}}
================================================================================
