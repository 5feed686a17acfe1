------------------------------- MODULE JsonStore -------------------------------
(***************************************************************************)
(* The JSON document of a script: stdlib_json.go.  One document is kept in *)
(* memory (JsonEngine) and read and changed through paths; json.Save puts  *)
(* it on disk by way of a temporary file.  The searches are in JsonSearch. *)
(*                                                                         *)
(* A document is a tree of maps, lists and leaves.  Two texts and a number *)
(* stand for all leaves; of a text only matters whether it is part of      *)
(* another and what it is in small letters.  The key "0" is also the index *)
(* of a first element.                                                     *)
(*                                                                         *)
(* Of what the code permits, JsonFeatures names what is enumerated:        *)
(*   "element"  json.Delete of an element of a list (stdlib_json.go:1073)  *)
(*   "null"     null in a document (stdlib_json.go:1143)                   *)
(*   "nil"      json.ParseToEngine("null"), stdlib_json.go:238             *)
(*   "numbers"  a number in a condition of a search (stdlib_json.go:585)   *)
(*   "million"  numbers that %v prints with an exponent (:446)             *)
(*   "capitals" keys that differ only in case (stdlib_json.go:730)         *)
(***************************************************************************)
EXTENDS Integers, Sequences, SequencesExt

CONSTANTS JsonFeatures,    \* a set of the names above
          Files,           \* the paths documents are saved at
          NoFile,          \* JsonEngine.Path before the first load or save
          MaxPath,         \* the keys of a path
          MaxCalls         \* the calls of a script

ASSUME JsonAssumption ==
  /\ JsonFeatures \subseteq {"element", "null", "nil", "numbers", "million", "capitals"}
  /\ NoFile \notin Files /\ MaxPath \in Nat /\ MaxCalls \in Nat

VARIABLES store,    \* JsonEngine.Data
          bound,    \* JsonEngine.Path
          disk,     \* what each file and its .tmp hold
          saving,   \* the step json.Save is at
          done,     \* the last call, its result and the document before it
          calls     \* the calls made

jsonVars == <<store, bound, disk, saving, done, calls>>

Keys == {"a", "0"} \cup (IF "capitals" \in JsonFeatures THEN {"A"} ELSE {})

\* The index a key is: below 0, no list has it.
Index(key) == CASE key = "0" -> 0 [] key = "a" -> -1 [] OTHER -> -2

Text(s)   == [k |-> "text", s |-> s]
Number(s) == [k |-> "num", s |-> s]
JsonNull  == [k |-> "null"]
Nil       == [k |-> "nil"]              \* a map that was never made
Map(f)    == [k |-> "map", f |-> f]
List(q)   == [k |-> "list", q |-> q]
Empty     == Map(<<>>)

Words    == {"x", "XY"}
Numerals == {"7"} \cup (IF "million" \in JsonFeatures THEN {"1000000"} ELSE {})

PathsTo(depth) == UNION {[1 .. n -> Keys] : n \in 0 .. depth}
Paths == PathsTo(MaxPath)

Leaves == {Text(s) : s \in Words} \cup {Number(s) : s \in Numerals}
            \cup (IF "null" \in JsonFeatures THEN {JsonNull} ELSE {})

\* What a script passes to json.Set: valToInterface copies it.
Given == Leaves \cup {List(<<>>), Map([a |-> Text("x")])}

Documents ==
  {Empty, Map([a |-> Text("x")])}
    \cup {Map([a |-> List(<<Map([a |-> Text("x")]), Map([x \in Keys |-> IF x = "a" THEN v ELSE Text("XY")])>>)]) : v \in Leaves}

-----------------------------------------------------------------------------
\* The child a map or a list has under a key, as a set of at most one.
Child(n, key) ==
  CASE n.k = "map"  -> {n.f[x] : x \in {key} \cap DOMAIN n.f}
    [] n.k = "list" -> {n.q[i] : i \in {Index(key) + 1} \cap DOMAIN n.q}
    [] OTHER        -> {}

\* getNested: the node at a path, step by step.
NodeAt(n, path) ==
  LET at[i \in 0 .. Len(path)] == IF i = 0 THEN {n} ELSE UNION {Child(c, path[i]) : c \in at[i - 1]}
  IN  at[Len(path)]

\* The node setNested goes on with: a map that is missing is made.
\* A bug of the kind setNested invites: it is made also where there is something.
NodeFor_Anew(n, key) == IF n.k = "map" THEN {Empty} ELSE Child(n, key)

NodeFor(n, key) == IF n.k = "map" /\ key \notin DOMAIN n.f THEN {Empty} ELSE Child(n, key)

\* A map or a list with another child under a key.
With(n, key, c) ==
  IF n.k = "map" THEN Map([x \in DOMAIN n.f \cup {key} |-> IF x = key THEN c ELSE n.f[x]])
  ELSE List([n.q EXCEPT ![Index(key) + 1] = c])

\* The nodes on the way to a path.
Way(n, path) ==
  LET way[i \in 0 .. Len(path)] == IF i = 0 THEN {n} ELSE UNION {NodeFor(c, path[i]) : c \in way[i - 1]}
  IN  way

\* The document with v at a path: what becomes of the nodes on the way there.  There is none
\* when the way leads through a value or past the end of a list.
Replaced(n, path, v) ==
  LET way == Way(n, path)
      new[i \in 0 .. Len(path)] ==
        IF i = Len(path) THEN {v : c \in way[i]} ELSE {With(c, path[i + 1], d) : c \in way[i], d \in new[i + 1]}
  IN  new[0]

\* setNested: the document it leaves, or nothing when it reports an error.
Put(n, path, v) == IF path = <<>> THEN {n} ELSE Replaced(n, path, v)

\* deleteNested: an element's successors move up and null stays at the end of the list.
Lacking(n, key) ==
  IF n.k = "map" THEN Map([x \in DOMAIN n.f \ {key} |-> n.f[x]])
  ELSE List(Append(RemoveAt(n.q, Index(key) + 1), JsonNull))

Dropped(n, path) ==
  IF path = <<>> \/ NodeAt(n, path) = {} THEN {n}
  ELSE UNION {Replaced(n, Front(path), Lacking(c, Last(path))) : c \in NodeAt(n, Front(path))}

\* json.Append: a value that is no list is replaced by one.
Listed(n, path, v) ==
  LET lists == {c \in NodeAt(n, path) : c.k = "list"}
      old   == IF lists = {} THEN <<>> ELSE (CHOOSE c \in lists : TRUE).q
  IN  Put(n, path, List(Append(old, v)))

IsMap(n, path) == \E c \in NodeAt(n, path) : c.k \in {"map", "nil"}
KeysAt(n, path) == UNION {IF c.k = "map" THEN DOMAIN c.f ELSE {} : c \in NodeAt(n, path)}

\* json.RenameKey of a key that is there, to one that is not.
Renamed(n, path, old, new) ==
  LET Moved(f) == [x \in (DOMAIN f \ {old}) \cup {new} |-> f[IF x = new THEN old ELSE x]]
  IN  UNION {Replaced(n, path, Map(Moved(c.f))) : c \in NodeAt(n, path)}

-----------------------------------------------------------------------------
NoCall == [op |-> "none", path |-> <<>>, value |-> JsonNull, key |-> "a", result |-> "ok", before |-> Empty]
Missing == [k |-> "missing"]
Torn    == [k |-> "torn"]               \* a file that was not written to its end

\* A script that has done nothing yet, or has loaded a file.
JsonInit ==
  /\ disk \in {[f \in Files |-> [doc |-> d[f], tmp |-> Missing]] : d \in [Files -> {Missing} \cup Documents]}
  /\ \/ store = Empty /\ bound = NoFile
     \/ \E f \in Files : disk[f].doc # Missing /\ store = disk[f].doc /\ bound = f
  /\ saving = "no"
  /\ done = NoCall
  /\ calls = 0

Call(op, path, value, key, result) ==
  /\ saving = "no"
  /\ calls < MaxCalls
  /\ calls' = calls + 1
  /\ done' = [op |-> op, path |-> path, value |-> value, key |-> key, result |-> result, before |-> store]

\* A call that changes the document to one of results, or reports an error when there is none.
Changes(op, path, value, key, results) ==
  IF store = Nil /\ ((op \in {"set", "append"} /\ path # <<>>) \/ (op = "setkey" /\ Len(path) = 1))
  THEN Call(op, path, value, key, "panic") /\ UNCHANGED store
  ELSE IF results = {}
  THEN Call(op, path, value, key, "error") /\ UNCHANGED store
  ELSE Call(op, path, value, key, "ok") /\ store' \in results

Set(path, v)    == Changes("set", path, v, "a", Put(store, path, v))
AppendTo(path, v) == Changes("append", path, v, "a", Listed(store, path, v))

Delete(path) ==
  /\ "element" \in JsonFeatures \/ path = <<>> \/ \A c \in NodeAt(store, Front(path)) : c.k # "list"
  /\ Changes("delete", path, JsonNull, "a", Dropped(store, path))

SetKey(path, key, v) ==
  Changes("setkey", Append(path, key), v, key, IF IsMap(store, path) THEN Put(store, Append(path, key), v) ELSE {})

RenameKey(path, old, new) ==
  /\ old # new
  /\ Changes("rename", Append(path, old), JsonNull, new,
             IF ~ IsMap(store, path) THEN {}
             ELSE IF old \notin KeysAt(store, path) THEN {store}
             ELSE IF new \in KeysAt(store, path) THEN {}
             ELSE Renamed(store, path, old, new))

ParseToEngine ==
  \E d \in Documents \cup (IF "nil" \in JsonFeatures THEN {Nil} ELSE {}) :
    /\ Call("parse", <<>>, d, "a", "ok")
    /\ store' = d

\* A file that cannot be read or holds no object leaves everything as it is.
Load(f) ==
  LET d == disk[f].doc
  IN  IF d.k = "map"
      THEN Call("load", <<>>, d, "a", "ok") /\ store' = d /\ bound' = f
      ELSE Call("load", <<>>, JsonNull, "a", "error") /\ UNCHANGED <<store, bound>>

\* json.Save: the path is kept even when nothing can be written to it.  WriteFile empties the
\* temporary file first.
\* A bug of the kind Save invites: the document is written over the file itself.
Save_InPlace(f) ==
  /\ Call("save", <<>>, store, "a", "running")
  /\ bound' = f
  /\ saving' = "temp"
  /\ disk' = [disk EXCEPT ![f] = [doc |-> Torn, tmp |-> store]]

Save(f) ==
  /\ Call("save", <<>>, store, "a", "running")
  /\ bound' = f
  /\ saving' = "temp"
  /\ disk' = [disk EXCEPT ![f].tmp = Torn]

Returns(result) == saving' = "no" /\ done' = [done EXCEPT !.result = result]

SaveWrites ==
  /\ saving = "temp"
  /\ \/ saving' = "rename" /\ disk' = [disk EXCEPT ![bound].tmp = store] /\ UNCHANGED done
     \/ Returns("error") /\ UNCHANGED disk

SaveRenames ==
  /\ saving = "rename"
  /\ \/ Returns("ok") /\ disk' = [disk EXCEPT ![bound] = [doc |-> disk[bound].tmp, tmp |-> Missing]]
     \/ Returns("error") /\ disk' = [disk EXCEPT ![bound].tmp = Missing]

\* The process ends during a save and another script starts.
Crash ==
  /\ saving # "no"
  /\ store' = Empty /\ bound' = NoFile /\ saving' = "no"
  /\ done' = [NoCall EXCEPT !.op = "start"]
  /\ UNCHANGED <<disk, calls>>

JsonNext ==
  \/ /\ \/ \E path \in Paths, v \in Given : Set(path, v) \/ AppendTo(path, v)
        \/ \E path \in Paths : Delete(path)
        \/ \E path \in PathsTo(MaxPath - 1), key \in Keys :
             \/ \E v \in Given : SetKey(path, key, v)
             \/ \E new \in Keys : RenameKey(path, key, new)
        \/ ParseToEngine
     /\ UNCHANGED <<bound, disk, saving>>
  \/ /\ \E f \in Files : Load(f)
     /\ UNCHANGED <<disk, saving>>
  \/ /\ \E f \in Files : Save(f)
     /\ UNCHANGED store
  \/ /\ SaveWrites \/ SaveRenames
     /\ UNCHANGED <<store, bound, calls>>
  \/ Crash

JsonSpec == JsonInit /\ [][JsonNext]_jsonVars

-----------------------------------------------------------------------------
(***************************************************************************)
(* Properties.                                                             *)
(***************************************************************************)
\* The paths a call on path p leaves alone.
Apart(p) == {q \in PathsTo(MaxPath + 1) : ~ IsPrefix(p, q) /\ ~ IsPrefix(q, p)}

\* What the last call promised: json.Set makes json.Get return the value it was given,
\* json.Append the list with one more element, json.RenameKey moves a value and json.Delete
\* leaves nothing at its path; all of them leave every other path alone, and a call that
\* reports an error leaves everything alone (md/json.md:62, :76, :132).  No call panics.
\* json.RenameKey of a key that is missing changes nothing and is a success, as in the code
\* (stdlib_json.go:851); md/json.md:96 has it report an error.
ChangesMeanWhatTheySay ==
  LET p    == done.path
      old  == done.before
      new  == IF p = <<>> THEN <<>> ELSE Append(Front(p), done.key)
      Kept(paths) == \A q \in paths : NodeAt(store, q) = NodeAt(old, q)
  IN  /\ done.result # "panic"
      /\ (done.result = "error" /\ done.op # "save") => store = old
      /\ (done.result = "ok" /\ p # <<>>) =>
           /\ done.op \in {"set", "setkey"} => NodeAt(store, p) = {done.value} /\ Kept(Apart(p))
           /\ done.op = "append" =>
                /\ \E c \in NodeAt(store, p) : c.k = "list" /\ Last(c.q) = done.value
                                            /\ \A d \in NodeAt(old, p) : d.k = "list" => d.q = Front(c.q)
                /\ Kept(Apart(p))
           /\ done.op = "delete" => NodeAt(store, p) = {} /\ Kept(Apart(p))
           /\ done.op = "rename" => /\ NodeAt(old, p) # {} => NodeAt(store, new) = NodeAt(old, p)
                                    /\ NodeAt(store, p) = {}
                                    /\ Kept(Apart(p) \cap Apart(new))

\* "die Originaldatei ist nie halb überschrieben" (stdlib_json.go:114): whatever fails and
\* whenever the process ends, a file holds a whole document; when json.Save says that it
\* succeeded, it holds the one of the script.
JsonIsNotLost ==
  /\ \A f \in Files : disk[f].doc # Torn
  /\ done.op = "save" /\ done.result = "ok" => disk[bound] = [doc |-> done.value, tmp |-> Missing]
================================================================================
