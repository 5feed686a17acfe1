--------------------------------- MODULE Arrays ---------------------------------
(***************************************************************************)
(* Arrays of a script: stdlib_array.go and the statements of evaluator.go  *)
(* that index them.  The value of a variable is a slice of Go, a block of  *)
(* memory and a length; assigning it to another variable or passing it to  *)
(* a function copies the slice and not the block.  A function that works   *)
(* "In-Place" changes the block and returns a slice of another length, but *)
(* the caller's variable keeps its own until it is assigned to.            *)
(*                                                                         *)
(* A matrix is a sequence of slices, its rows.  Elements are numbers; an   *)
(* array in an array behaves as a row does.  How much a block grows is     *)
(* what append does for fewer than 256 elements.                           *)
(*                                                                         *)
(* Of what the code permits, ArrayFeatures names what is enumerated:       *)
(*   "ragged"  matrices of rows of different lengths: reading m(i, j) asks *)
(*             row 0 for the number of columns (evaluator.go:485)          *)
(***************************************************************************)
EXTENDS Integers, Sequences, FiniteSets, SequencesExt

CONSTANTS ArrayFeatures,   \* a set of the names above
          Names,           \* the variables of the script
          None,            \* a call whose result is not assigned
          Elements,        \* what arrays are filled with
          MaxArray,        \* the longest array
          MaxStatements    \* of the script

ASSUME ArrayAssumption ==
  /\ ArrayFeatures \subseteq {"ragged"}
  /\ None \notin Names /\ IsFiniteSet(Names)
  /\ {1, 2} \subseteq Elements /\ Elements \subseteq Nat
  /\ MaxArray \in 1 .. 256 /\ MaxStatements \in Nat

VARIABLES heap,    \* the cells of each block, as many as it has room for
          var,     \* the value of each variable
          kin,     \* the pairs of variables one of which was made from the other
          last,    \* the last statement: what it names, the variable it assigns, what it means
          count    \* the statements executed

arrayVars == <<heap, var, kin, last, count>>

\* Room for the rows of a matrix in every variable, and for one more; block 0 is that of the
\* empty slice, without any room.
Blocks == 0 .. 2 * Cardinality(Names) + 2

Slice(block, len) == [kind |-> "arr", block |-> block, len |-> len]
Matrix(rows) == [kind |-> "arr2d", rows |-> rows]
SlicesOf(v) == IF v.kind = "arr" THEN {v} ELSE ToSet(v.rows)
BlocksOf(v) == {s.block : s \in SlicesOf(v)} \ {0}

Cells(h, s) == SubSeq(h[s.block], 1, s.len)

\* What a script sees of a value: the rows of a matrix, or those of an array as the only row.
Content(h, v) == IF v.kind = "arr" THEN <<Cells(h, v)>> ELSE [i \in DOMAIN v.rows |-> Cells(h, v.rows[i])]

IsArray(n)  == var[n].kind = "arr"
IsMatrix(n) == var[n].kind = "arr2d"

Unused == (Blocks \ {0}) \ UNION {BlocksOf(var[n]) : n \in Names}

\* The room append makes when it needs more than there is.
Grown(old, need) == IF need <= old THEN old ELSE IF need > 2 * old THEN need ELSE 2 * old

Filled(cells, room) == cells \o [i \in 1 .. room - Len(cells) |-> 0]

\* What a function returns: the heap it leaves and a slice of it.
Fresh(h, cells, room) ==
  [heap |-> [h EXCEPT ![Min(Unused)] = Filled(cells, room)], slice |-> Slice(Min(Unused), Len(cells))]

\* append(s, x)
Appended(h, s, x) ==
  LET room == Len(h[s.block])
  IN  IF s.len < room
      THEN [heap |-> [h EXCEPT ![s.block][s.len + 1] = x], slice |-> Slice(s.block, s.len + 1)]
      ELSE Fresh(h, Append(Cells(h, s), x), Grown(room, s.len + 1))

\* append(s[:i], s[i+1:]...): the cells after i move to the left, the last one stays as it is.
Without(h, s, i) ==
  [heap  |-> [h EXCEPT ![s.block] = [k \in DOMAIN @ |-> IF k \in i .. s.len - 1 THEN @[k + 1] ELSE @[k]]],
   slice |-> Slice(s.block, s.len - 1)]

Same(h, s) == [heap |-> h, slice |-> s]

\* append(s, Value{}), copy(s[i+1:], s[i:]), s[i] = x
\* A bug of the kind that order invites: the cells are copied one by one from the left.
Inserted_FromTheLeft(h, s, i, x) ==
  LET r == Appended(h, s, 0)
  IN  IF i > s.len THEN Appended(h, s, x)
      ELSE [heap  |-> [r.heap EXCEPT ![r.slice.block] =
                         [k \in DOMAIN @ |-> IF k = i THEN x
                                             ELSE IF k \in i + 1 .. r.slice.len THEN @[i] ELSE @[k]]],
            slice |-> r.slice]

Inserted(h, s, i, x) ==
  LET r == Appended(h, s, 0)
  IN  IF i > s.len THEN Appended(h, s, x)
      ELSE [heap  |-> [r.heap EXCEPT ![r.slice.block] =
                         [k \in DOMAIN @ |-> IF k = i THEN x
                                             ELSE IF k \in i + 1 .. r.slice.len THEN @[k - 1] ELSE @[k]]],
            slice |-> r.slice]

Removed(h, s, x) ==
  LET found == {i \in 1 .. s.len : h[s.block][i] = x}
  IN  IF found = {} THEN Same(h, s) ELSE Without(h, s, Min(found))

-----------------------------------------------------------------------------
(* Statements.  A call is made and, in most scripts, assigned.             *)

Related(n) == {m \in Names : {m, n} \in kin}

\* The variable to becomes v, made from the variables of.
Becomes(to, h, v, of) ==
  LET new == [var EXCEPT ![to] = v]
      others == of \cup UNION {Related(n) : n \in of}
      live == UNION {BlocksOf(new[n]) : n \in Names}
  IN  /\ var' = new
      /\ heap' = [b \in Blocks |-> IF b \in live THEN h[b] ELSE <<>>]
      /\ kin' = {p \in kin : to \notin p \/ of = {to}} \cup {{to, n} : n \in others \ {to}}

Stays(h) ==
  LET live == UNION {BlocksOf(var[n]) : n \in Names}
  IN  heap' = [b \in Blocks |-> IF b \in live THEN h[b] ELSE <<>>] /\ UNCHANGED <<var, kin>>

\* named: the variables it may change beside their relatives.
Statement(named, to, means) ==
  /\ count' = count + 1
  /\ last' = [named |-> named, to |-> to, means |-> means]

\* to = F(of, ...) or F(of, ...): the result r is a slice of the block of of or of a new one.
InPlace(to, of, r, means) ==
  /\ r.slice.len <= MaxArray
  /\ IF to = None THEN Stays(r.heap) ELSE Becomes(to, r.heap, r.slice, {of})
  /\ Statement({of, to} \ {None}, to, <<means>>)

Copying(to, cells, room) ==
  LET r == Fresh(heap, cells, room)
  IN  /\ Len(cells) <= MaxArray
      /\ Becomes(to, r.heap, r.slice, {})
      /\ Statement({to}, to, <<cells>>)

\* Every variable is an empty slice, or one of them an array <<2, 1>>: as it was made,
\* or after it has been longer.
ArrayInit ==
  /\ \/ heap = [b \in Blocks |-> <<>>] /\ var = [n \in Names |-> Slice(0, 0)]
     \/ \E n \in Names, once \in {<<>>, <<1, 0>>} :
          /\ heap = [b \in Blocks |-> IF b = 1 THEN <<2, 1>> \o once ELSE <<>>]
          /\ var = [m \in Names |-> IF m = n THEN Slice(1, 2) ELSE Slice(0, 0)]
  /\ kin = {} /\ count = 0
  /\ last = [named |-> {}, to |-> None, means |-> <<>>]

\* a = {x, y} and array.Create
Literal(to) == \E cells \in BoundedSeq(Elements, 2) : Copying(to, cells, Len(cells))
Create(to)  == \E n \in 1 .. 2 : Copying(to, [i \in 1 .. n |-> 0], n)

Assign(to, of) ==
  /\ Becomes(to, heap, var[of], {of})
  /\ Statement({to}, to, Content(heap, var[of]))

Add(to, of) ==
  IsArray(of) /\ \E x \in Elements :
    InPlace(to, of, Appended(heap, var[of], x), Append(Cells(heap, var[of]), x))

Insert(to, of) ==
  IsArray(of) /\ \E x \in Elements, i \in 1 .. var[of].len + 1 :
    InPlace(to, of, Inserted(heap, var[of], i, x), InsertAt(Cells(heap, var[of]), i, x))

RemoveValue(to, of) ==
  IsArray(of) /\ \E x \in Elements :
    InPlace(to, of, Removed(heap, var[of], x), RemoveFirst(Cells(heap, var[of]), x))

RemoveIndex(to, of) ==
  IsArray(of) /\ \E i \in 1 .. var[of].len :
    InPlace(to, of, Without(heap, var[of], i), RemoveAt(Cells(heap, var[of]), i))

Clear(to, of) == IsArray(of) /\ InPlace(to, of, Same(heap, Slice(var[of].block, 0)), <<>>)

\* A bug of the kind a slice of a slice invites: the copy is made with append(s[:0], s...),
\* which copies the cells onto themselves.
Clone_InPlace(to, of) ==
  /\ IsArray(of)
  /\ Becomes(to, heap, var[of], {})
  /\ Statement({to}, to, <<Cells(heap, var[of])>>)

Clone(to, of) == IsArray(of) /\ Copying(to, Cells(heap, var[of]), var[of].len)
ReverseOf(to, of) == IsArray(of) /\ Copying(to, Reverse(Cells(heap, var[of])), var[of].len)

\* The k-th cell of the sorted array: fewer than k are less, k at least are not greater.
Smallest(k, cells) ==
  CHOOSE x \in ToSet(cells) : /\ Cardinality({i \in DOMAIN cells : cells[i] < x}) < k
                              /\ Cardinality({i \in DOMAIN cells : cells[i] <= x}) >= k

Sorted(cells) == [k \in DOMAIN cells |-> Smallest(k, cells)]

Sort(to, of) == IsArray(of) /\ Copying(to, Sorted(Cells(heap, var[of])), var[of].len)

\* Unique and Find: append to an empty slice, element by element, those that are not there yet.
Firsts(cells) == {i \in DOMAIN cells : \A j \in 1 .. i - 1 : cells[j] # cells[i]}

Distinct(cells) ==
  [k \in 1 .. Cardinality(Firsts(cells)) |->
     cells[CHOOSE i \in Firsts(cells) : Cardinality({j \in Firsts(cells) : j <= i}) = k]]

\* The room after n calls of append.
RoomOf(n) == Min({room \in {0, 1, 2, 4, 8, 16, 32, 64, 128, 256} : room >= n})

Unique(to, of) ==
  IsArray(of) /\ LET result == Distinct(Cells(heap, var[of])) IN Copying(to, result, RoomOf(Len(result)))

Merge(to, of, with) ==
  IsArray(of) /\ IsArray(with)
  /\ Copying(to, Cells(heap, var[of]) \o Cells(heap, var[with]),
             Grown(var[of].len, var[of].len + var[with].len))

\* a(i) = x: beyond the end the array moves to a new block.
AssignIndex(to) ==
  IsArray(to) /\ \E x \in Elements, i \in 1 .. MaxArray :
    LET s == var[to]
        means == [k \in 1 .. Max({s.len, i}) |->
                    IF k = i THEN x ELSE IF k <= s.len THEN Cells(heap, s)[k] ELSE 0]
    IN  /\ IF i <= s.len
           THEN Becomes(to, [heap EXCEPT ![s.block][i] = x], s, {to})
           ELSE LET r == Fresh(heap, means, i) IN Becomes(to, r.heap, r.slice, {to})
        /\ Statement({to}, to, <<means>>)

\* m = array.Create(a, b): the rows are the slices of the two arrays.
CreateMatrix(to, a, b) ==
  /\ IsArray(a) /\ IsArray(b)
  /\ "ragged" \in ArrayFeatures \/ var[a].len = var[b].len
  /\ Becomes(to, heap, Matrix(<<var[a], var[b]>>), {a, b})
  /\ Statement({to}, to, <<Cells(heap, var[a]), Cells(heap, var[b])>>)

\* m(i, j) = x
AssignCell(to) ==
  IsMatrix(to) /\ \E x \in Elements, i \in 1 .. 2 : \E j \in 1 .. var[to].rows[i].len :
    LET row == var[to].rows[i]
        h == [heap EXCEPT ![row.block][j] = x]
    IN  /\ Becomes(to, h, var[to], {to})
        /\ Statement({to}, to, Content(h, var[to]))

\* a = m(i), array.First(m), array.Last(m), For Each a In m
RowOf(to, of) ==
  IsMatrix(of) /\ \E i \in 1 .. 2 :
    /\ Becomes(to, heap, var[of].rows[i], {of})
    /\ Statement({to}, to, <<Cells(heap, var[of].rows[i])>>)

\* m = array.Chunk(a, size) copies the parts; a size of no use makes one row of the whole.
Chunk(to, of) ==
  /\ IsArray(of) /\ var[of].len >= 2
  /\ LET cells == Cells(heap, var[of])
         cut   == (var[of].len + 1) \div 2
         first == Fresh(heap, SubSeq(cells, 1, cut), cut)
         other == Min(Unused \ {first.slice.block})
         rest  == SubSeq(cells, cut + 1, var[of].len)
     IN  /\ "ragged" \in ArrayFeatures \/ Len(rest) = cut
         /\ Becomes(to, [first.heap EXCEPT ![other] = rest],
                    Matrix(<<first.slice, Slice(other, Len(rest))>>), {})
         /\ Statement({to}, to, <<SubSeq(cells, 1, cut), rest>>)

ArrayNext ==
  /\ count < MaxStatements
  /\ \/ \E to \in Names : Literal(to) \/ Create(to) \/ AssignIndex(to) \/ AssignCell(to)
     \/ \E to \in Names, of \in Names :
           \/ Assign(to, of) \/ Clone(to, of) \/ ReverseOf(to, of) \/ Sort(to, of) \/ Unique(to, of)
           \/ RowOf(to, of) \/ Chunk(to, of)
           \/ \E with \in Names : Merge(to, of, with) \/ CreateMatrix(to, of, with)
     \/ \E to \in Names \cup {None}, of \in Names :
           Add(to, of) \/ Insert(to, of) \/ RemoveValue(to, of) \/ RemoveIndex(to, of) \/ Clear(to, of)

ArraySpec == ArrayInit /\ [][ArrayNext]_arrayVars

-----------------------------------------------------------------------------
\* What the checks of evaluator.go:485 let through is inside the row.
ReadsInside(v) ==
  v.kind = "arr2d" => \A i \in DOMAIN v.rows : v.rows[1].len <= v.rows[i].len

\* ArraysOK: every slice ends inside its block, only variables made from one another have a
\* block in common, and m(i, j) that is let through is inside the row it reads.
ArraysOK ==
  /\ count \in 0 .. MaxStatements
  /\ \A n \in Names : /\ \A s \in SlicesOf(var[n]) : s.block \in Blocks /\ s.len \in 0 .. Len(heap[s.block])
                      /\ ReadsInside(var[n])
  /\ \A m, n \in Names : m = n \/ BlocksOf(var[m]) \cap BlocksOf(var[n]) = {} \/ {m, n} \in kin

\* CallsMean: the variable a statement assigns is what the statement says of what its
\* operands were before it, although the elements move within a block others look at.
CallsMean == last.to # None => Content(heap, var[last.to]) = last.means

\* ArrayCallsMean: both at every moment.
ArrayCallsMean == ArraysOK /\ CallsMean

\* OnlyRelativesChange: a statement changes the variables it names and those that were made
\* from them or they from those; Clone, Sort, Reverse, Unique, Merge and Chunk leave their operand
\* and its relatives alone.
OnlyRelativesChange ==
  [][\A n \in Names : Content(heap, var[n])' # Content(heap, var[n]) =>
       \E m \in last'.named : m = n \/ {m, n} \in kin]_arrayVars

================================================================================
