------------------------------ MODULE MemoryProofs ------------------------------
(***************************************************************************)
(* Proofs about memory that is shared: the blocks of the arrays of a       *)
(* script (Arrays) and the guests of plugins (Plugins).                    *)
(*                                                                         *)
(* Arrays, for any finite set of variables, any elements and any number of *)
(* statements.  The invariant, MemoryInv, says where blocks may be seen    *)
(* from: slices end inside their blocks, and a block is in two variables   *)
(* only when one was made from the other.  Two blocks are always unused,   *)
(* since there are more than variables have rows.  Every statement is a    *)
(* change of the heap that touches unused blocks and those of its operands *)
(* (Touches) followed by an assignment (BecomesKeeps) or by none           *)
(* (StaysKeeps), and each function's own lemma shows what it leaves in the *)
(* cells of its result.                                                    *)
(*                                                                         *)
(* Plugins, for any number of plugins, modules and functions, any lists in *)
(* #use, and any number of loads, calls, requests and ends of the process. *)
(* Three invariants are inductive beside the types: what a call has still  *)
(* to give back, what the bridge has done for the request it is at, and    *)
(* where a replacement is, seen from the three files.                      *)
(***************************************************************************)
EXTENDS Arrays, Plugins, FiniteSetTheorems, SequenceTheorems, WellFoundedInduction, TLAPS

--------------------------------------------------------------------------------
(* Arrays *)

\* The cells of a block are a sequence, whatever is in them.
IsCells(c) == \E S : c \in Seq(S)

\* A heap has cells in every block, and none in block 0.
IsHeap(h) == h = [b \in Blocks |-> h[b]] /\ h[0] = <<>> /\ \A b \in Blocks : IsCells(h[b])

\* An array.
IsSlice(s) == s.block \in Blocks /\ s.len \in Nat /\ s = Slice(s.block, s.len)

\* The rows of a matrix have one length.
IsValue(v) ==
  \/ IsSlice(v)
  \/ \E s, t : /\ IsSlice(s) /\ IsSlice(t) /\ v = Matrix(<<s, t>>)
               /\ s.len = t.len \/ "ragged" \in ArrayFeatures

\* The slices of a value end inside their blocks.
Fits(h, v) == \A s \in SlicesOf(v) : s.len <= Len(h[s.block])

\* Every variable has a value that fits.
VariablesOK == var = [n \in Names |-> var[n]] /\ \A n \in Names : IsValue(var[n]) /\ Fits(heap, var[n])

\* Only variables made from one another have a block in common.
Sharing ==
  \A m, n \in Names : m = n \/ BlocksOf(var[m]) \cap BlocksOf(var[n]) = {} \/ {m, n} \in kin

\* What every statement keeps.
MemoryInv == IsHeap(heap) /\ VariablesOK /\ Sharing

\* The blocks of some variables, and those of none.
BlocksOfSome(names) == {b \in Blocks : \E n \in names : b \in BlocksOf(var[n])}
Reachable(names) == Unused \cup BlocksOfSome(names)

\* A statement about the variables in names has done its work in the heap h.
Touches(h, names) ==
  /\ IsHeap(h)
  /\ \A b \in Blocks : h[b] # heap[b] => b \in Reachable(names)
  /\ \A b \in Blocks \ Unused : Len(h[b]) = Len(heap[b])

\* What a statement may do.
Relatives(names) == {n \in Names : \E m \in names : m = n \/ {m, n} \in kin}
Keeps ==
  /\ MemoryInv' /\ CallsMean' /\ count' = count + 1
  /\ \A n \in Names : Content(heap', var'[n]) # Content(heap, var[n]) => n \in Relatives(last'.named)

\* Of numbers there is a least one.
LEMMA MinIs ==
  ASSUME NEW S \in SUBSET Nat, S # {}
  PROVE  Min(S) \in S /\ \A x \in S : Min(S) <= x
<1> DEFINE R == OpToRel(<, Nat)
<1>1. IsWellFoundedOn(R, Nat)
  BY NatLessThanWellFounded
<1>2. PICK x \in S : \A y \in S : ~(<<y, x>> \in R)
  <2> HIDE DEF R
  <2>1. QED BY <1>1, WFMin
<1>3. \A y \in S : ~(y < x)
  BY <1>2 DEF OpToRel
<1>4. \A y \in S : x <= y
  BY <1>3
<1>5. QED BY <1>4 DEF Min

\* What is known of the slices of a value.
LEMMA OfSlice ==
  ASSUME NEW s, IsSlice(s)
  PROVE  /\ s.kind = "arr" /\ SlicesOf(s) = {s} /\ BlocksOf(s) = {s.block} \ {0}
         /\ \A h : Content(h, s) = <<Cells(h, s)>>
<1>1. s.kind = "arr"
  BY DEF IsSlice, Slice
<1>2. QED BY <1>1 DEF SlicesOf, BlocksOf, Content

\* What is known of a matrix of two rows.
LEMMA OfMatrix ==
  ASSUME NEW s, NEW t, IsSlice(s), IsSlice(t)
  PROVE  /\ Matrix(<<s, t>>).kind = "arr2d" /\ Matrix(<<s, t>>).rows = <<s, t>>
         /\ SlicesOf(Matrix(<<s, t>>)) = {s, t}
         /\ BlocksOf(Matrix(<<s, t>>)) = {s.block, t.block} \ {0}
         /\ \A h : Content(h, Matrix(<<s, t>>)) = <<Cells(h, s), Cells(h, t)>>
<1> DEFINE m == Matrix(<<s, t>>)
<1>1. m.kind = "arr2d" /\ m.rows = <<s, t>> /\ m.kind # "arr"
  BY DEF Matrix
<1>2. SlicesOf(m) = {s, t}
  <2>1. DOMAIN <<s, t>> = {1, 2} /\ <<s, t>>[1] = s /\ <<s, t>>[2] = t
    OBVIOUS
  <2>2. ToSet(<<s, t>>) = {s, t}
    BY <2>1 DEF ToSet
  <2>3. QED BY <1>1, <2>2 DEF SlicesOf
<1>3. BlocksOf(m) = {s.block, t.block} \ {0}
  BY <1>2 DEF BlocksOf
<1>4. ASSUME NEW h PROVE Content(h, m) = <<Cells(h, s), Cells(h, t)>>
  <2> DEFINE c(r) == Cells(h, r)
             u == <<s, t>>
  <2>1. Content(h, m) = [i \in DOMAIN u |-> c(u[i])]
    BY <1>1 DEF Content
  <2> HIDE DEF c
  <2>2. [i \in DOMAIN u |-> c(u[i])] = <<c(s), c(t)>>
    OBVIOUS
  <2>3. QED BY <2>1, <2>2 DEF c
<1>5. QED BY <1>1, <1>2, <1>3, <1>4

\* Every value is one or the other.
LEMMA ValueIs ==
  ASSUME NEW v, IsValue(v)
  PROVE  /\ v.kind \in {"arr", "arr2d"}
         /\ v.kind = "arr" <=> IsSlice(v)
         /\ \A s \in SlicesOf(v) : IsSlice(s)
         /\ BlocksOf(v) \subseteq Blocks \ {0}
         /\ \A s \in SlicesOf(v) : s.block # 0 => s.block \in BlocksOf(v)
<1>1. CASE IsSlice(v)
  BY <1>1, OfSlice DEF IsSlice
<1>2. CASE ~ IsSlice(v)
  <2>1. PICK s, t : IsSlice(s) /\ IsSlice(t) /\ v = Matrix(<<s, t>>)
    BY <1>2 DEF IsValue
  <2>2. v.kind = "arr2d" /\ SlicesOf(v) = {s, t} /\ BlocksOf(v) = {s.block, t.block} \ {0}
    BY <2>1, OfMatrix
  <2>3. QED BY <1>2, <2>1, <2>2 DEF IsSlice
<1>3. QED BY <1>1, <1>2

\* A value is seen the same in two heaps that agree on its blocks and have nothing in block 0.
LEMMA SameContent ==
  ASSUME NEW v, IsValue(v), NEW g, NEW h, g[0] = h[0], \A b \in BlocksOf(v) : g[b] = h[b]
  PROVE  Content(g, v) = Content(h, v) /\ (Fits(g, v) <=> Fits(h, v))
<1>1. \A s \in SlicesOf(v) : g[s.block] = h[s.block]
  BY ValueIs
<1>2. \A s \in SlicesOf(v) : Cells(g, s) = Cells(h, s)
  BY <1>1 DEF Cells
<1>3. Content(g, v) = Content(h, v)
  <2>1. CASE IsSlice(v)
    BY <2>1, <1>2, OfSlice
  <2>2. CASE ~ IsSlice(v)
    <3>1. PICK s, t : IsSlice(s) /\ IsSlice(t) /\ v = Matrix(<<s, t>>)
      BY <2>2 DEF IsValue
    <3>2. s \in SlicesOf(v) /\ t \in SlicesOf(v)
      BY <3>1, OfMatrix
    <3>3. Cells(g, s) = Cells(h, s) /\ Cells(g, t) = Cells(h, t)
      BY <3>2, <1>2
    <3>4. \A f : Content(f, v) = <<Cells(f, s), Cells(f, t)>>
      BY <3>1, OfMatrix
    <3>5. QED BY <3>3, <3>4
  <2>3. QED BY <2>1, <2>2
<1>4. QED BY <1>1, <1>3 DEF Fits

--------------------------------------------------------------------------------
\* The variables have two blocks each at most, so that two of all are unused.
LEMMA TwoUnused ==
  ASSUME VariablesOK
  PROVE  /\ Unused \subseteq Blocks \ {0} /\ Blocks \subseteq Nat /\ 0 \in Blocks
         /\ Cardinality(Unused) >= 2 /\ IsFiniteSet(Unused)
<1> DEFINE N == Cardinality(Names)
           pairs == Names \X (1 .. 2)
           Of(n, i) == LET v == var[n] IN IF v.kind = "arr" THEN v.block ELSE v.rows[i].block
           U == UNION {BlocksOf(var[n]) : n \in Names}
           I == {Of(p[1], p[2]) : p \in pairs}
<1>1. N \in Nat /\ IsFiniteSet(Names)
  BY ArrayAssumption, FS_CardinalityType
<1>2. Blocks \subseteq Nat /\ 0 \in Blocks /\ Blocks \ {0} = 1 .. 2 * N + 2
  BY <1>1 DEF Blocks
<1>3. IsFiniteSet(Blocks \ {0}) /\ Cardinality(Blocks \ {0}) = 2 * N + 2
  <2>1. 1 \in Int /\ 2 * N + 2 \in Int /\ ~ (1 > 2 * N + 2) /\ (2 * N + 2) - 1 + 1 = 2 * N + 2
    BY <1>1
  <2> HIDE DEF N
  <2>2. QED BY <1>2, <2>1, FS_Interval
<1>4. IsFiniteSet(pairs) /\ Cardinality(pairs) = N * 2
  <2>1. 1 \in Int /\ 2 \in Int
    OBVIOUS
  <2>2. IsFiniteSet(1 .. 2) /\ Cardinality(1 .. 2) = IF 1 > 2 THEN 0 ELSE 2 - 1 + 1
    BY ONLY <2>1, FS_Interval, Zenon
  <2>3. IsFiniteSet(1 .. 2) /\ Cardinality(1 .. 2) = 2
    BY <2>2
  <2>4. QED BY <1>1, <2>3, FS_Product
<1>5. IsFiniteSet(I) /\ Cardinality(I) <= N * 2
  <2> DEFINE f == [p \in pairs |-> Of(p[1], p[2])]
  <2>1. f \in Surjection(pairs, I)
    BY DEF Surjection
  <2> HIDE DEF f, I, pairs
  <2>2. IsFiniteSet(I) /\ Cardinality(I) <= Cardinality(pairs)
    BY <1>4, <2>1, FS_Surjection
  <2>3. QED BY <2>2, <1>4
<1>6. U \subseteq I
  <2> SUFFICES ASSUME NEW n \in Names, NEW b \in BlocksOf(var[n]) PROVE b \in I
    OBVIOUS
  <2>0. Of(n, 1) \in I /\ Of(n, 2) \in I
    <3> HIDE DEF Of
    <3>1. \A i \in 1 .. 2 : <<n, i>> \in pairs /\ <<n, i>>[1] = n /\ <<n, i>>[2] = i
      OBVIOUS
    <3>2. QED BY <3>1
  <2>1. CASE IsSlice(var[n])
    <3>1. b = Of(n, 1)
      BY <2>1, OfSlice
    <3>2. QED BY <2>0, <3>1
  <2>2. CASE ~ IsSlice(var[n])
    <3>1. PICK s, t : IsSlice(s) /\ IsSlice(t) /\ var[n] = Matrix(<<s, t>>)
      BY <2>2 DEF VariablesOK, IsValue
    <3>2. var[n].kind # "arr" /\ var[n].rows = <<s, t>> /\ BlocksOf(var[n]) = {s.block, t.block} \ {0}
      BY <3>1, OfMatrix
    <3>3. b = Of(n, 1) \/ b = Of(n, 2)
      BY <3>2
    <3>4. QED BY <2>0, <3>3
  <2>3. QED BY <2>1, <2>2
<1>7. Unused = (Blocks \ {0}) \ U
  BY DEF Unused
<1>8. IsFiniteSet(Unused) /\ Cardinality(Unused) = (2 * N + 2) - Cardinality((Blocks \ {0}) \cap U)
  <2> HIDE DEF U, N
  <2> DEFINE B == Blocks \ {0}
  <2>1. IsFiniteSet(B) /\ Cardinality(B) = 2 * N + 2
    BY <1>3
  <2> HIDE DEF B
  <2>2. IsFiniteSet(B \ U) /\ Cardinality(B \ U) = Cardinality(B) - Cardinality(B \cap U)
    BY <2>1, FS_Difference, Zenon
  <2>3. Unused = B \ U /\ (Blocks \ {0}) \cap U = B \cap U
    BY <1>7 DEF B
  <2>4. QED BY <2>1, <2>2, <2>3
<1>9. Cardinality((Blocks \ {0}) \cap U) \in Nat /\ Cardinality((Blocks \ {0}) \cap U) <= Cardinality(I)
  <2> HIDE DEF U, I
  <2>1. (Blocks \ {0}) \cap U \in SUBSET I
    BY <1>6
  <2>2. QED BY <1>5, <2>1, FS_Subset, FS_CardinalityType
<1>10. Cardinality(I) \in Nat
  BY <1>5, FS_CardinalityType
<1>11. Cardinality(Unused) >= 2
  <2> HIDE DEF U, I, N
  <2>1. QED BY <1>1, <1>5, <1>8, <1>9, <1>10
<1>12. QED BY <1>2, <1>7, <1>8, <1>11

\* There is a block for an array, and one more for the second row of a matrix.
LEMMA NextUnused ==
  ASSUME VariablesOK
  PROVE  /\ Min(Unused) \in Unused
         /\ Min(Unused \ {Min(Unused)}) \in Unused \ {Min(Unused)}
<1>1. Unused \subseteq Nat /\ IsFiniteSet(Unused) /\ Cardinality(Unused) >= 2
  BY TwoUnused
<1>2. Unused # {}
  BY <1>1, FS_EmptySet
<1>3. Min(Unused) \in Unused
  BY <1>1, <1>2, MinIs
<1> DEFINE rest == Unused \ {Min(Unused)}
<1>4. Cardinality(rest) = Cardinality(Unused) - 1
  BY <1>1, <1>3, FS_RemoveElement
<1>5. rest # {} /\ rest \subseteq Nat
  <2>1. Cardinality(Unused) \in Nat
    BY <1>1, FS_CardinalityType
  <2>2. Cardinality(rest) # 0
    BY <1>1, <1>4, <2>1
  <2>3. rest # {}
    <3> HIDE DEF rest
    <3>1. QED BY <2>2, FS_EmptySet
  <2>4. QED BY <1>1, <2>3
<1>6. Min(rest) \in rest
  <2> HIDE DEF rest
  <2>1. QED BY <1>5, MinIs
<1>7. QED BY <1>3, <1>6

\* What a variable has that no statement touches is seen as before.
LEMMA Untouched ==
  ASSUME MemoryInv, NEW names \in SUBSET Names, NEW h, Touches(h, names), NEW n \in Names
  PROVE  /\ Fits(h, var[n])
         /\ Content(h, var[n]) # Content(heap, var[n]) => n \in Relatives(names)
<1>1. IsValue(var[n]) /\ Fits(heap, var[n]) /\ IsHeap(h) /\ IsHeap(heap)
  BY DEF MemoryInv, VariablesOK, Touches
<1>2. \A s \in SlicesOf(var[n]) : Len(h[s.block]) = Len(heap[s.block])
  <2> SUFFICES ASSUME NEW s \in SlicesOf(var[n]) PROVE Len(h[s.block]) = Len(heap[s.block])
    OBVIOUS
  <2>1. CASE s.block = 0
    BY <2>1, <1>1 DEF IsHeap
  <2>2. CASE s.block # 0
    <3>1. s.block \in BlocksOf(var[n]) /\ s.block \in Blocks
      BY <2>2, <1>1, ValueIs
    <3>2. s.block \notin Unused
      BY <3>1 DEF Unused
    <3>3. QED BY <3>1, <3>2 DEF Touches
  <2>3. QED BY <2>1, <2>2
<1>3. Fits(h, var[n])
  BY <1>1, <1>2 DEF Fits
<1>4. ASSUME Content(h, var[n]) # Content(heap, var[n]) PROVE n \in Relatives(names)
  <2>1. PICK b \in BlocksOf(var[n]) : h[b] # heap[b]
    BY <1>1, <1>4, SameContent DEF IsHeap
  <2>2. b \in Blocks /\ b \notin Unused
    BY <1>1, <2>1, ValueIs DEF Unused
  <2>3. PICK m \in names : b \in BlocksOf(var[m])
    BY <2>1, <2>2 DEF Touches, Reachable, BlocksOfSome
  <2>4. m = n \/ {m, n} \in kin
    BY <2>1, <2>3 DEF MemoryInv, Sharing
  <2>5. QED BY <2>3, <2>4 DEF Relatives
<1>5. QED BY <1>3, <1>4

\* The heap after a statement: blocks of no variable are given back.
LEMMA Collected ==
  ASSUME NEW new, \A n \in Names : IsValue(new[n]), NEW h, IsHeap(h),
         \A n \in Names : Fits(h, new[n]),
         heap' = [b \in Blocks |-> IF b \in UNION {BlocksOf(new[n]) : n \in Names} THEN h[b] ELSE <<>>]
  PROVE  /\ IsHeap(heap')
         /\ \A n \in Names : Content(heap', new[n]) = Content(h, new[n]) /\ Fits(heap', new[n])
<1>1. 0 \in Blocks /\ \A n \in Names : 0 \notin BlocksOf(new[n])
  <2>1. 0 \in Blocks
    BY ArrayAssumption, FS_CardinalityType DEF Blocks
  <2>2. QED BY <2>1 DEF BlocksOf
<1>2. IsCells(<<>>)
  <2>1. <<>> \in Seq({})
    OBVIOUS
  <2>2. QED BY <2>1 DEF IsCells
<1>3. heap'[0] = <<>> /\ h[0] = <<>>
  BY <1>1 DEF IsHeap
<1>4. IsHeap(heap')
  BY <1>1, <1>2, <1>3 DEF IsHeap
<1>5. ASSUME NEW n \in Names PROVE Content(heap', new[n]) = Content(h, new[n]) /\ Fits(heap', new[n])
  <2>1. BlocksOf(new[n]) \subseteq Blocks
    BY ValueIs
  <2>2. \A b \in BlocksOf(new[n]) : heap'[b] = h[b]
    BY <2>1
  <2>3. PICK g : g = heap'
    OBVIOUS
  <2>4. g[0] = h[0] /\ \A b \in BlocksOf(new[n]) : g[b] = h[b]
    BY <1>3, <2>2, <2>3
  <2>5. Content(g, new[n]) = Content(h, new[n]) /\ Fits(g, new[n])
    BY <2>4, SameContent
  <2>6. QED BY <2>3, <2>5
<1>6. QED BY <1>4, <1>5

\* A call whose result is not assigned.
LEMMA StaysKeeps ==
  ASSUME MemoryInv, NEW of \in Names, NEW h, Touches(h, {of}), Stays(h), NEW means,
         Statement({of, None} \ {None}, None, means)
  PROVE  Keeps
<1>1. var' = var /\ kin' = kin /\ last'.to = None /\ {of} \subseteq last'.named
      /\ count' = count + 1
  BY ArrayAssumption DEF Stays, Statement
<1>2. /\ IsHeap(heap')
      /\ \A n \in Names : Content(heap', var[n]) = Content(h, var[n]) /\ Fits(heap', var[n])
  BY Untouched, Collected DEF Stays, MemoryInv, VariablesOK, Touches
<1>3. VariablesOK' /\ Sharing'
  BY <1>1, <1>2 DEF MemoryInv, VariablesOK, Sharing
<1>4. ASSUME NEW n \in Names, Content(heap', var'[n]) # Content(heap, var[n])
      PROVE  n \in Relatives(last'.named)
  <2>1. Content(h, var[n]) # Content(heap, var[n])
    BY <1>1, <1>2, <1>4
  <2>2. n \in Relatives({of})
    BY <2>1, Untouched
  <2>3. QED BY <1>1, <2>2 DEF Relatives
<1>5. QED BY <1>1, <1>2, <1>3, <1>4 DEF Keeps, MemoryInv, CallsMean

\* A value assigned to a variable.
LEMMA BecomesKeeps ==
  ASSUME MemoryInv, NEW to \in Names, NEW names \in SUBSET Names,
         NEW touched \in SUBSET Names, NEW h, Touches(h, touched), NEW v, IsValue(v), Fits(h, v), BlocksOf(v) \subseteq Reachable(names),
         Becomes(to, h, v, names),
         NEW named, touched \cup {to} \subseteq named, NEW means, Content(h, v) = means,
         Statement(named, to, means)
  PROVE  Keeps
<1> DEFINE new == [var EXCEPT ![to] = v]
           others == names \cup (UNION {Related(n) : n \in names})
<1>1. /\ var' = new /\ last'.to = to /\ last'.named = named /\ last'.means = means
      /\ count' = count + 1
      /\ kin' = {p \in kin : to \notin p \/ names = {to}} \cup {{to, n} : n \in others \ {to}}
  BY DEF Becomes, Statement
<1>2. /\ new = [n \in Names |-> new[n]] /\ new[to] = v
      /\ \A n \in Names \ {to} : new[n] = var[n]
  BY DEF MemoryInv, VariablesOK
<1>3. \A n \in Names : IsValue(new[n]) /\ Fits(h, new[n])
  BY <1>2, Untouched DEF MemoryInv, VariablesOK
<1>4. /\ IsHeap(heap')
      /\ \A n \in Names : Content(heap', new[n]) = Content(h, new[n]) /\ Fits(heap', new[n])
  <2> HIDE DEF new
  <2>1. heap' = [b \in Blocks |-> IF b \in UNION {BlocksOf(new[n]) : n \in Names} THEN h[b] ELSE <<>>]
    BY DEF Becomes, new
  <2>2. IsHeap(h)
    BY DEF Touches
  <2>3. QED BY <1>3, <2>1, <2>2, Collected
<1>5. VariablesOK'
  <2> HIDE DEF new
  <2>1. QED BY <1>1, <1>2, <1>3, <1>4 DEF VariablesOK
<1>6. Sharing'
  <2>1. ASSUME NEW n \in Names, n # to, BlocksOf(v) \cap BlocksOf(var[n]) # {} PROVE {to, n} \in kin'
    <3>1. PICK b : b \in BlocksOf(v) /\ b \in BlocksOf(var[n])
      BY <2>1
    <3>2. b \notin Unused
      BY <3>1 DEF Unused
    <3>3. PICK m \in names : b \in BlocksOf(var[m])
      BY <3>1, <3>2 DEF Reachable, BlocksOfSome
    <3>4. m = n \/ {m, n} \in kin
      BY <3>1, <3>3 DEF MemoryInv, Sharing
    <3>5. n \in others
      <4>1. CASE m = n
        BY <4>1, <3>3
      <4>2. CASE {m, n} \in kin
        <5>1. n \in Related(m)
          BY <4>2 DEF Related
        <5>2. QED BY <5>1, <3>3
      <4>3. QED BY <3>4, <4>1, <4>2
    <3> HIDE DEF others
    <3>6. QED BY <1>1, <2>1, <3>5
  <2>2. ASSUME NEW m \in Names, NEW n \in Names, m # n, m # to, n # to,
               BlocksOf(var[m]) \cap BlocksOf(var[n]) # {}
        PROVE  {m, n} \in kin'
    <3>1. {m, n} \in kin
      BY <2>2 DEF MemoryInv, Sharing
    <3> HIDE DEF others
    <3>2. QED BY <1>1, <2>2, <3>1
  <2> HIDE DEF new
  <2>3. SUFFICES ASSUME NEW m \in Names, NEW n \in Names, m # n, BlocksOf(new[m]) \cap BlocksOf(new[n]) # {}
                 PROVE  {m, n} \in kin'
    BY <1>1 DEF Sharing
  <2>4. CASE m = to
    BY <2>1, <2>3, <2>4, <1>2
  <2>5. CASE n = to
    <3>1. {n, m} \in kin' /\ {n, m} = {m, n}
      BY <2>1, <2>3, <2>5, <1>2
    <3>2. QED BY <3>1
  <2>6. CASE m # to /\ n # to
    BY <2>2, <2>3, <2>6, <1>2
  <2>7. QED BY <2>4, <2>5, <2>6
<1>7. CallsMean'
  <2> HIDE DEF new
  <2>1. QED BY <1>1, <1>2, <1>4 DEF CallsMean
<1>8. ASSUME NEW n \in Names, Content(heap', var'[n]) # Content(heap, var[n]) PROVE n \in Relatives(named)
  <2>1. CASE n = to
    BY <2>1 DEF Relatives
  <2>2. CASE n # to
    <3> HIDE DEF new
    <3>1. Content(h, var[n]) # Content(heap, var[n])
      BY <1>1, <1>2, <1>4, <1>8, <2>2
    <3>2. n \in Relatives(touched)
      BY <3>1, Untouched
    <3>3. QED BY <3>2 DEF Relatives
  <2>3. QED BY <2>1, <2>2
<1>9. QED BY <1>1, <1>4, <1>5, <1>6, <1>7, <1>8 DEF Keeps, MemoryInv

--------------------------------------------------------------------------------
\* Sequences of any elements.
LEMMA CellsAre ==
  ASSUME NEW c, IsCells(c)
  PROVE  /\ Len(c) \in Nat /\ DOMAIN c = 1 .. Len(c) /\ c = [i \in 1 .. Len(c) |-> c[i]]
         /\ Len(c) = 0 => c = <<>>
<1>1. PICK S : c \in Seq(S)
  BY DEF IsCells
<1>2. Len(c) \in Nat /\ DOMAIN c = 1 .. Len(c) /\ c \in [1 .. Len(c) -> S]
  BY <1>1, LenProperties
<1>3. c # <<>> => Len(c) \in Nat \ {0}
  BY <1>1, EmptySeq
<1>4. QED BY <1>2, <1>3

\* A function on 1 .. n is a sequence of length n.
LEMMA FunctionCells ==
  ASSUME NEW n \in Nat, NEW c, c = [i \in 1 .. n |-> c[i]]
  PROVE  IsCells(c) /\ Len(c) = n
<1> DEFINE S == {c[i] : i \in 1 .. n}
<1>1. c \in [1 .. n -> S]
  OBVIOUS
<1>2. c \in Seq(S)
  <2> HIDE DEF S
  <2>1. QED BY <1>1, SeqDef
<1>3. Len(c) \in Nat /\ DOMAIN c = 1 .. Len(c)
  <2> HIDE DEF S
  <2>1. QED BY <1>2, LenProperties
<1>4. DOMAIN c = 1 .. n
  BY <1>1
<1>5. Len(c) = n
  BY <1>3, <1>4
<1>6. QED BY <1>2, <1>5 DEF IsCells

\* Sequences of the same length and elements are the same.
LEMMA SameCells ==
  ASSUME NEW c, NEW d, IsCells(c), IsCells(d), Len(c) = Len(d), \A i \in 1 .. Len(c) : c[i] = d[i]
  PROVE  c = d
<1>1. c = [i \in 1 .. Len(c) |-> c[i]] /\ d = [i \in 1 .. Len(c) |-> d[i]]
  BY CellsAre
<1>2. [i \in 1 .. Len(c) |-> c[i]] = [i \in 1 .. Len(c) |-> d[i]]
  OBVIOUS
<1>3. QED BY <1>1, <1>2

\* s[m-1:n] of Go.
LEMMA PartCells ==
  ASSUME NEW c, IsCells(c), NEW m \in 1 .. Len(c) + 1, NEW n \in m - 1 .. Len(c)
  PROVE  /\ IsCells(SubSeq(c, m, n)) /\ Len(SubSeq(c, m, n)) = n - m + 1
         /\ \A i \in 1 .. n - m + 1 : SubSeq(c, m, n)[i] = c[m + i - 1]
<1>1. PICK S : c \in Seq(S)
  BY DEF IsCells
<1>2. Len(c) \in Nat /\ m \in Int /\ n \in Int
  BY CellsAre
<1>3. \A i \in m .. n : c[i] \in S
  BY <1>1, <1>2, ElementOfSeq
<1>4. /\ SubSeq(c, m, n) \in Seq(S)
      /\ Len(SubSeq(c, m, n)) = IF m <= n THEN n - m + 1 ELSE 0
      /\ \A i \in 1 .. n - m + 1 : SubSeq(c, m, n)[i] = c[m + i - 1]
  BY <1>2, <1>3, SubSeqProperties
<1>5. Len(SubSeq(c, m, n)) = n - m + 1
  BY <1>2, <1>4
<1>6. QED BY <1>4, <1>5 DEF IsCells

\* One sequence after another.
LEMMA JoinedCells ==
  ASSUME NEW c, NEW d, IsCells(c), IsCells(d)
  PROVE  /\ IsCells(c \o d) /\ Len(c \o d) = Len(c) + Len(d)
         /\ \A i \in 1 .. Len(c) + Len(d) :
              (c \o d)[i] = IF i <= Len(c) THEN c[i] ELSE d[i - Len(c)]
<1>1. PICK S, T : c \in Seq(S) /\ d \in Seq(T)
  BY DEF IsCells
<1>2. c \in Seq(S \cup T) /\ d \in Seq(S \cup T)
  BY <1>1, SeqMonotonic
<1>3. QED BY <1>2, ConcatProperties DEF IsCells

--------------------------------------------------------------------------------
\* The cells c are written to the block b.
LEMMA WriteTouches ==
  ASSUME MemoryInv, NEW b \in Blocks, NEW c, IsCells(c), NEW names \in SUBSET Names,
         b = 0 \/ b \in Reachable(names), b \in Unused \/ Len(c) = Len(heap[b]),
         NEW h, h = [heap EXCEPT ![b] = c]
  PROVE  Touches(h, names) /\ h[b] = c
<1>1. IsHeap(heap) /\ 0 \in Blocks /\ 0 \notin Unused /\ heap[0] = <<>>
  BY TwoUnused DEF MemoryInv, IsHeap
<1>2. h[b] = c /\ \A x \in Blocks \ {b} : h[x] = heap[x]
  BY <1>1 DEF IsHeap
<1>3. b = 0 => c = <<>>
  BY <1>1, CellsAre
<1>4. IsHeap(h)
  BY <1>1, <1>2, <1>3 DEF IsHeap
<1>5. \A x \in Blocks : h[x] # heap[x] => x \in Reachable(names)
  BY <1>1, <1>2, <1>3
<1>6. \A x \in Blocks \ Unused : Len(h[x]) = Len(heap[x])
  BY <1>2
<1>7. QED BY <1>2, <1>4, <1>5, <1>6 DEF Touches

\* A function that was given the array of a variable has left the cells c in a block of
\* its own or, as many as before, in that of the array, and returns the first l of them.
Leaves(r, of, b, c, l) ==
  /\ r.heap = [heap EXCEPT ![b] = c] /\ r.slice = Slice(b, l)
  /\ IsCells(c) /\ l \in 0 .. Len(c)
  /\ b \in Unused \/ (b = var[of].block /\ Len(c) = Len(heap[b]))

\* A function that works in place keeps the memory.
LEMMA InPlaceKeeps ==
  ASSUME MemoryInv, NEW to \in Names \cup {None}, NEW of \in Names, IsArray(of),
         NEW r, NEW b, NEW c, NEW l, Leaves(r, of, b, c, l),
         NEW means, SubSeq(c, 1, l) = means, InPlace(to, of, r, means)
  PROVE  Keeps
<1>1. IsSlice(var[of])
  BY ValueIs DEF MemoryInv, VariablesOK, IsArray
<1>2. b \in Blocks /\ (b = 0 \/ b \in Reachable({of}))
  BY <1>1, OfSlice, TwoUnused DEF Leaves, IsSlice, Reachable, BlocksOfSome, MemoryInv
<1>3. PICK h : h = r.heap
  OBVIOUS
<1>4. Touches(h, {of}) /\ h[b] = c
  <2>1. /\ h = [heap EXCEPT ![b] = c] /\ IsCells(c) /\ {of} \in SUBSET Names
        /\ b \in Unused \/ Len(c) = Len(heap[b])
    BY <1>3 DEF Leaves
  <2>2. QED BY <1>2, <2>1, WriteTouches
<1>5. CASE to = None
  <2>1. Stays(h) /\ Statement({of, None} \ {None}, None, <<means>>)
    BY <1>3, <1>5 DEF InPlace
  <2>2. QED BY <2>1, <1>4, StaysKeeps
<1>6. CASE to # None
  <2>1. to \in Names
    BY <1>6
  <2>2. PICK s : s = Slice(b, l)
    OBVIOUS
  <2>3. s.block = b /\ s.len = l /\ l \in Nat /\ Len(c) \in Nat /\ l <= Len(c)
    BY <2>2, CellsAre DEF Slice, Leaves
  <2>4. IsSlice(s)
    BY <1>2, <2>2, <2>3 DEF IsSlice
  <2>5. Fits(h, s) /\ Content(h, s) = <<means>>
    BY <2>3, <2>4, <1>4, OfSlice DEF Fits, Cells
  <2>6. BlocksOf(s) \subseteq Reachable({of})
    BY <1>2, <2>3, <2>4, OfSlice
  <2>7. Becomes(to, h, s, {of}) /\ Statement({of, to} \ {None}, to, <<means>>)
    BY <1>3, <1>6, <2>2 DEF InPlace, Leaves
  <2>8. {of} \cup {to} \subseteq {of, to} \ {None} /\ IsValue(s)
    BY <1>6, <2>4, ArrayAssumption DEF IsValue
  <2>9. QED BY <2>1, <2>4, <2>5, <2>6, <2>7, <2>8, <1>4, BecomesKeeps
<1>7. QED BY <1>5, <1>6

\* A new block, filled up with zeros.
LEMMA FreshIs ==
  ASSUME MemoryInv, NEW cells, IsCells(cells), NEW room \in Int
  PROVE  /\ Min(Unused) \in Unused
         /\ Fresh(heap, cells, room).heap = [heap EXCEPT ![Min(Unused)] = Filled(cells, room)]
         /\ Fresh(heap, cells, room).slice = Slice(Min(Unused), Len(cells))
         /\ IsCells(Filled(cells, room)) /\ Len(cells) <= Len(Filled(cells, room))
         /\ SubSeq(Filled(cells, room), 1, Len(cells)) = cells
<1>1. Min(Unused) \in Unused
  BY NextUnused DEF MemoryInv
<1>2. Len(cells) \in Nat
  BY CellsAre
<1>3. PICK k \in Nat : 1 .. room - Len(cells) = 1 .. k
  <2>1. CASE room - Len(cells) >= 0
    BY <1>2, <2>1
  <2>2. CASE ~ (room - Len(cells) >= 0)
    <3>1. 1 .. room - Len(cells) = 1 .. 0
      BY <1>2, <2>2
    <3>2. QED BY <3>1
  <2>3. QED BY <2>1, <2>2
<1>4. PICK z : z = [i \in 1 .. k |-> 0]
  OBVIOUS
<1>5. IsCells(z) /\ Len(z) = k
  <2>1. z = [i \in 1 .. k |-> z[i]]
    BY <1>4
  <2>2. QED BY <2>1, FunctionCells
<1>6. PICK f : f = Filled(cells, room)
  OBVIOUS
<1>7. f = cells \o z
  BY <1>3, <1>4, <1>6 DEF Filled
<1>8. /\ IsCells(f) /\ Len(f) = Len(cells) + k
      /\ \A i \in 1 .. Len(cells) : f[i] = cells[i]
  <2>1. /\ IsCells(cells \o z) /\ Len(cells \o z) = Len(cells) + Len(z)
        /\ \A i \in 1 .. Len(cells) + Len(z) :
             (cells \o z)[i] = IF i <= Len(cells) THEN cells[i] ELSE z[i - Len(cells)]
    BY <1>5, JoinedCells
  <2>2. QED BY <2>1, <1>2, <1>5, <1>7
<1>9. SubSeq(f, 1, Len(cells)) = cells
  <2> DEFINE p == SubSeq(f, 1, Len(cells))
  <2>1. Len(cells) \in 1 - 1 .. Len(f) /\ 1 \in 1 .. Len(f) + 1 /\ Len(cells) - 1 + 1 = Len(cells)
    BY <1>2, <1>8
  <2>2. /\ IsCells(p) /\ Len(p) = Len(cells)
        /\ \A i \in 1 .. Len(cells) : p[i] = f[1 + i - 1]
    BY <2>1, <1>8, PartCells
  <2>3. \A i \in 1 .. Len(cells) : p[i] = cells[i]
    BY <2>2, <1>2, <1>8
  <2> HIDE DEF p
  <2>4. p = cells
    BY <2>2, <2>3, SameCells
  <2>5. QED BY <2>4 DEF p
<1>10. QED BY <1>1, <1>2, <1>6, <1>8, <1>9 DEF Fresh

\* A value in a new block keeps the memory.
LEMMA NewKeeps ==
  ASSUME MemoryInv, NEW to \in Names, NEW cells, IsCells(cells), NEW room \in Int,
         NEW names \in SUBSET Names,
         Becomes(to, Fresh(heap, cells, room).heap, Fresh(heap, cells, room).slice, names),
         Statement({to}, to, <<cells>>)
  PROVE  Keeps
<1> DEFINE b == Min(Unused)
           c == Filled(cells, room)
<1>1. PICK h, s : h = [heap EXCEPT ![b] = c] /\ s = Slice(b, Len(cells))
  OBVIOUS
<1>2. /\ b \in Unused /\ Becomes(to, h, s, names)
      /\ IsCells(c) /\ Len(cells) <= Len(c) /\ SubSeq(c, 1, Len(cells)) = cells
  BY <1>1, FreshIs
<1> HIDE DEF b, c
<1>3. b \in Blocks /\ b \in Reachable({}) /\ b \in Reachable(names) /\ b # 0
  BY <1>2, TwoUnused DEF MemoryInv, Reachable
<1>4. Touches(h, {}) /\ h[b] = c
  <2>1. {} \in SUBSET Names
    OBVIOUS
  <2>2. QED BY <1>1, <1>2, <1>3, <2>1, WriteTouches
<1>5. IsSlice(s) /\ s.block = b /\ s.len = Len(cells)
  BY <1>1, <1>3, CellsAre DEF IsSlice, Slice
<1>6. Fits(h, s) /\ Content(h, s) = <<cells>> /\ BlocksOf(s) \subseteq Reachable(names) /\ IsValue(s)
  <2>1. SlicesOf(s) = {s} /\ BlocksOf(s) = {b} \ {0} /\ Content(h, s) = <<Cells(h, s)>>
    BY <1>5, OfSlice
  <2>2. Cells(h, s) = cells
    BY <1>2, <1>4, <1>5 DEF Cells
  <2>3. Fits(h, s)
    BY <1>2, <1>4, <1>5, <2>1 DEF Fits
  <2>4. QED BY <1>3, <1>5, <2>1, <2>2, <2>3 DEF IsValue
<1>7. {} \cup {to} \subseteq {to} /\ {} \in SUBSET Names
  OBVIOUS
<1>8. QED BY <1>2, <1>4, <1>6, <1>7, BecomesKeeps

\* A function that returns a new array keeps the memory.
LEMMA CopyingKeeps ==
  ASSUME MemoryInv, NEW to \in Names, NEW cells, IsCells(cells), NEW room \in Int,
         Copying(to, cells, room)
  PROVE  Keeps
<1>1. /\ Becomes(to, Fresh(heap, cells, room).heap, Fresh(heap, cells, room).slice, {})
      /\ Statement({to}, to, <<cells>>) /\ {} \in SUBSET Names
  BY DEF Copying
<1>2. QED BY <1>1, NewKeeps

--------------------------------------------------------------------------------
\* The first cells of a block.
LEMMA PrefixIs ==
  ASSUME NEW c, IsCells(c), NEW m, IsCells(m), Len(m) <= Len(c), \A k \in 1 .. Len(m) : c[k] = m[k]
  PROVE  SubSeq(c, 1, Len(m)) = m
<1> DEFINE p == SubSeq(c, 1, Len(m))
<1>1. Len(m) \in Nat /\ Len(c) \in Nat
  BY CellsAre
<1>2. Len(m) \in 1 - 1 .. Len(c) /\ 1 \in 1 .. Len(c) + 1 /\ Len(m) - 1 + 1 = Len(m)
  BY <1>1
<1>3. /\ IsCells(p) /\ Len(p) = Len(m)
      /\ \A k \in 1 .. Len(m) : p[k] = c[1 + k - 1]
  BY <1>2, PartCells
<1>4. \A k \in 1 .. Len(m) : p[k] = m[k]
  BY <1>1, <1>3
<1> HIDE DEF p
<1>5. p = m
  BY <1>3, <1>4, SameCells
<1>6. QED BY <1>5 DEF p

\* What append makes.
LEMMA AppendedCells ==
  ASSUME NEW c, IsCells(c), NEW x
  PROVE  /\ IsCells(Append(c, x)) /\ Len(Append(c, x)) = Len(c) + 1
         /\ \A k \in 1 .. Len(c) + 1 : Append(c, x)[k] = IF k <= Len(c) THEN c[k] ELSE x
<1>1. PICK S : c \in Seq(S)
  BY DEF IsCells
<1>2. c \in Seq(S \cup {x}) /\ x \in S \cup {x}
  BY <1>1, SeqMonotonic
<1>3. /\ Append(c, x) \in Seq(S \cup {x}) /\ Len(Append(c, x)) = Len(c) + 1
      /\ \A k \in 1 .. Len(c) : Append(c, x)[k] = c[k]
      /\ Append(c, x)[Len(c) + 1] = x
  BY <1>2, AppendProperties
<1>4. \A k \in 1 .. Len(c) + 1 : Append(c, x)[k] = IF k <= Len(c) THEN c[k] ELSE x
  BY <1>3, CellsAre
<1>5. QED BY <1>3, <1>4 DEF IsCells

\* What an insertion means.
LEMMA InsertedCells ==
  ASSUME NEW c, IsCells(c), NEW x, NEW i \in 1 .. Len(c) + 1
  PROVE  /\ IsCells(InsertAt(c, i, x)) /\ Len(InsertAt(c, i, x)) = Len(c) + 1
         /\ \A k \in 1 .. Len(c) + 1 :
              InsertAt(c, i, x)[k] = IF k < i THEN c[k] ELSE IF k = i THEN x ELSE c[k - 1]
<1>1. Len(c) \in Nat
  BY CellsAre
<1>2. PICK a, b, y : a = SubSeq(c, 1, i - 1) /\ b = SubSeq(c, i, Len(c)) /\ y = <<x>>
  OBVIOUS
<1>3. IsCells(a) /\ Len(a) = i - 1 /\ \A k \in 1 .. i - 1 : a[k] = c[k]
  <2>1. 1 \in 1 .. Len(c) + 1 /\ i - 1 \in 1 - 1 .. Len(c)
    BY <1>1
  <2>2. /\ IsCells(SubSeq(c, 1, i - 1)) /\ Len(SubSeq(c, 1, i - 1)) = i - 1 - 1 + 1
        /\ \A k \in 1 .. i - 1 - 1 + 1 : SubSeq(c, 1, i - 1)[k] = c[1 + k - 1]
    BY <2>1, PartCells
  <2>3. i - 1 - 1 + 1 = i - 1 /\ \A k \in 1 .. i - 1 : 1 + k - 1 = k
    BY <1>1
  <2>4. QED BY <1>2, <2>2, <2>3
<1>4. IsCells(b) /\ Len(b) = Len(c) - i + 1 /\ \A k \in 1 .. Len(c) - i + 1 : b[k] = c[i + k - 1]
  <2>1. Len(c) \in i - 1 .. Len(c)
    BY <1>1
  <2>2. QED BY <1>2, <2>1, PartCells
<1>5. IsCells(y) /\ Len(y) = 1 /\ y[1] = x
  <2>1. y \in Seq({x})
    BY <1>2
  <2>2. QED BY <1>2, <2>1 DEF IsCells
<1>6. PICK d : d = a \o y
  OBVIOUS
<1>7. /\ IsCells(d) /\ Len(d) = i
      /\ \A k \in 1 .. i : d[k] = IF k < i THEN c[k] ELSE x
  <2>1. /\ IsCells(d) /\ Len(d) = Len(a) + Len(y)
        /\ \A k \in 1 .. Len(a) + Len(y) : d[k] = IF k <= Len(a) THEN a[k] ELSE y[k - Len(a)]
    BY <1>3, <1>5, <1>6, JoinedCells
  <2>2. QED BY <2>1, <1>1, <1>3, <1>5
<1>8. InsertAt(c, i, x) = d \o b
  BY <1>2, <1>6 DEF InsertAt
<1>9. /\ IsCells(d \o b) /\ Len(d \o b) = Len(c) + 1
      /\ \A k \in 1 .. Len(c) + 1 : (d \o b)[k] = IF k <= i THEN d[k] ELSE b[k - i]
  <2>1. /\ IsCells(d \o b) /\ Len(d \o b) = Len(d) + Len(b)
        /\ \A k \in 1 .. Len(d) + Len(b) : (d \o b)[k] = IF k <= Len(d) THEN d[k] ELSE b[k - Len(d)]
    BY <1>4, <1>7, JoinedCells
  <2>2. Len(d) + Len(b) = Len(c) + 1
    BY <1>1, <1>4, <1>7
  <2>3. QED BY <2>1, <2>2, <1>7
<1>10. ASSUME NEW k \in 1 .. Len(c) + 1
       PROVE  (d \o b)[k] = IF k < i THEN c[k] ELSE IF k = i THEN x ELSE c[k - 1]
  <2>1. CASE k <= i
    BY <2>1, <1>1, <1>7, <1>9
  <2>2. CASE ~ (k <= i)
    <3>1. k - i \in 1 .. Len(c) - i + 1 /\ i + (k - i) - 1 = k - 1 /\ ~ (k < i) /\ k # i
      BY <2>2, <1>1
    <3>2. (d \o b)[k] = b[k - i] /\ b[k - i] = c[i + (k - i) - 1]
      BY <3>1, <2>2, <1>4, <1>9
    <3>3. QED BY <3>1, <3>2
  <2>3. QED BY <2>1, <2>2
<1>11. QED BY <1>8, <1>9, <1>10

\* What a removal means.
LEMMA RemovedCells ==
  ASSUME NEW c, IsCells(c), NEW i \in 1 .. Len(c)
  PROVE  /\ IsCells(RemoveAt(c, i)) /\ Len(RemoveAt(c, i)) = Len(c) - 1
         /\ \A k \in 1 .. Len(c) - 1 : RemoveAt(c, i)[k] = IF k < i THEN c[k] ELSE c[k + 1]
<1>1. Len(c) \in Nat
  BY CellsAre
<1>2. PICK a, b : a = SubSeq(c, 1, i - 1) /\ b = SubSeq(c, i + 1, Len(c))
  OBVIOUS
<1>3. IsCells(a) /\ Len(a) = i - 1 /\ \A k \in 1 .. i - 1 : a[k] = c[k]
  <2>1. 1 \in 1 .. Len(c) + 1 /\ i - 1 \in 1 - 1 .. Len(c)
    BY <1>1
  <2>2. /\ IsCells(SubSeq(c, 1, i - 1)) /\ Len(SubSeq(c, 1, i - 1)) = i - 1 - 1 + 1
        /\ \A k \in 1 .. i - 1 - 1 + 1 : SubSeq(c, 1, i - 1)[k] = c[1 + k - 1]
    BY <2>1, PartCells
  <2>3. i - 1 - 1 + 1 = i - 1 /\ \A k \in 1 .. i - 1 : 1 + k - 1 = k
    BY <1>1
  <2>4. QED BY <1>2, <2>2, <2>3
<1>4. IsCells(b) /\ Len(b) = Len(c) - i /\ \A k \in 1 .. Len(c) - i : b[k] = c[i + k]
  <2>1. i + 1 \in 1 .. Len(c) + 1 /\ Len(c) \in i + 1 - 1 .. Len(c)
    BY <1>1
  <2>2. /\ IsCells(SubSeq(c, i + 1, Len(c))) /\ Len(SubSeq(c, i + 1, Len(c))) = Len(c) - (i + 1) + 1
        /\ \A k \in 1 .. Len(c) - (i + 1) + 1 : SubSeq(c, i + 1, Len(c))[k] = c[(i + 1) + k - 1]
    BY <2>1, PartCells
  <2>3. Len(c) - (i + 1) + 1 = Len(c) - i /\ \A k \in 1 .. Len(c) - i : (i + 1) + k - 1 = i + k
    BY <1>1
  <2>4. QED BY <1>2, <2>2, <2>3
<1>5. /\ IsCells(a \o b) /\ Len(a \o b) = Len(c) - 1
      /\ \A k \in 1 .. Len(c) - 1 : (a \o b)[k] = IF k < i THEN a[k] ELSE b[k - (i - 1)]
  <2>1. /\ IsCells(a \o b) /\ Len(a \o b) = Len(a) + Len(b)
        /\ \A k \in 1 .. Len(a) + Len(b) : (a \o b)[k] = IF k <= Len(a) THEN a[k] ELSE b[k - Len(a)]
    BY <1>3, <1>4, JoinedCells
  <2>2. Len(a) + Len(b) = Len(c) - 1 /\ Len(a) = i - 1 /\ \A k \in 1 .. Len(c) - 1 : k <= i - 1 <=> k < i
    BY <1>1, <1>3, <1>4
  <2>3. QED BY <2>1, <2>2
<1>6. ASSUME NEW k \in 1 .. Len(c) - 1
      PROVE  (a \o b)[k] = IF k < i THEN c[k] ELSE c[k + 1]
  <2>1. CASE k < i
    <3>1. k \in 1 .. i - 1
      BY <2>1, <1>1
    <3>2. QED BY <2>1, <3>1, <1>3, <1>5
  <2>2. CASE ~ (k < i)
    <3>1. k - (i - 1) \in 1 .. Len(c) - i /\ i + (k - (i - 1)) = k + 1
      BY <2>2, <1>1
    <3>2. QED BY <2>2, <3>1, <1>4, <1>5
  <2>3. QED BY <2>1, <2>2
<1>7. QED BY <1>2, <1>5, <1>6 DEF RemoveAt

--------------------------------------------------------------------------------
\* The array of a variable and the block it is in.
LEMMA OfArray ==
  ASSUME MemoryInv, NEW of \in Names, IsArray(of)
  PROVE  /\ IsSlice(var[of]) /\ var[of].block \in Blocks /\ IsCells(heap[var[of].block])
         /\ Len(heap[var[of].block]) \in Nat /\ var[of].len \in 0 .. Len(heap[var[of].block])
         /\ IsCells(Cells(heap, var[of])) /\ Len(Cells(heap, var[of])) = var[of].len
         /\ \A k \in 1 .. var[of].len : Cells(heap, var[of])[k] = heap[var[of].block][k]
<1> DEFINE s == var[of]
           d == heap[s.block]
<1>1. IsSlice(s) /\ s.block \in Blocks /\ s.len \in Nat /\ SlicesOf(s) = {s}
  BY ValueIs, OfSlice DEF MemoryInv, VariablesOK, IsArray, IsSlice
<1>2. IsCells(d) /\ Len(d) \in Nat
  BY <1>1, CellsAre DEF MemoryInv, IsHeap
<1>3. s.len <= Len(d)
  BY <1>1 DEF MemoryInv, VariablesOK, Fits
<1> HIDE DEF s, d
<1>4. /\ IsCells(SubSeq(d, 1, s.len)) /\ Len(SubSeq(d, 1, s.len)) = s.len - 1 + 1
      /\ \A k \in 1 .. s.len - 1 + 1 : SubSeq(d, 1, s.len)[k] = d[1 + k - 1]
  <2>1. 1 \in 1 .. Len(d) + 1 /\ s.len \in 1 - 1 .. Len(d)
    BY <1>1, <1>2, <1>3
  <2>2. QED BY <2>1, <1>2, PartCells
<1>5. s.len - 1 + 1 = s.len /\ \A k \in 1 .. s.len : 1 + k - 1 = k
  BY <1>1
<1>6. Cells(heap, s) = SubSeq(d, 1, s.len)
  BY DEF Cells, s, d
<1>7. QED BY <1>1, <1>2, <1>3, <1>4, <1>5, <1>6 DEF s, d

\* append(s, x), for an array that is used further.
LEMMA AppendedIs ==
  ASSUME MemoryInv, NEW of \in Names, IsArray(of), NEW x
  PROVE  \E b, c : /\ Leaves(Appended(heap, var[of], x), of, b, c, var[of].len + 1)
                   /\ \A k \in 1 .. var[of].len + 1 :
                        c[k] = IF k <= var[of].len THEN heap[var[of].block][k] ELSE x
<1> DEFINE s == var[of]
           d == heap[s.block]
           r == Appended(heap, s, x)
<1>1. s.block \in Blocks /\ IsCells(d) /\ Len(d) \in Nat /\ s.len \in 0 .. Len(d)
  BY OfArray
<1>2. CASE s.len < Len(d)
  <2>1. PICK c : c = [d EXCEPT ![s.len + 1] = x]
    OBVIOUS
  <2>2. r.heap = [heap EXCEPT ![s.block] = c] /\ r.slice = Slice(s.block, s.len + 1)
    BY <1>2, <2>1 DEF Appended
  <2>3. s.len + 1 \in 1 .. Len(d) /\ d = [k \in 1 .. Len(d) |-> d[k]]
    BY <1>1, <1>2, CellsAre
  <2> HIDE DEF d, r, s
  <2>4. c = [k \in 1 .. Len(d) |-> c[k]] /\ c[s.len + 1] = x
        /\ \A k \in 1 .. Len(d) : k # s.len + 1 => c[k] = d[k]
    BY <2>1, <2>3
  <2>5. IsCells(c) /\ Len(c) = Len(d)
    BY <2>4, <1>1, FunctionCells
  <2>6. \A k \in 1 .. s.len + 1 : c[k] = IF k <= s.len THEN d[k] ELSE x
    BY <1>1, <2>3, <2>4
  <2>7. Leaves(r, of, s.block, c, s.len + 1)
    BY <2>2, <2>3, <2>5 DEF Leaves, s, d
  <2>8. QED BY <2>6, <2>7 DEF s, d, r
<1>3. CASE ~ (s.len < Len(d))
  <2>1. PICK e, room : e = Append(Cells(heap, s), x) /\ room = Grown(Len(d), s.len + 1)
    OBVIOUS
  <2>2. r = Fresh(heap, e, room)
    BY <1>3, <2>1 DEF Appended
  <2>3. room \in Int
    BY <1>1, <2>1 DEF Grown
  <2>4. IsCells(Cells(heap, s)) /\ Len(Cells(heap, s)) = s.len
        /\ \A k \in 1 .. s.len : Cells(heap, s)[k] = d[k]
    BY OfArray
  <2> HIDE DEF d, r, s
  <2>5. IsCells(e) /\ Len(e) = s.len + 1
        /\ \A k \in 1 .. s.len + 1 : e[k] = IF k <= s.len THEN d[k] ELSE x
    BY <1>1, <2>1, <2>4, AppendedCells
  <2>6. PICK b, c : b = Min(Unused) /\ c = Filled(e, room)
    OBVIOUS
  <2>7. /\ b \in Unused /\ r.heap = [heap EXCEPT ![b] = c] /\ r.slice = Slice(b, s.len + 1)
        /\ IsCells(c) /\ s.len + 1 <= Len(c) /\ SubSeq(c, 1, s.len + 1) = e
    BY <2>2, <2>3, <2>5, <2>6, FreshIs
  <2>8. Len(c) \in Nat /\ s.len + 1 \in 0 .. Len(c)
    BY <1>1, <2>7, CellsAre
  <2>9. Leaves(r, of, b, c, s.len + 1)
    BY <2>7, <2>8 DEF Leaves
  <2>10. \A k \in 1 .. s.len + 1 : c[k] = e[k]
    <3>1. 1 \in 1 .. Len(c) + 1 /\ s.len + 1 \in 1 - 1 .. Len(c)
      BY <2>8
    <3>2. \A k \in 1 .. (s.len + 1) - 1 + 1 : SubSeq(c, 1, s.len + 1)[k] = c[1 + k - 1]
      BY <3>1, <2>7, PartCells
    <3>3. (s.len + 1) - 1 + 1 = s.len + 1 /\ \A k \in 1 .. s.len + 1 : 1 + k - 1 = k
      BY <1>1
    <3>4. QED BY <3>2, <3>3, <2>7
  <2>11. QED BY <2>5, <2>9, <2>10 DEF s, d, r
<1>4. QED BY <1>2, <1>3

\* array.Add.
LEMMA AddKeeps ==
  ASSUME MemoryInv, NEW to \in Names \cup {None}, NEW of \in Names, Add(to, of)
  PROVE  Keeps
<1>1. IsArray(of)
  BY DEF Add
<1>2. PICK x : InPlace(to, of, Appended(heap, var[of], x), Append(Cells(heap, var[of]), x))
  BY DEF Add
<1>3. PICK b, c : /\ Leaves(Appended(heap, var[of], x), of, b, c, var[of].len + 1)
                  /\ \A k \in 1 .. var[of].len + 1 :
                       c[k] = IF k <= var[of].len THEN heap[var[of].block][k] ELSE x
  BY <1>1, AppendedIs
<1>4. PICK e, l : e = Cells(heap, var[of]) /\ l = var[of].len
  OBVIOUS
<1>5. IsCells(e) /\ Len(e) = l /\ l \in Nat /\ \A k \in 1 .. l : e[k] = heap[var[of].block][k]
  BY <1>1, <1>4, OfArray
<1>6. SubSeq(c, 1, l + 1) = Append(e, x)
  <2>1. IsCells(Append(e, x)) /\ Len(Append(e, x)) = l + 1
        /\ \A k \in 1 .. l + 1 : Append(e, x)[k] = IF k <= l THEN e[k] ELSE x
    BY <1>5, AppendedCells
  <2>2. IsCells(c) /\ l + 1 <= Len(c)
    BY <1>3, <1>4, CellsAre DEF Leaves
  <2>3. \A k \in 1 .. l + 1 : c[k] = Append(e, x)[k]
    BY <1>3, <1>4, <1>5, <2>1
  <2>4. QED BY <2>1, <2>2, <2>3, PrefixIs
<1>7. QED BY <1>1, <1>2, <1>3, <1>4, <1>6, InPlaceKeeps

\* What removing at an index leaves.
LEMMA WithoutKeeps ==
  ASSUME MemoryInv, NEW to \in Names \cup {None}, NEW of \in Names, IsArray(of),
         NEW i \in 1 .. var[of].len,
         InPlace(to, of, Without(heap, var[of], i), RemoveAt(Cells(heap, var[of]), i))
  PROVE  Keeps
<1>1. PICK s, e, d, r : /\ s = var[of] /\ e = Cells(heap, s) /\ d = heap[s.block]
                        /\ r = Without(heap, s, i)
  OBVIOUS
<1>2. /\ s.block \in Blocks /\ IsCells(d) /\ Len(d) \in Nat /\ s.len \in 0 .. Len(d)
      /\ IsCells(e) /\ Len(e) = s.len /\ \A k \in 1 .. s.len : e[k] = d[k]
  BY <1>1, OfArray
<1>3. d = [k \in 1 .. Len(d) |-> d[k]] /\ DOMAIN d = 1 .. Len(d)
  BY <1>2, CellsAre
<1>4. PICK c : c = [k \in DOMAIN d |-> IF k \in i .. s.len - 1 THEN d[k + 1] ELSE d[k]]
  OBVIOUS
<1>5. r.heap = [heap EXCEPT ![s.block] = c] /\ r.slice = Slice(s.block, s.len - 1)
  BY <1>1, <1>4 DEF Without
<1>6. IsCells(c) /\ Len(c) = Len(d)
  <2>1. c = [k \in 1 .. Len(d) |-> c[k]]
    BY <1>3, <1>4
  <2>2. QED BY <2>1, <1>2, FunctionCells
<1>7. Leaves(r, of, s.block, c, s.len - 1)
  <2>1. s.len - 1 \in 0 .. Len(c)
    BY <1>1, <1>2, <1>6
  <2>2. QED BY <2>1, <1>1, <1>5, <1>6 DEF Leaves
<1>8. SubSeq(c, 1, s.len - 1) = RemoveAt(e, i)
  <2>0. i \in 1 .. Len(e)
    BY <1>1, <1>2
  <2>1. IsCells(RemoveAt(e, i)) /\ Len(RemoveAt(e, i)) = s.len - 1
        /\ \A k \in 1 .. s.len - 1 : RemoveAt(e, i)[k] = IF k < i THEN e[k] ELSE e[k + 1]
    BY <2>0, <1>2, RemovedCells
  <2>2. ASSUME NEW k \in 1 .. s.len - 1 PROVE c[k] = RemoveAt(e, i)[k]
    <3>1. k \in 1 .. Len(d) /\ k \in 1 .. s.len /\ k + 1 \in 1 .. s.len /\ (k \in i .. s.len - 1 <=> ~ (k < i))
      BY <1>1, <1>2
    <3>2. QED BY <3>1, <1>2, <1>3, <1>4, <2>1
  <2>3. s.len - 1 <= Len(c)
    BY <1>2, <1>6
  <2>4. QED BY <2>1, <2>2, <2>3, <1>6, PrefixIs
<1>9. InPlace(to, of, r, RemoveAt(e, i))
  BY <1>1
<1>10. QED BY <1>7, <1>8, <1>9, InPlaceKeeps

\* array.Insert: cells moved from the right are the ones that were there.
LEMMA InsertKeeps ==
  ASSUME MemoryInv, NEW to \in Names \cup {None}, NEW of \in Names, Insert(to, of)
  PROVE  Keeps
<1>1. IsArray(of)
  BY DEF Insert
<1>2. PICK x \in Elements, i \in 1 .. var[of].len + 1 :
        InPlace(to, of, Inserted(heap, var[of], i, x), InsertAt(Cells(heap, var[of]), i, x))
  BY DEF Insert
<1>3. PICK s, e, l, r : /\ s = var[of] /\ e = Cells(heap, s) /\ l = s.len
                        /\ r = Inserted(heap, s, i, x)
  OBVIOUS
<1>4. /\ IsCells(e) /\ Len(e) = l /\ l \in Nat /\ \A k \in 1 .. l : e[k] = heap[s.block][k]
      /\ InPlace(to, of, r, InsertAt(e, i, x)) /\ i \in 1 .. l + 1
  BY <1>1, <1>2, <1>3, OfArray
<1>5. /\ IsCells(InsertAt(e, i, x)) /\ Len(InsertAt(e, i, x)) = l + 1
      /\ \A k \in 1 .. l + 1 :
           InsertAt(e, i, x)[k] = IF k < i THEN e[k] ELSE IF k = i THEN x ELSE e[k - 1]
  BY <1>4, InsertedCells
<1>6. CASE i > l
  <2>1. r = Appended(heap, s, x)
    BY <1>3, <1>6 DEF Inserted
  <2>2. PICK b, c : /\ Leaves(r, of, b, c, l + 1)
                    /\ \A k \in 1 .. l + 1 : c[k] = IF k <= l THEN heap[s.block][k] ELSE x
    BY <1>1, <1>3, <2>1, AppendedIs
  <2>3. IsCells(c) /\ l + 1 <= Len(c)
    BY <2>2, CellsAre DEF Leaves
  <2>4. \A k \in 1 .. l + 1 : c[k] = InsertAt(e, i, x)[k]
    BY <1>4, <1>5, <1>6, <2>2
  <2>5. SubSeq(c, 1, l + 1) = InsertAt(e, i, x)
    BY <1>5, <2>3, <2>4, PrefixIs
  <2>6. QED BY <1>1, <1>4, <2>2, <2>5, InPlaceKeeps
<1>7. CASE ~ (i > l)
  <2>1. PICK a : a = Appended(heap, s, 0)
    OBVIOUS
  <2>2. PICK b, c : /\ Leaves(a, of, b, c, l + 1)
                    /\ \A k \in 1 .. l + 1 : c[k] = IF k <= l THEN heap[s.block][k] ELSE 0
    BY <1>1, <1>3, <2>1, AppendedIs
  <2>3. /\ a.heap = [heap EXCEPT ![b] = c] /\ a.slice = Slice(b, l + 1)
        /\ IsCells(c) /\ l + 1 \in 0 .. Len(c)
        /\ b \in Unused \/ (b = var[of].block /\ Len(c) = Len(heap[b]))
    BY <2>2 DEF Leaves
  <2>4. a.slice.block = b /\ a.slice.len = l + 1
    BY <2>3 DEF Slice
  <2>5. b \in Blocks /\ heap = [y \in Blocks |-> heap[y]]
    BY <1>1, <2>3, OfArray, TwoUnused DEF MemoryInv, IsHeap
  <2>6. a.heap[b] = c
    BY <2>3, <2>5
  <2>7. PICK f : f = [k \in DOMAIN c |-> IF k = i THEN x ELSE IF k \in i + 1 .. l + 1 THEN c[k - 1] ELSE c[k]]
    OBVIOUS
  <2>8. r = [heap |-> [a.heap EXCEPT ![b] = f], slice |-> a.slice]
    BY <1>3, <1>7, <2>1, <2>4, <2>6, <2>7 DEF Inserted
  <2>9. r.heap = [heap EXCEPT ![b] = f] /\ r.slice = Slice(b, l + 1)
    BY <2>3, <2>5, <2>8
  <2>10. Len(c) \in Nat /\ DOMAIN c = 1 .. Len(c)
    BY <2>3, CellsAre
  <2>11. IsCells(f) /\ Len(f) = Len(c)
    <3>1. f = [k \in 1 .. Len(c) |-> f[k]]
      BY <2>7, <2>10
    <3>2. QED BY <3>1, <2>10, FunctionCells
  <2>12. Leaves(r, of, b, f, l + 1)
    BY <2>3, <2>9, <2>11 DEF Leaves
  <2>13. ASSUME NEW k \in 1 .. l + 1 PROVE f[k] = InsertAt(e, i, x)[k]
    <3>1. k \in DOMAIN c
      BY <2>3, <2>10, <1>4
    <3>2. CASE k < i
      <4>1. k \in 1 .. l /\ k # i /\ k \notin i + 1 .. l + 1
        BY <3>2, <1>4, <1>7
      <4>2. QED BY <4>1, <3>1, <3>2, <2>2, <2>7, <1>4, <1>5
    <3>3. CASE k = i
      BY <3>1, <3>3, <2>7, <1>4, <1>5
    <3>4. CASE k > i
      <4>1. k - 1 \in 1 .. l /\ k - 1 \in 1 .. l + 1 /\ k # i /\ k \in i + 1 .. l + 1 /\ ~ (k < i)
        BY <3>4, <1>4, <1>7
      <4>2. f[k] = c[k - 1] /\ c[k - 1] = heap[s.block][k - 1] /\ e[k - 1] = heap[s.block][k - 1]
        BY <4>1, <3>1, <2>2, <2>7, <1>4
      <4>3. QED BY <4>1, <4>2, <1>5
    <3>5. QED BY <3>2, <3>3, <3>4, <1>4
  <2>14. SubSeq(f, 1, l + 1) = InsertAt(e, i, x)
    <3>1. l + 1 <= Len(f)
      BY <2>3, <2>10, <2>11
    <3>2. QED BY <3>1, <1>5, <2>11, <2>13, PrefixIs
  <2>15. QED BY <1>1, <1>4, <2>12, <2>14, InPlaceKeeps
<1>8. QED BY <1>6, <1>7

\* array.RemoveAt.
LEMMA RemoveIndexKeeps ==
  ASSUME MemoryInv, NEW to \in Names \cup {None}, NEW of \in Names, RemoveIndex(to, of)
  PROVE  Keeps
  BY WithoutKeeps DEF RemoveIndex

\* The array is handed back as it is, or with fewer of its cells.
LEMMA ShortenedKeeps ==
  ASSUME MemoryInv, NEW to \in Names \cup {None}, NEW of \in Names, IsArray(of),
         NEW l \in 0 .. var[of].len, NEW means, means = SubSeq(heap[var[of].block], 1, l),
         InPlace(to, of, Same(heap, Slice(var[of].block, l)), means)
  PROVE  Keeps
<1>1. PICK b, c, r : b = var[of].block /\ c = heap[b] /\ r = Same(heap, Slice(b, l))
  OBVIOUS
<1>2. b \in Blocks /\ IsCells(c) /\ Len(c) \in Nat /\ var[of].len \in 0 .. Len(c)
  BY <1>1, OfArray
<1>3. heap = [heap EXCEPT ![b] = c]
  BY <1>1, <1>2 DEF MemoryInv, IsHeap
<1>4. Leaves(r, of, b, c, l)
  <2>1. l \in 0 .. Len(c)
    BY <1>2
  <2>2. QED BY <2>1, <1>1, <1>2, <1>3 DEF Leaves, Same
<1>5. QED BY <1>1, <1>4, InPlaceKeeps

\* array.Clear.
LEMMA ClearKeeps ==
  ASSUME MemoryInv, NEW to \in Names \cup {None}, NEW of \in Names, Clear(to, of)
  PROVE  Keeps
<1>1. IsArray(of) /\ InPlace(to, of, Same(heap, Slice(var[of].block, 0)), <<>>)
  BY DEF Clear
<1>2. SubSeq(heap[var[of].block], 1, 0) = <<>>
  <2>1. 1 \in Int /\ 0 \in Int /\ 0 < 1
    OBVIOUS
  <2>2. QED BY <2>1, SubSeqEmpty
<1>3. 0 \in 0 .. var[of].len
  BY <1>1, OfArray
<1>4. QED BY <1>1, <1>2, <1>3, ShortenedKeeps

\* array.Remove: the first cell with the value.
LEMMA RemoveValueKeeps ==
  ASSUME MemoryInv, NEW to \in Names \cup {None}, NEW of \in Names, RemoveValue(to, of)
  PROVE  Keeps
<1>1. IsArray(of)
  BY DEF RemoveValue
<1>2. PICK x : InPlace(to, of, Removed(heap, var[of], x), RemoveFirst(Cells(heap, var[of]), x))
  BY DEF RemoveValue
<1>3. PICK s, e : s = var[of] /\ e = Cells(heap, s)
  OBVIOUS
<1>4. /\ IsSlice(s) /\ s.len \in Nat /\ IsCells(e) /\ Len(e) = s.len
      /\ \A k \in 1 .. s.len : e[k] = heap[s.block][k]
      /\ InPlace(to, of, Removed(heap, s, x), RemoveFirst(e, x))
  BY <1>1, <1>2, <1>3, OfArray
<1>5. PICK found : found = {i \in 1 .. s.len : heap[s.block][i] = x}
  OBVIOUS
<1>6. found = {i \in 1 .. Len(e) : e[i] = x}
  BY <1>4, <1>5
<1>7. CASE found = {}
  <2>1. Removed(heap, s, x) = Same(heap, s)
    BY <1>5, <1>7 DEF Removed
  <2>2. RemoveFirst(e, x) = e
    BY <1>6, <1>7 DEF RemoveFirst
  <2>3. s = Slice(s.block, s.len) /\ e = SubSeq(heap[s.block], 1, s.len) /\ s.len \in 0 .. s.len
    BY <1>3, <1>4 DEF IsSlice, Cells
  <2>4. QED BY <1>1, <1>3, <1>4, <2>1, <2>2, <2>3, ShortenedKeeps
<1>8. CASE found # {}
  <2>1. Min(found) \in found
    <3>1. found \in SUBSET Nat
      BY <1>5
    <3>2. QED BY <3>1, <1>8, MinIs
  <2>2. Removed(heap, s, x) = Without(heap, s, Min(found))
    BY <1>5, <1>8 DEF Removed
  <2>3. RemoveFirst(e, x) = RemoveAt(e, Min(found))
    BY <1>6, <1>8 DEF RemoveFirst, SelectInSeq
  <2>4. Min(found) \in 1 .. var[of].len
    BY <2>1, <1>3, <1>5
  <2>5. QED BY <1>1, <1>3, <1>4, <2>2, <2>3, <2>4, WithoutKeeps
<1>9. QED BY <1>7, <1>8

--------------------------------------------------------------------------------
\* The functions that make a new array.
LEMMA LiteralKeeps ==
  ASSUME MemoryInv, NEW to \in Names, Literal(to) \/ Create(to)
  PROVE  Keeps
<1>1. CASE Literal(to)
  <2>1. PICK cells \in BoundedSeq(Elements, 2) : Copying(to, cells, Len(cells))
    BY <1>1 DEF Literal
  <2>2. PICK n \in 0 .. 2 : cells \in [1 .. n -> Elements]
    BY <2>1, Zenon DEF BoundedSeq, SeqOf
  <2>3. cells = [i \in 1 .. n |-> cells[i]]
    BY <2>2
  <2>4. IsCells(cells) /\ Len(cells) \in Int
    BY <2>3, FunctionCells
  <2>5. QED BY <2>1, <2>4, CopyingKeeps
<1>2. CASE Create(to)
  <2>1. PICK n \in 1 .. 2 : Copying(to, [i \in 1 .. n |-> 0], n)
    BY <1>2 DEF Create
  <2>2. PICK c : c = [i \in 1 .. n |-> 0]
    OBVIOUS
  <2>3. c = [i \in 1 .. n |-> c[i]] /\ n \in Nat /\ n \in Int
    BY <2>2
  <2>4. IsCells(c)
    BY <2>3, FunctionCells
  <2>5. QED BY <2>1, <2>2, <2>3, <2>4, CopyingKeeps
<1>3. QED BY <1>1, <1>2

\* array.Clone, array.Reverse and array.Sort.
LEMMA CopyKeeps ==
  ASSUME MemoryInv, NEW to \in Names, NEW of \in Names,
         Clone(to, of) \/ ReverseOf(to, of) \/ Sort(to, of)
  PROVE  Keeps
<1>1. IsArray(of)
  BY DEF Clone, ReverseOf, Sort
<1>2. PICK e, l : e = Cells(heap, var[of]) /\ l = var[of].len
  OBVIOUS
<1>3. IsCells(e) /\ Len(e) = l /\ l \in Nat /\ l \in Int /\ DOMAIN e = 1 .. l
  BY <1>1, <1>2, OfArray, CellsAre
<1>4. CASE Clone(to, of)
  <2>1. Copying(to, e, l)
    BY <1>2, <1>4 DEF Clone
  <2>2. QED BY <2>1, <1>3, CopyingKeeps
<1>5. CASE ReverseOf(to, of)
  <2>1. PICK c : c = Reverse(e)
    OBVIOUS
  <2>2. c = [i \in 1 .. l |-> c[i]]
    BY <2>1, <1>3 DEF Reverse
  <2>3. IsCells(c)
    BY <2>2, <1>3, FunctionCells
  <2>4. Copying(to, c, l)
    BY <1>2, <1>5, <2>1 DEF ReverseOf
  <2>5. QED BY <2>3, <2>4, <1>3, CopyingKeeps
<1>6. CASE Sort(to, of)
  <2>1. PICK c : c = Sorted(e)
    OBVIOUS
  <2>2. c = [i \in 1 .. l |-> c[i]]
    BY <2>1, <1>3 DEF Sorted
  <2>3. IsCells(c)
    BY <2>2, <1>3, FunctionCells
  <2>4. Copying(to, c, l)
    BY <1>2, <1>6, <2>1 DEF Sort
  <2>5. QED BY <2>3, <2>4, <1>3, CopyingKeeps
<1>7. QED BY <1>4, <1>5, <1>6

\* array.Unique.
LEMMA UniqueKeeps ==
  ASSUME MemoryInv, NEW to \in Names, NEW of \in Names, Unique(to, of)
  PROVE  Keeps
<1>1. IsArray(of)
  BY DEF Unique
<1>2. PICK e, c : e = Cells(heap, var[of]) /\ c = Distinct(e)
  OBVIOUS
<1>3. IsCells(e) /\ Len(e) \in Nat /\ DOMAIN e = 1 .. Len(e)
  BY <1>1, <1>2, OfArray, CellsAre
<1>4. PICK n : n = Cardinality(Firsts(e))
  OBVIOUS
<1>5. n \in Nat
  <2>1. IsFiniteSet(1 .. Len(e))
    BY <1>3, FS_Interval
  <2>2. Firsts(e) \in SUBSET (1 .. Len(e))
    BY <1>3 DEF Firsts
  <2>3. IsFiniteSet(Firsts(e))
    BY <2>1, <2>2, FS_Subset
  <2>4. QED BY <2>3, <1>4, FS_CardinalityType
<1>6. c = [k \in 1 .. n |-> c[k]]
  BY <1>2, <1>4 DEF Distinct
<1>7. IsCells(c) /\ Len(c) = n
  BY <1>5, <1>6, FunctionCells
<1>8. Copying(to, c, RoomOf(Len(c)))
  BY <1>2 DEF Unique
<1>9. RoomOf(Len(c)) \in Int
  <2>1. n <= 256
    BY <1>5, <1>7, <1>8, ArrayAssumption DEF Copying
  <2>2. PICK R : R = {room \in {0, 1, 2, 4, 8, 16, 32, 64, 128, 256} : room >= n}
    OBVIOUS
  <2>3. R \in SUBSET Nat /\ 256 \in R
    BY <2>1, <2>2
  <2>4. Min(R) \in Nat
    BY <2>3, MinIs
  <2>5. QED BY <2>2, <2>4, <1>7 DEF RoomOf
<1>10. QED BY <1>7, <1>8, <1>9, CopyingKeeps

\* array.Merge.
LEMMA MergeKeeps ==
  ASSUME MemoryInv, NEW to \in Names, NEW of \in Names, NEW with \in Names, Merge(to, of, with)
  PROVE  Keeps
<1>1. IsArray(of) /\ IsArray(with)
  BY DEF Merge
<1>2. PICK c, d, room : /\ c = Cells(heap, var[of]) /\ d = Cells(heap, var[with])
                        /\ room = Grown(var[of].len, var[of].len + var[with].len)
  OBVIOUS
<1>3. IsCells(c) /\ IsCells(d) /\ var[of].len \in Nat /\ var[with].len \in Nat
  BY <1>1, <1>2, OfArray
<1>4. IsCells(c \o d)
  BY <1>3, JoinedCells
<1>5. room \in Int
  BY <1>2, <1>3 DEF Grown
<1>6. Copying(to, c \o d, room)
  BY <1>2 DEF Merge
<1>7. QED BY <1>4, <1>5, <1>6, CopyingKeeps

--------------------------------------------------------------------------------
\* Statements that hand on what there is.
LEMMA AssignKeeps ==
  ASSUME MemoryInv, NEW to \in Names, NEW of \in Names, Assign(to, of)
  PROVE  Keeps
<1>1. PICK v, means : v = var[of] /\ means = Content(heap, v)
  OBVIOUS
<1>2. Becomes(to, heap, v, {of}) /\ Statement({to}, to, means)
  BY <1>1 DEF Assign
<1>3. IsValue(v) /\ Fits(heap, v) /\ BlocksOf(v) \subseteq Reachable({of})
  BY <1>1, ValueIs DEF MemoryInv, VariablesOK, Reachable, BlocksOfSome
<1>4. Touches(heap, {})
  BY DEF Touches, MemoryInv
<1>5. {} \cup {to} \subseteq {to} /\ {of} \in SUBSET Names /\ {} \in SUBSET Names
  OBVIOUS
<1>6. QED BY <1>1, <1>2, <1>3, <1>4, <1>5, BecomesKeeps

\* A row of a matrix: the slice is copied, the block is not.
LEMMA RowKeeps ==
  ASSUME MemoryInv, NEW to \in Names, NEW of \in Names, RowOf(to, of)
  PROVE  Keeps
<1>0. IsValue(var[of]) /\ var[of].kind = "arr2d"
  BY DEF RowOf, IsMatrix, MemoryInv, VariablesOK
<1>1. PICK s, t : IsSlice(s) /\ IsSlice(t) /\ var[of] = Matrix(<<s, t>>)
  BY <1>0, OfSlice DEF IsValue
<1>2. /\ var[of].rows = <<s, t>> /\ SlicesOf(var[of]) = {s, t}
      /\ BlocksOf(var[of]) = {s.block, t.block} \ {0}
  BY <1>1, OfMatrix
<1>3. PICK i \in 1 .. 2 : /\ Becomes(to, heap, var[of].rows[i], {of})
                         /\ Statement({to}, to, <<Cells(heap, var[of].rows[i])>>)
  BY DEF RowOf
<1>4. PICK row : row = var[of].rows[i]
  OBVIOUS
<1>5. row \in {s, t} /\ IsSlice(row)
  BY <1>1, <1>2, <1>4
<1>6. Fits(heap, row) /\ Content(heap, row) = <<Cells(heap, row)>>
  BY <1>2, <1>5, OfSlice DEF MemoryInv, VariablesOK, Fits
<1>7. BlocksOf(row) \subseteq Reachable({of})
  BY <1>2, <1>5, OfSlice DEF Reachable, BlocksOfSome, IsSlice
<1>8. Touches(heap, {}) /\ IsValue(row)
  BY <1>5 DEF Touches, MemoryInv, IsValue
<1>9. {} \cup {to} \subseteq {to} /\ {of} \in SUBSET Names /\ {} \in SUBSET Names
  OBVIOUS
<1>10. Becomes(to, heap, row, {of}) /\ Statement({to}, to, <<Cells(heap, row)>>)
  BY <1>3, <1>4
<1>11. QED BY <1>6, <1>7, <1>8, <1>9, <1>10, BecomesKeeps

\* A matrix of two arrays.
LEMMA CreateMatrixKeeps ==
  ASSUME MemoryInv, NEW to \in Names, NEW a \in Names, NEW b \in Names, CreateMatrix(to, a, b)
  PROVE  Keeps
<1>1. PICK s, t, m : s = var[a] /\ t = var[b] /\ m = Matrix(<<s, t>>)
  OBVIOUS
<1>2. /\ IsSlice(s) /\ IsSlice(t) /\ Fits(heap, s) /\ Fits(heap, t)
      /\ s.len = t.len \/ "ragged" \in ArrayFeatures
  BY <1>1, OfArray DEF CreateMatrix, MemoryInv, VariablesOK
<1>3. /\ SlicesOf(m) = {s, t} /\ BlocksOf(m) = {s.block, t.block} \ {0}
      /\ Content(heap, m) = <<Cells(heap, s), Cells(heap, t)>>
  <2>1. /\ SlicesOf(m) = {s, t} /\ BlocksOf(m) = {s.block, t.block} \ {0}
        /\ \A h : Content(h, m) = <<Cells(h, s), Cells(h, t)>>
    BY <1>1, <1>2, OfMatrix
  <2>2. QED BY <2>1
<1>4. IsValue(m) /\ Fits(heap, m)
  <2>1. SlicesOf(s) = {s} /\ SlicesOf(t) = {t}
    BY <1>2, OfSlice
  <2>2. s.len <= Len(heap[s.block]) /\ t.len <= Len(heap[t.block])
    BY <1>2, <2>1 DEF Fits
  <2>3. Fits(heap, m)
    BY <1>3, <2>2 DEF Fits
  <2>4. IsValue(m)
    BY <1>1, <1>2 DEF IsValue
  <2>5. QED BY <2>3, <2>4
<1>5. BlocksOf(m) \subseteq Reachable({a, b})
  BY <1>1, <1>2, <1>3, OfSlice DEF Reachable, BlocksOfSome, IsSlice
<1>6. Touches(heap, {}) /\ {} \cup {to} \subseteq {to} /\ {a, b} \in SUBSET Names /\ {} \in SUBSET Names
  BY DEF Touches, MemoryInv
<1>7. Becomes(to, heap, m, {a, b}) /\ Statement({to}, to, <<Cells(heap, s), Cells(heap, t)>>)
  BY <1>1 DEF CreateMatrix
<1>8. QED BY <1>3, <1>4, <1>5, <1>6, <1>7, BecomesKeeps

--------------------------------------------------------------------------------
\* One cell of a block is overwritten.
Overwritten(b, j, x) == [heap EXCEPT ![b][j] = x]
DiffersAt(c, d, j, x) ==
  IsCells(c) /\ Len(c) = Len(d) /\ c[j] = x /\ \A k \in 1 .. Len(d) : k # j => c[k] = d[k]

\* To overwrite a cell touches the block of its variable only.
LEMMA OverwrittenIs ==
  ASSUME MemoryInv, NEW to \in Names, NEW b \in BlocksOf(var[to]), NEW j \in 1 .. Len(heap[b]), NEW x,
         NEW h, h = Overwritten(b, j, x)
  PROVE  Touches(h, {to}) /\ DiffersAt(h[b], heap[b], j, x)
<1>1. PICK d, c : d = heap[b] /\ c = [d EXCEPT ![j] = x]
  OBVIOUS
<1>2. b \in Blocks
  BY ValueIs DEF MemoryInv, VariablesOK
<1>3. Len(d) \in Nat /\ d = [k \in 1 .. Len(d) |-> d[k]] /\ j \in 1 .. Len(d)
  BY <1>1, <1>2, CellsAre DEF MemoryInv, IsHeap
<1>4. c = [k \in 1 .. Len(d) |-> c[k]] /\ c[j] = x /\ \A k \in 1 .. Len(d) : k # j => c[k] = d[k]
  BY <1>1, <1>3
<1>5. IsCells(c) /\ Len(c) = Len(d)
  BY <1>3, <1>4, FunctionCells
<1>6. h = [heap EXCEPT ![b] = c]
  BY <1>1 DEF Overwritten
<1>7. b \in Reachable({to}) /\ {to} \in SUBSET Names
  BY <1>2 DEF Reachable, BlocksOfSome
<1>8. Touches(h, {to}) /\ h[b] = c
  <2>1. Len(c) = Len(heap[b])
    BY <1>1, <1>5
  <2>2. QED BY <1>2, <1>5, <1>6, <1>7, <2>1, WriteTouches
<1>9. DiffersAt(c, d, j, x)
  BY <1>4, <1>5 DEF DiffersAt
<1>10. QED BY <1>1, <1>8, <1>9

\* The larger of two numbers.
LEMMA LargerIs ==
  ASSUME NEW a \in Nat, NEW b \in Nat
  PROVE  Max({a, b}) = IF a >= b THEN a ELSE b
<1> DEFINE m == IF a >= b THEN a ELSE b
<1>1. m \in {a, b} /\ \A y \in {a, b} : m >= y
  OBVIOUS
<1>2. \A x \in {a, b} : (\A y \in {a, b} : x >= y) => x = m
  OBVIOUS
<1>3. QED BY <1>1, <1>2 DEF Max

\* a(i) = x, where a may grow.
LEMMA AssignIndexKeeps ==
  ASSUME MemoryInv, NEW to \in Names, AssignIndex(to)
  PROVE  Keeps
<1>1. IsArray(to)
  BY DEF AssignIndex
<1>2. PICK s, e, d : s = var[to] /\ e = Cells(heap, s) /\ d = heap[s.block]
  OBVIOUS
<1>3. PICK x \in Elements, i \in 1 .. MaxArray :
        LET means == [k \in 1 .. Max({s.len, i}) |->
                        IF k = i THEN x ELSE IF k <= s.len THEN Cells(heap, s)[k] ELSE 0]
        IN  /\ IF i <= s.len
               THEN Becomes(to, [heap EXCEPT ![s.block][i] = x], s, {to})
               ELSE LET r == Fresh(heap, means, i) IN Becomes(to, r.heap, r.slice, {to})
            /\ Statement({to}, to, <<means>>)
  BY <1>2 DEF AssignIndex
<1>4. PICK n : n = Max({s.len, i})
  OBVIOUS
<1>5. PICK m : m = [k \in 1 .. n |-> IF k = i THEN x ELSE IF k <= s.len THEN e[k] ELSE 0]
  OBVIOUS
<1>6. /\ IF i <= s.len THEN Becomes(to, [heap EXCEPT ![s.block][i] = x], s, {to})
                       ELSE Becomes(to, Fresh(heap, m, i).heap, Fresh(heap, m, i).slice, {to})
      /\ Statement({to}, to, <<m>>)
  BY <1>2, <1>3, <1>4, <1>5
<1>7. /\ IsSlice(s) /\ s.len \in Nat /\ s.len <= Len(d) /\ Len(d) \in Nat /\ IsCells(d)
      /\ \A k \in 1 .. s.len : e[k] = d[k]
  BY <1>1, <1>2, OfArray
<1>8. i \in Nat /\ i >= 1
  BY ArrayAssumption
<1>9. n = IF s.len >= i THEN s.len ELSE i
  BY <1>4, <1>7, <1>8, LargerIs
<1>10. IsCells(m) /\ Len(m) = n /\ n \in Nat
  <2>1. m = [k \in 1 .. n |-> m[k]] /\ n \in Nat
    BY <1>5, <1>7, <1>8, <1>9
  <2>2. QED BY <2>1, FunctionCells
<1>11. CASE i <= s.len
  <2>1. PICK h : h = Overwritten(s.block, i, x)
    OBVIOUS
  <2>2. s.block # 0
    BY <1>2, <1>7, <1>8, <1>11, EmptySeq DEF MemoryInv, IsHeap
  <2>3. s.block \in BlocksOf(var[to]) /\ SlicesOf(s) = {s} /\ BlocksOf(s) = {s.block}
        /\ Content(h, s) = <<Cells(h, s)>>
    BY <1>2, <1>7, <2>2, OfSlice
  <2>4. i \in 1 .. Len(heap[s.block])
    BY <1>2, <1>7, <1>8, <1>11
  <2>5. Touches(h, {to}) /\ DiffersAt(h[s.block], heap[s.block], i, x)
    BY <2>1, <2>3, <2>4, OverwrittenIs
  <2>6. PICK c : /\ c = h[s.block] /\ IsCells(c) /\ Len(c) = Len(d)
                 /\ c[i] = x /\ \A k \in 1 .. Len(d) : k # i => c[k] = d[k]
    BY <1>2, <2>5 DEF DiffersAt
  <2>7. SubSeq(c, 1, Len(m)) = m
    <3>1. Len(m) = s.len /\ Len(m) <= Len(c)
      BY <1>7, <1>8, <1>9, <1>10, <1>11, <2>5, <2>6
    <3>2. ASSUME NEW k \in 1 .. Len(m) PROVE c[k] = m[k]
      <4>1. k \in 1 .. n /\ k \in 1 .. s.len /\ k \in 1 .. Len(d) /\ k <= s.len
        BY <3>1, <1>7, <1>10
      <4>2. QED BY <4>1, <1>5, <1>7, <2>5, <2>6
    <3>3. QED BY <3>1, <3>2, <1>10, <2>5, <2>6, PrefixIs
  <2>8. Content(h, s) = <<m>>
    <3>1. Len(m) = s.len
      BY <1>7, <1>8, <1>9, <1>10, <1>11
    <3>2. QED BY <3>1, <2>3, <2>6, <2>7 DEF Cells
  <2>9. Fits(h, s)
    BY <1>7, <2>3, <2>6 DEF Fits
  <2>10. BlocksOf(s) \subseteq Reachable({to}) /\ IsValue(s)
    BY <1>2, <1>7, <2>3 DEF IsValue, IsSlice, Reachable, BlocksOfSome
  <2>11. Becomes(to, h, s, {to}) /\ {to} \cup {to} \subseteq {to} /\ {to} \in SUBSET Names
    BY <1>6, <1>11, <2>1 DEF Overwritten
  <2>12. QED BY <1>6, <2>5, <2>8, <2>9, <2>10, <2>11, BecomesKeeps
<1>12. CASE ~ (i <= s.len)
  <2>1. i \in Int /\ {to} \in SUBSET Names
    BY <1>8
  <2>2. QED BY <1>6, <1>10, <1>12, <2>1, NewKeeps
<1>13. QED BY <1>11, <1>12

\* m(i, j) = x.
LEMMA AssignCellKeeps ==
  ASSUME MemoryInv, NEW to \in Names, AssignCell(to)
  PROVE  Keeps
<1>1. PICK v : v = var[to]
  OBVIOUS
<1>2. IsValue(v) /\ v.kind = "arr2d" /\ Fits(heap, v)
  BY <1>1 DEF AssignCell, IsMatrix, MemoryInv, VariablesOK
<1>3. PICK s, t : IsSlice(s) /\ IsSlice(t) /\ v = Matrix(<<s, t>>)
  BY <1>2, OfSlice DEF IsValue
<1>4. /\ v.rows = <<s, t>> /\ SlicesOf(v) = {s, t}
      /\ BlocksOf(v) = {s.block, t.block} \ {0}
  BY <1>3, OfMatrix
<1>5. PICK x \in Elements, i \in 1 .. 2 : \E j \in 1 .. v.rows[i].len :
        LET row == v.rows[i]
            h == [heap EXCEPT ![row.block][j] = x]
        IN  /\ Becomes(to, h, var[to], {to})
            /\ Statement({to}, to, Content(h, var[to]))
  BY <1>1 DEF AssignCell
<1>6. PICK row : row = v.rows[i]
  OBVIOUS
<1>7. PICK j \in 1 .. row.len : LET h == [heap EXCEPT ![row.block][j] = x]
                                IN  /\ Becomes(to, h, v, {to})
                                    /\ Statement({to}, to, Content(h, v))
  BY <1>1, <1>5, <1>6
<1>8. PICK h : h = [heap EXCEPT ![row.block][j] = x]
  OBVIOUS
<1>9. Becomes(to, h, v, {to}) /\ Statement({to}, to, Content(h, v))
  BY <1>7, <1>8
<1>10. row \in SlicesOf(v) /\ IsSlice(row)
  BY <1>3, <1>4, <1>6
<1>11. row.block \in Blocks /\ row.len \in Nat /\ row.len <= Len(heap[row.block]) /\ Len(heap[row.block]) \in Nat
  BY <1>2, <1>10, CellsAre DEF Fits, IsSlice, MemoryInv, IsHeap
<1>12. j \in 1 .. Len(heap[row.block])
  BY <1>11
<1>13. row.block # 0
  BY <1>12, EmptySeq DEF MemoryInv, IsHeap
<1>14. row.block \in BlocksOf(var[to])
  BY <1>1, <1>2, <1>10, <1>13, ValueIs
<1>15. Touches(h, {to})
  BY <1>8, <1>12, <1>14, OverwrittenIs DEF Overwritten
<1>16. {to} \in SUBSET Names /\ {to} \cup {to} \subseteq {to}
  OBVIOUS
<1>17. Fits(h, v)
  BY <1>1, <1>15, <1>16, Untouched
<1>18. BlocksOf(v) \subseteq Reachable({to})
  BY <1>1, <1>2, ValueIs DEF Reachable, BlocksOfSome
<1>19. QED BY <1>2, <1>9, <1>15, <1>16, <1>17, <1>18, BecomesKeeps

\* array.Chunk: two rows in two new blocks.
LEMMA ChunkKeeps ==
  ASSUME MemoryInv, NEW to \in Names, NEW of \in Names, Chunk(to, of)
  PROVE  Keeps
<1>1. IsArray(of) /\ var[of].len >= 2
  BY DEF Chunk
<1>2. PICK e, n, cut, b, o : /\ e = Cells(heap, var[of]) /\ n = var[of].len /\ cut = (n + 1) \div 2
                             /\ b = Min(Unused) /\ o = Min(Unused \ {b})
  OBVIOUS
<1>3. PICK left, rest : left = SubSeq(e, 1, cut) /\ rest = SubSeq(e, cut + 1, n)
  OBVIOUS
<1>4. PICK first : first = Fresh(heap, left, cut)
  OBVIOUS
<1>5. IsCells(e) /\ Len(e) = n /\ n \in Nat /\ n >= 2 /\ cut \in 1 .. n
  <2>1. IsCells(e) /\ Len(e) = n /\ n \in Nat /\ n >= 2
    BY <1>1, <1>2, OfArray, CellsAre
  <2>2. QED BY <2>1, <1>2
<1>6. IsCells(left) /\ Len(left) = cut
  <2>1. 1 \in 1 .. Len(e) + 1 /\ cut \in 1 - 1 .. Len(e) /\ cut - 1 + 1 = cut
    BY <1>5
  <2>2. IsCells(SubSeq(e, 1, cut)) /\ Len(SubSeq(e, 1, cut)) = cut - 1 + 1
    BY <2>1, <1>5, PartCells
  <2>3. QED BY <2>1, <2>2, <1>3
<1>7. IsCells(rest)
  <2>1. cut + 1 \in 1 .. Len(e) + 1 /\ n \in (cut + 1) - 1 .. Len(e)
    BY <1>5
  <2>2. QED BY <2>1, <1>3, <1>5, PartCells
<1>8. PICK c : c = Filled(left, cut)
  OBVIOUS
<1>9. /\ b \in Unused /\ first.heap = [heap EXCEPT ![b] = c] /\ first.slice = Slice(b, cut)
      /\ IsCells(c) /\ cut <= Len(c) /\ SubSeq(c, 1, cut) = left
  <2>1. cut \in Int
    BY <1>5
  <2>2. /\ Min(Unused) \in Unused
        /\ Fresh(heap, left, cut).heap = [heap EXCEPT ![Min(Unused)] = Filled(left, cut)]
        /\ Fresh(heap, left, cut).slice = Slice(Min(Unused), Len(left))
        /\ IsCells(Filled(left, cut)) /\ Len(left) <= Len(Filled(left, cut))
        /\ SubSeq(Filled(left, cut), 1, Len(left)) = left
    BY <2>1, <1>6, FreshIs
  <2>3. QED BY <2>2, <1>2, <1>4, <1>6, <1>8
<1>10. o \in Unused /\ o # b /\ b \in Blocks \ {0} /\ o \in Blocks \ {0}
  BY <1>2, <1>9, NextUnused, TwoUnused DEF MemoryInv
<1>11. PICK s, t : s = Slice(b, cut) /\ t = Slice(o, Len(rest))
  OBVIOUS
<1>12. PICK h : h = [first.heap EXCEPT ![o] = rest]
  OBVIOUS
<1>13. /\ "ragged" \in ArrayFeatures \/ Len(rest) = cut
       /\ Becomes(to, h, Matrix(<<s, t>>), {})
       /\ Statement({to}, to, <<left, rest>>)
  <2>1. first.slice.block = b /\ first.slice = s
    BY <1>9, <1>11 DEF Slice
  <2>2. QED BY <2>1, <1>2, <1>3, <1>4, <1>11, <1>12 DEF Chunk
<1>14. /\ IsSlice(s) /\ s.block = b /\ s.len = cut
       /\ IsSlice(t) /\ t.block = o /\ t.len = Len(rest)
  BY <1>5, <1>7, <1>10, <1>11, CellsAre DEF IsSlice, Slice
<1>15. PICK m : m = Matrix(<<s, t>>)
  OBVIOUS
<1>16. /\ SlicesOf(m) = {s, t} /\ BlocksOf(m) = {b, o}
       /\ Content(h, m) = <<Cells(h, s), Cells(h, t)>>
  <2>1. /\ SlicesOf(m) = {s, t} /\ BlocksOf(m) = {s.block, t.block} \ {0}
        /\ \A g : Content(g, m) = <<Cells(g, s), Cells(g, t)>>
    BY <1>14, <1>15, OfMatrix
  <2>2. QED BY <2>1, <1>10, <1>14
<1>17. heap = [x \in Blocks |-> heap[x]]
  BY DEF MemoryInv, IsHeap
<1>18. h = [x \in Blocks |-> h[x]] /\ h[b] = c /\ h[o] = rest /\ \A x \in Blocks \ {b, o} : h[x] = heap[x]
  BY <1>9, <1>10, <1>12, <1>17
<1>19. IsHeap(h)
  BY <1>7, <1>9, <1>10, <1>18, TwoUnused DEF MemoryInv, IsHeap
<1>20. Touches(h, {})
  BY <1>9, <1>10, <1>18, <1>19 DEF Touches, Reachable
<1>21. Fits(h, m)
  BY <1>7, <1>9, <1>14, <1>16, <1>18, CellsAre DEF Fits
<1>22. IsValue(m)
  BY <1>13, <1>14, <1>15 DEF IsValue
<1>23. Cells(h, s) = left /\ Cells(h, t) = rest
  <2>1. Cells(h, s) = left
    BY <1>9, <1>14, <1>18 DEF Cells
  <2>2. SubSeq(rest, 1, Len(rest)) = rest
    BY <1>7, SubSeqFull DEF IsCells
  <2>3. QED BY <2>1, <2>2, <1>14, <1>18 DEF Cells
<1>24. BlocksOf(m) \subseteq Reachable({})
  BY <1>9, <1>10, <1>16 DEF Reachable
<1>25. {} \cup {to} \subseteq {to} /\ {} \in SUBSET Names /\ Content(h, m) = <<left, rest>>
  BY <1>16, <1>23
<1>26. Becomes(to, h, m, {})
  BY <1>13, <1>15
<1>27. QED BY <1>13, <1>20, <1>21, <1>22, <1>24, <1>25, <1>26, BecomesKeeps

--------------------------------------------------------------------------------
\* Every statement.
LEMMA StatementKeeps ==
  ASSUME MemoryInv, count \in 0 .. MaxStatements, ArrayNext
  PROVE  Keeps /\ count' \in 0 .. MaxStatements
<1>1. Keeps
  <2>1. CASE \E to \in Names : Literal(to) \/ Create(to) \/ AssignIndex(to) \/ AssignCell(to)
    BY <2>1, LiteralKeeps, AssignIndexKeeps, AssignCellKeeps
  <2>2. CASE \E to \in Names, of \in Names :
               \/ Assign(to, of) \/ Clone(to, of) \/ ReverseOf(to, of) \/ Sort(to, of) \/ Unique(to, of)
               \/ RowOf(to, of) \/ Chunk(to, of)
               \/ \E with \in Names : Merge(to, of, with) \/ CreateMatrix(to, of, with)
    BY <2>2, AssignKeeps, CopyKeeps, UniqueKeeps, RowKeeps, ChunkKeeps, MergeKeeps, CreateMatrixKeeps
  <2>3. CASE \E to \in Names \cup {None}, of \in Names :
               Add(to, of) \/ Insert(to, of) \/ RemoveValue(to, of) \/ RemoveIndex(to, of) \/ Clear(to, of)
    BY <2>3, AddKeeps, InsertKeeps, RemoveValueKeeps, RemoveIndexKeeps, ClearKeeps
  <2>4. QED BY <2>1, <2>2, <2>3 DEF ArrayNext
<1>2. count < MaxStatements
  BY DEF ArrayNext
<1>3. QED BY <1>1, <1>2, ArrayAssumption DEF Keeps

\* Every script begins with it.
LEMMA ArraysInit == ArrayInit => MemoryInv /\ CallsMean /\ count \in 0 .. MaxStatements
<1> SUFFICES ASSUME ArrayInit PROVE MemoryInv /\ CallsMean /\ count \in 0 .. MaxStatements
  OBVIOUS
<1>1. 0 \in Blocks /\ (\A n \in Names : 1 \in Blocks)
  <2>1. Cardinality(Names) \in Nat
    BY ArrayAssumption, FS_CardinalityType
  <2>2. QED BY <2>1 DEF Blocks
<1>2. CallsMean /\ count \in 0 .. MaxStatements
  BY ArrayAssumption DEF ArrayInit, CallsMean
<1>3. IsSlice(Slice(0, 0)) /\ Slice(0, 0).block = 0 /\ Slice(0, 0).len = 0
  BY <1>1 DEF IsSlice, Slice
<1>4. IsCells(<<>>) /\ Len(<<>>) = 0
  <2>1. <<>> \in Seq({})
    OBVIOUS
  <2>2. QED BY <2>1 DEF IsCells
<1>5. BlocksOf(Slice(0, 0)) = {}
  BY <1>3, OfSlice
<1>6. CASE heap = [b \in Blocks |-> <<>>] /\ var = [n \in Names |-> Slice(0, 0)]
  <2>1. IsHeap(heap)
    BY <1>1, <1>4, <1>6 DEF IsHeap
  <2>2. Fits(heap, Slice(0, 0))
    BY <1>1, <1>3, <1>4, <1>6, OfSlice DEF Fits
  <2>3. VariablesOK
    BY <1>3, <1>6, <2>2 DEF VariablesOK, IsValue
  <2>4. Sharing
    BY <1>5, <1>6 DEF Sharing
  <2>5. QED BY <1>2, <2>1, <2>3, <2>4 DEF MemoryInv
<1>7. CASE \E n \in Names, once \in {<<>>, <<1, 0>>} :
             /\ heap = [b \in Blocks |-> IF b = 1 THEN <<2, 1>> \o once ELSE <<>>]
             /\ var = [m \in Names |-> IF m = n THEN Slice(1, 2) ELSE Slice(0, 0)]
  <2>1. PICK n \in Names, once \in {<<>>, <<1, 0>>} :
             /\ heap = [b \in Blocks |-> IF b = 1 THEN <<2, 1>> \o once ELSE <<>>]
             /\ var = [m \in Names |-> IF m = n THEN Slice(1, 2) ELSE Slice(0, 0)]
    BY <1>7
  <2>2. PICK c : c = <<2, 1>> \o once
    OBVIOUS
  <2>3. IsCells(c) /\ Len(c) >= 2 /\ Len(c) \in Nat
    <3>1. <<2, 1>> \in Seq(Nat) /\ Len(<<2, 1>>) = 2
      OBVIOUS
    <3>2. once \in Seq(Nat) /\ Len(once) \in Nat
      <4>1. <<>> \in Seq(Nat) /\ <<1, 0>> \in Seq(Nat)
        OBVIOUS
      <4>2. QED BY <4>1, LenProperties
    <3>3. c \in Seq(Nat) /\ Len(c) = Len(<<2, 1>>) + Len(once)
      BY <3>1, <3>2, <2>2, ConcatProperties
    <3>4. QED BY <3>1, <3>2, <3>3 DEF IsCells
  <2>4. heap[1] = c /\ heap[0] = <<>> /\ heap = [b \in Blocks |-> heap[b]]
        /\ \A b \in Blocks : heap[b] \in {c, <<>>}
    BY <1>1, <2>1, <2>2
  <2>5. IsHeap(heap)
    BY <1>4, <2>3, <2>4 DEF IsHeap
  <2>6. IsSlice(Slice(1, 2)) /\ Slice(1, 2).block = 1 /\ Slice(1, 2).len = 2
    BY <1>1 DEF IsSlice, Slice
  <2>7. Fits(heap, Slice(0, 0)) /\ Fits(heap, Slice(1, 2))
    <3>1. SlicesOf(Slice(0, 0)) = {Slice(0, 0)} /\ SlicesOf(Slice(1, 2)) = {Slice(1, 2)}
      BY <1>3, <2>6, OfSlice
    <3>2. QED BY <3>1, <1>3, <1>4, <2>3, <2>4, <2>6 DEF Fits
  <2>8. /\ \A m \in Names : var[m] \in {Slice(1, 2), Slice(0, 0)} /\ (m # n => var[m] = Slice(0, 0))
        /\ var = [m \in Names |-> var[m]]
    BY <2>1
  <2>9. VariablesOK
    <3>1. \A m \in Names : IsSlice(var[m]) /\ Fits(heap, var[m])
      BY <1>3, <2>6, <2>7, <2>8
    <3>2. QED BY <3>1, <2>8 DEF VariablesOK, IsValue
  <2>10. Sharing
    BY <1>5, <2>8 DEF Sharing
  <2>11. QED BY <1>2, <2>5, <2>9, <2>10 DEF MemoryInv
<1>8. QED BY <1>6, <1>7 DEF ArrayInit

\* What the invariant says of slices and rows.
LEMMA ArraysAreOK ==
  ASSUME "ragged" \notin ArrayFeatures, MemoryInv, count \in 0 .. MaxStatements
  PROVE  ArraysOK
<1>1. ASSUME NEW n \in Names
      PROVE  /\ \A s \in SlicesOf(var[n]) : s.block \in Blocks /\ s.len \in 0 .. Len(heap[s.block])
             /\ ReadsInside(var[n])
  <2>1. IsValue(var[n]) /\ Fits(heap, var[n])
    BY DEF MemoryInv, VariablesOK
  <2>2. \A s \in SlicesOf(var[n]) : IsSlice(s) /\ s.len <= Len(heap[s.block]) /\ Len(heap[s.block]) \in Nat
    BY <2>1, ValueIs, CellsAre DEF Fits, IsSlice, MemoryInv, IsHeap
  <2>3. ReadsInside(var[n])
    <3>1. CASE IsSlice(var[n])
      BY <3>1, OfSlice DEF ReadsInside
    <3>2. CASE ~ IsSlice(var[n])
      <4>1. PICK s, t : IsSlice(s) /\ IsSlice(t) /\ var[n] = Matrix(<<s, t>>) /\ s.len = t.len
        BY <3>2, <2>1 DEF IsValue
      <4>2. var[n].rows = <<s, t>>
        BY <4>1, OfMatrix
      <4>3. QED BY <4>1, <4>2 DEF ReadsInside, IsSlice
    <3>3. QED BY <3>1, <3>2
  <2>4. QED BY <2>2, <2>3 DEF IsSlice
<1>2. QED BY <1>1 DEF ArraysOK, MemoryInv, Sharing

\* The memory of arrays at every moment.
ArraysInv == MemoryInv /\ CallsMean /\ count \in 0 .. MaxStatements

\* One statement, or none.
LEMMA ArraysStep ==
  ASSUME ArraysInv, [ArrayNext]_arrayVars
  PROVE  /\ ArraysInv'
         /\ \A n \in Names : Content(heap', var'[n]) # Content(heap, var[n]) => n \in Relatives(last'.named)
<1>1. CASE ArrayNext
  BY <1>1, StatementKeeps DEF ArraysInv, Keeps
<1>2. CASE UNCHANGED arrayVars
  <2>1. heap' = heap /\ var' = var /\ kin' = kin /\ last' = last /\ count' = count
    BY <1>2 DEF arrayVars
  <2>2. MemoryInv' /\ CallsMean'
    BY <2>1 DEF ArraysInv, MemoryInv, VariablesOK, Sharing, CallsMean
  <2>3. QED BY <2>1, <2>2 DEF ArraysInv
<1>3. QED BY <1>1, <1>2

\* And so at every moment.
LEMMA ArraysAlways == ArraySpec => []ArraysInv
<1>1. ArrayInit => ArraysInv
  BY ArraysInit DEF ArraysInv
<1>2. ArraysInv /\ [ArrayNext]_arrayVars => ArraysInv'
  BY ArraysStep
<1>3. QED BY <1>1, <1>2, PTL DEF ArraySpec

\* A statement changes the variables it names and those made from them or they from those,
\* whatever the lengths of the rows: what shares a block is related.
THEOREM OthersStay == ArraySpec => OnlyRelativesChange
<1>1. ArraysInv /\ [ArrayNext]_arrayVars =>
        [\A n \in Names : Content(heap, var[n])' # Content(heap, var[n]) =>
           \E m \in last'.named : m = n \/ {m, n} \in kin]_arrayVars
  <2> SUFFICES ASSUME ArraysInv, [ArrayNext]_arrayVars, NEW n \in Names,
                      Content(heap', var'[n]) # Content(heap, var[n])
               PROVE  \E m \in last'.named : m = n \/ {m, n} \in kin
    OBVIOUS
  <2>1. n \in Relatives(last'.named)
    BY ArraysStep
  <2>2. QED BY <2>1 DEF Relatives
<1>2. QED BY <1>1, ArraysAlways, PTL DEF ArraySpec, OnlyRelativesChange

\* A statement leaves in its variable what it says of its operands, slices end inside their
\* blocks, and only relatives share one.
THEOREM StatementsMean ==
  ASSUME "ragged" \notin ArrayFeatures
  PROVE  ArraySpec => []ArrayCallsMean
<1>1. ArraysInv => ArrayCallsMean
  BY ArraysAreOK DEF ArraysInv, ArrayCallsMean
<1>2. QED BY <1>1, ArraysAlways, PTL

--------------------------------------------------------------------------------
(* Plugins *)

\* Where loading and calls are.
LoadPlaces    == {"modules", "runtime", "instantiate", "abi", "describe"}
GuestPlaces   == {"args", "name", "guest", "decode", "return"}
ReplacePlaces == {"rename", "remove", "backup", "move", "rollback", "cleanup"}
CallPlaces    == GuestPlaces \cup ReplacePlaces \cup {"work", "reply"}

\* The module that is loaded, where a plugin is loaded.
Loader ==
  at \in LoadPlaces \ {"modules"} =>
    /\ uses # <<>> /\ Head(uses) \in Plugins /\ Head(uses) \notin loaded
    /\ at # "runtime" => Head(uses) \in open

\* There is a call exactly at the places of one, of a plugin that is loaded.
CallAt ==
  /\ at \in {"start", "script"} \cup LoadPlaces \cup CallPlaces
  /\ IF at \in CallPlaces THEN plugin \in loaded \cap Plugins ELSE plugin = Nobody /\ deferred = <<>>

\* What is deferred by where the call is: the memory it has taken, the latest first.
DeferredAt ==
  /\ at = "args" => deferred = <<>>
  /\ at = "name" => deferred = <<"args">>
  /\ at \in {"guest", "work", "reply"} \cup ReplacePlaces => deferred = <<"name", "args">>
  /\ at = "decode" => deferred = <<"result", "name", "args">>
  /\ deferred \in {<<>>, <<"args">>, <<"name", "args">>, <<"result", "name", "args">>}

\* What is deferred, as a set.
Held(d) == (IF d = <<>> THEN {} ELSE {"args"})
             \cup (IF d \in {<<"name", "args">>, <<"result", "name", "args">>} THEN {"name"} ELSE {})
             \cup (IF d = <<"result", "name", "args">> THEN {"result"} ELSE {})

\* In a guest that lives on, what is to be given back is what is deferred.
MemoryHeld ==
  Features \cap {"unwritable", "unreadable", "dealloc_fails"} = {} =>
    \A p \in Plugins \ exited : blocks[p] = IF p = plugin THEN Held(deferred) ELSE {}

\* What the guest did, and what the bridge did for it.
Answers ==
  /\ at \notin {"decode", "return"} => answered = "nothing"
  /\ at = "decode" => answered \in JSON
  /\ at = "return" => value = IF answered \in JSON THEN FromGuest(answered) ELSE "error"
  /\ at \notin CallPlaces \ {"args", "name"} => reply = "none" /\ outcome = "none"
  /\ reply = "ok" => at # "guest" \/ outcome = "done"
  /\ at \in {"args", "name", "work"} \cup ReplacePlaces => outcome = "none"
  /\ outcome = "done" /\ request = "replace_file" => files.target = offered
  /\ at \in {"rename", "remove", "backup", "move"} => files.source = offered
  /\ at = "cleanup" => files.target = offered

\* Where a replacement is, by the files: the backup is what is left of the target only
\* between the two renames.
Replacing ==
  "replace_missing" \notin Features =>
    /\ latest = IF files.target = NoFile THEN files.backup ELSE files.target
    /\ at \in {"rename", "remove", "backup", "move"} => files.source # NoFile
    /\ at \in {"remove", "backup", "cleanup"} => files.target # NoFile
    /\ at \in {"move", "rollback"} => files.target = NoFile

\* TypeOK in parts.
RegistryOK ==
  /\ owner \in [Builtins -> Owners] /\ loaded \subseteq Modules
  /\ open \subseteq Plugins /\ exited \subseteq loaded
  /\ uses \in Seq(Modules)

\* The runtimes that are open, and whose functions the names are.
RuntimesOK ==
  /\ Range(owner) \cap Plugins \subseteq loaded
  /\ loaded \cap Plugins \subseteq open
  /\ open \subseteq loaded \cup (IF at \in {"instantiate", "abi", "describe"} THEN {Head(uses)} ELSE {})

\* The call.
CallOK ==
  /\ plugin \in Plugins \cup {Nobody} /\ blocks \in [Plugins -> SUBSET {"args", "name", "result"}]
  /\ argument \in Kinds /\ value \in Kinds

\* The files of a replacement.
DiskOK ==
  /\ windows \in BOOLEAN /\ files \in [{"source", "target", "backup"} -> Contents \cup {NoFile}]
  /\ offered \in Contents \cup {NoFile} /\ latest \in Contents

\* What every step of the process keeps.
IInv ==
  /\ RegistryOK /\ RuntimesOK /\ CallOK /\ DiskOK
  /\ Loader /\ CallAt /\ DeferredAt /\ MemoryHeld /\ Answers /\ Replacing

--------------------------------------------------------------------------------
\* The memory a call can take.
GuestBlocks == {"args", "name", "result"}

\* A call defers by putting one more in front.
LEMMA Deferring ==
  /\ <<"args">> \o <<>> = <<"args">>
  /\ <<"name">> \o <<"args">> = <<"name", "args">>
  /\ <<"result">> \o <<"name", "args">> = <<"result", "name", "args">>
<1>1. <<"name">> \o <<"args">> = <<"name", "args">>
  <2> DEFINE s == <<"name">> \o <<"args">>
             t == <<"name", "args">>
  <2>1. s \in Seq(GuestBlocks) /\ t \in Seq(GuestBlocks) /\ Len(s) = 2 /\ Len(t) = 2  BY DEF GuestBlocks
  <2>2. s[1] = t[1] /\ s[2] = t[2]  OBVIOUS
  <2> HIDE DEF s, t
  <2>3. \A i \in 1 .. Len(s) : s[i] = t[i]  BY <2>1, <2>2
  <2>4. s = t  BY <2>1, <2>3, SeqEqual
  <2> QED  BY <2>4 DEF s, t
<1>2. <<"result">> \o <<"name", "args">> = <<"result", "name", "args">>
  <2> DEFINE s == <<"result">> \o <<"name", "args">>
             t == <<"result", "name", "args">>
  <2>1. s \in Seq(GuestBlocks) /\ t \in Seq(GuestBlocks) /\ Len(s) = 3 /\ Len(t) = 3  BY DEF GuestBlocks
  <2>2. s[1] = t[1] /\ s[2] = t[2] /\ s[3] = t[3]  OBVIOUS
  <2> HIDE DEF s, t
  <2>3. \A i \in 1 .. Len(s) : s[i] = t[i]  BY <2>1, <2>2
  <2>4. s = t  BY <2>1, <2>3, SeqEqual
  <2> QED  BY <2>4 DEF s, t
<1> QED  BY <1>1, <1>2

\* freePluginMemory is called for the latest first.
LEMMA Undeferring ==
  /\ Head(<<"args">>) = "args" /\ Tail(<<"args">>) = <<>>
  /\ Head(<<"name", "args">>) = "name" /\ Tail(<<"name", "args">>) = <<"args">>
  /\ Head(<<"result", "name", "args">>) = "result"
  /\ Tail(<<"result", "name", "args">>) = <<"name", "args">>
  OBVIOUS

\* What is held by how much is deferred.
LEMMA HeldIs ==
  /\ Held(<<>>) = {}
  /\ Held(<<"args">>) = {"args"}
  /\ Held(<<"name", "args">>) = {"args", "name"}
  /\ Held(<<"result", "name", "args">>) = {"args", "name", "result"}
  BY DEF Held

\* A name belongs to a module or plugin after it was registered.
LEMMA RegisterType ==
  ASSUME RegistryOK, NEW m \in Modules \cup {"core"}
  PROVE  /\ Register(m) \in [Builtins -> Owners]
         /\ Range(Register(m)) \subseteq Range(owner) \cup {m}
  BY DEF RegistryOK, Register, Range, Modules, Owners

\* Loading.
LEMMA LoadStep == ASSUME IInv, Load PROVE IInv'
<1> USE DEF Load, LoadModules, LoadBuiltIn, ModulesLoaded, OpenPlugin, CreateRuntime, Instantiate,
       CheckABI, Describe, LoadFails, Loading, registry, calling, bridge, disk, bounds
<1>1. RegistryOK'
  <2>1. uses # <<>> => Head(uses) \in Modules /\ Tail(uses) \in Seq(Modules)  BY DEF IInv, RegistryOK
  <2>2. owner' \in [Builtins -> Owners]
    BY <2>1, RegisterType DEF IInv, RegistryOK, Loader, LoadPlaces
  <2>3. Uses \subseteq Seq(Modules) /\ <<>> \in Seq(Modules)
    BY PluginsAssumption DEF Modules
  <2>4. uses' = uses \/ uses' = <<>> \/ uses' \in Uses \/ (uses # <<>> /\ uses' = Tail(uses))
    BY DEF IInv, Loader, LoadPlaces
  <2> QED  BY <2>1, <2>2, <2>3, <2>4 DEF IInv, RegistryOK, Loader, LoadPlaces, Modules
<1>2. Loader'
  BY PluginsAssumption DEF IInv, RegistryOK, Loader, LoadPlaces, Modules
<1>3. RuntimesOK'
  <2>1. Range(owner') \subseteq Range(owner) \cup {"core"} \cup (loaded' \ loaded)
    BY RegisterType DEF IInv, RegistryOK, Loader, LoadPlaces
  <2>2. Range(owner') \cap Plugins \subseteq loaded'
    BY <2>1, PluginsAssumption DEF IInv, RuntimesOK
  <2>3. loaded' \cap Plugins \subseteq open'
    BY PluginsAssumption DEF IInv, RuntimesOK, Loader, LoadPlaces
  <2>4. open' \subseteq loaded' \cup (IF at' \in {"instantiate", "abi", "describe"} THEN {Head(uses')} ELSE {})
    BY DEF IInv, RuntimesOK
  <2> QED  BY <2>2, <2>3, <2>4 DEF RuntimesOK
<1>4. CallOK' /\ DiskOK'
  BY DEF IInv, CallOK, DiskOK
<1>5. CallAt' /\ DeferredAt'
  BY DEF IInv, CallAt, DeferredAt, LoadPlaces, CallPlaces, GuestPlaces, ReplacePlaces
<1>6. MemoryHeld'
  BY DEF IInv, MemoryHeld
<1>7. Answers' /\ Replacing'
  BY DEF IInv, Answers, Replacing, CallPlaces, GuestPlaces, ReplacePlaces
<1> QED  BY <1>1, <1>2, <1>3, <1>4, <1>5, <1>6, <1>7 DEF IInv

\* A call begins: nothing is deferred yet.
LEMMA BeginCall == ASSUME IInv, Call PROVE IInv'
<1> USE DEF Call, registry, bridge, disk
<1>1. RegistryOK' /\ Loader' /\ RuntimesOK'
  BY DEF IInv, RegistryOK, Loader, RuntimesOK, LoadPlaces
<1>2. CallOK' /\ DiskOK'
  BY DEF IInv, CallOK, DiskOK
<1>3. CallAt' /\ DeferredAt'
  BY DEF IInv, CallAt, DeferredAt, RuntimesOK, RegistryOK, Range, LoadPlaces, CallPlaces,
     GuestPlaces, ReplacePlaces
<1>4. MemoryHeld'
  <2>1. Held(deferred) = {} /\ plugin \notin Plugins
    BY PluginsAssumption, HeldIs DEF IInv, CallAt, CallPlaces, GuestPlaces, ReplacePlaces
  <2> QED  BY <2>1 DEF IInv, MemoryHeld
<1>5. Answers' /\ Replacing'
  BY DEF IInv, Answers, Replacing, CallPlaces, GuestPlaces, ReplacePlaces
<1> QED  BY <1>1, <1>2, <1>3, <1>4, <1>5 DEF IInv

\* The arguments are written into memory of the guest.
LEMMA WriteArgsStep == ASSUME IInv, WriteArgs PROVE IInv'
<1> USE DEF WriteArgs, WriteToPlugin, ReturnError, GuestExits, Gone, bridge, disk, bounds
<1>1. RegistryOK' /\ Loader' /\ RuntimesOK'
  BY DEF IInv, RegistryOK, Loader, RuntimesOK, CallAt, LoadPlaces, CallPlaces, GuestPlaces
<1>2. plugin \in Plugins /\ plugin' = plugin
  BY DEF IInv, CallAt, CallPlaces, GuestPlaces
<1>3. \/ at' = "name" /\ deferred' = <<"args">> \o deferred
         /\ blocks' = [blocks EXCEPT ![plugin] = @ \cup {"args"}]
      \/ at' = "return" /\ deferred' = deferred /\ value' = "error"
         /\ (blocks' = blocks \/ blocks' = [blocks EXCEPT ![plugin] = @ \cup {"args"}])
         /\ (Features \cap {"unwritable", "unreadable", "dealloc_fails"} = {} => blocks' = blocks)
  OBVIOUS
<1>4. CallOK'
  BY <1>2, <1>3 DEF IInv, CallOK, Kinds
<1>5. DiskOK' /\ Replacing'
  BY DEF IInv, DiskOK, Replacing
<1>6. CallAt'
  BY DEF IInv, CallAt, LoadPlaces, CallPlaces, GuestPlaces, ReplacePlaces
<1>7. DeferredAt'
  BY <1>3, Deferring DEF IInv, DeferredAt, ReplacePlaces
<1>8. MemoryHeld'
  <2>1. deferred = <<>>
    BY DEF IInv, DeferredAt
  <2>2. Held(<<"args">> \o deferred) = Held(deferred) \cup {"args"}
    BY <2>1, Deferring, HeldIs
  <2> QED  BY <1>2, <1>3, <2>2 DEF IInv, MemoryHeld, CallOK
<1>9. Answers'
  BY DEF IInv, Answers, CallOK, CallPlaces, GuestPlaces, ReplacePlaces, JSON
<1> QED  BY <1>1, <1>4, <1>5, <1>6, <1>7, <1>8, <1>9 DEF IInv

\* The name is written after them.
LEMMA WriteNameStep == ASSUME IInv, WriteName PROVE IInv'
<1> USE DEF WriteName, WriteToPlugin, ReturnError, GuestExits, Gone, bridge, disk, bounds
<1>1. RegistryOK' /\ Loader' /\ RuntimesOK'
  BY DEF IInv, RegistryOK, Loader, RuntimesOK, CallAt, LoadPlaces, CallPlaces, GuestPlaces
<1>2. plugin \in Plugins /\ plugin' = plugin
  BY DEF IInv, CallAt, CallPlaces, GuestPlaces
<1>3. \/ at' = "guest" /\ deferred' = <<"name">> \o deferred
         /\ blocks' = [blocks EXCEPT ![plugin] = @ \cup {"name"}]
      \/ at' = "return" /\ deferred' = deferred /\ value' = "error"
         /\ (blocks' = blocks \/ blocks' = [blocks EXCEPT ![plugin] = @ \cup {"name"}])
         /\ (Features \cap {"unwritable", "unreadable", "dealloc_fails"} = {} => blocks' = blocks)
  OBVIOUS
<1>4. CallOK'
  BY <1>2, <1>3 DEF IInv, CallOK, Kinds
<1>5. DiskOK' /\ Replacing'
  BY DEF IInv, DiskOK, Replacing
<1>6. CallAt'
  BY DEF IInv, CallAt, LoadPlaces, CallPlaces, GuestPlaces, ReplacePlaces
<1>7. DeferredAt'
  BY <1>3, Deferring DEF IInv, DeferredAt, ReplacePlaces
<1>8. MemoryHeld'
  <2>1. deferred = <<"args">>
    BY DEF IInv, DeferredAt
  <2>2. Held(<<"name">> \o deferred) = Held(deferred) \cup {"name"}
    BY <2>1, Deferring, HeldIs
  <2> QED  BY <1>2, <1>3, <2>2 DEF IInv, MemoryHeld, CallOK
<1>9. Answers'
  BY DEF IInv, Answers, CallOK, CallPlaces, GuestPlaces, ReplacePlaces, JSON
<1> QED  BY <1>1, <1>4, <1>5, <1>6, <1>7, <1>8, <1>9 DEF IInv

\* The guest has answered, trapped or exited.
LEMMA GuestReturnsStep == ASSUME IInv, GuestReturns PROVE IInv'
<1> USE DEF GuestReturns, ReturnError, GuestExits, bridge, disk, bounds
<1>1. RegistryOK' /\ Loader' /\ RuntimesOK'
  BY DEF IInv, RegistryOK, Loader, RuntimesOK, CallAt, LoadPlaces, CallPlaces, GuestPlaces
<1>2. plugin \in Plugins /\ plugin' = plugin
  BY DEF IInv, CallAt, CallPlaces, GuestPlaces
<1>3. \/ at' = "decode" /\ deferred' = <<"result">> \o deferred
         /\ blocks' = [blocks EXCEPT ![plugin] = @ \cup {"result"}]
      \/ at' = "return" /\ deferred' = deferred /\ value' = "error"
         /\ (blocks' = blocks \/ blocks' = [blocks EXCEPT ![plugin] = @ \cup {"result"}])
         /\ (Features \cap {"unwritable", "unreadable", "dealloc_fails"} = {} => blocks' = blocks)
  OBVIOUS
<1>4. CallOK'
  BY <1>2, <1>3 DEF IInv, CallOK, Kinds
<1>5. DiskOK' /\ Replacing'
  BY DEF IInv, DiskOK, Replacing
<1>6. CallAt'
  BY DEF IInv, CallAt, LoadPlaces, CallPlaces, GuestPlaces, ReplacePlaces
<1>7. DeferredAt'
  BY <1>3, Deferring DEF IInv, DeferredAt, ReplacePlaces
<1>8. MemoryHeld'
  <2>1. deferred = <<"name", "args">>
    BY DEF IInv, DeferredAt
  <2>2. Held(<<"result">> \o deferred) = Held(deferred) \cup {"result"}
    BY <2>1, Deferring, HeldIs
  <2> QED  BY <1>2, <1>3, <2>2 DEF IInv, MemoryHeld, CallOK
<1>9. Answers'
  <2>1. \/ at' = "decode" /\ answered' \in JSON
        \/ at' = "return" /\ value' = "error" /\ answered' \notin JSON
    <3>1. "unreadable" \notin JSON  BY DEF JSON
    <3> QED  BY <3>1
  <2> QED  BY <2>1 DEF IInv, Answers, CallPlaces, GuestPlaces, ReplacePlaces
<1> QED  BY <1>1, <1>4, <1>5, <1>6, <1>7, <1>8, <1>9 DEF IInv

\* The answer becomes a value.
LEMMA DecodeStep == ASSUME IInv, Decode PROVE IInv'
<1> USE DEF Decode, registry, bridge, disk, bounds
<1>1. RegistryOK' /\ Loader' /\ RuntimesOK'
  BY DEF IInv, RegistryOK, Loader, RuntimesOK, CallAt, LoadPlaces, CallPlaces, GuestPlaces
<1>2. CallOK'
  BY DEF IInv, CallOK, Answers, CallAt, CallPlaces, GuestPlaces, Kinds, JSON, FromGuest
<1>3. DiskOK' /\ Replacing'
  BY DEF IInv, DiskOK, Replacing
<1>4. CallAt' /\ DeferredAt'
  BY DEF IInv, CallAt, DeferredAt, LoadPlaces, CallPlaces, GuestPlaces, ReplacePlaces
<1>5. MemoryHeld'
  BY DEF IInv, MemoryHeld
<1>6. Answers'
  BY DEF IInv, Answers, CallOK, CallPlaces, GuestPlaces, ReplacePlaces, JSON
<1> QED  BY <1>1, <1>2, <1>3, <1>4, <1>5, <1>6 DEF IInv

\* What was deferred is given back.
LEMMA FreeDeferredStep == ASSUME IInv, FreeDeferred PROVE IInv'
<1> USE DEF FreeDeferred, GuestExits, Gone, bridge, disk, bounds
<1>1. RegistryOK' /\ Loader' /\ RuntimesOK'
  BY DEF IInv, RegistryOK, Loader, RuntimesOK, CallAt, LoadPlaces, CallPlaces, GuestPlaces
<1>2. CallOK' /\ DiskOK' /\ Answers' /\ Replacing'
  BY DEF IInv, CallOK, DiskOK, Answers, Replacing, CallPlaces, GuestPlaces
<1>3. CallAt'
  BY DEF IInv, CallAt, CallPlaces, GuestPlaces
<1>4. deferred \in {<<"args">>, <<"name", "args">>, <<"result", "name", "args">>}
  BY DEF IInv, DeferredAt
<1>5. DeferredAt'
  BY <1>4, Undeferring DEF DeferredAt, ReplacePlaces
<1>6. Held(Tail(deferred)) = Held(deferred) \ {Head(deferred)}
  BY <1>4, HeldIs, Undeferring
<1>7. MemoryHeld'
  BY <1>6 DEF IInv, MemoryHeld, CallOK
<1> QED  BY <1>1, <1>2, <1>3, <1>5, <1>7 DEF IInv

\* The script has the value.
LEMMA CallReturnsStep == ASSUME IInv, CallReturns PROVE IInv'
<1> USE DEF CallReturns, NoCall, registry
<1>1. RegistryOK' /\ Loader' /\ RuntimesOK'
  BY DEF IInv, RegistryOK, Loader, RuntimesOK, CallAt, LoadPlaces, CallPlaces, GuestPlaces
<1>2. CallOK'
  BY DEF IInv, CallOK, Answers, CallAt, CallPlaces, GuestPlaces, Kinds
<1>3. DiskOK' /\ Replacing'
  BY DEF IInv, DiskOK, Replacing
<1>4. CallAt' /\ DeferredAt'
  BY DEF IInv, CallAt, DeferredAt, LoadPlaces, CallPlaces, GuestPlaces, ReplacePlaces
<1>5. MemoryHeld'
  BY HeldIs, PluginsAssumption DEF IInv, MemoryHeld
<1>6. Answers'
  BY DEF IInv, Answers, CallOK, CallPlaces, GuestPlaces, ReplacePlaces, JSON
<1> QED  BY <1>1, <1>2, <1>3, <1>4, <1>5, <1>6 DEF IInv

\* The bridge answers a request.
LEMMA BridgeStep ==
  ASSUME IInv, HostFunction \/ Refuse \/ DockerExec \/ FFmpegExec \/ WriteFile \/ Reply
  PROVE  IInv'
<1> USE DEF HostFunction, Refuse, DockerExec, FFmpegExec, WriteFile, Working, Reply,
       registry, calling, disk, bounds
<1>1. RegistryOK' /\ Loader' /\ RuntimesOK'
  BY DEF IInv, RegistryOK, Loader, RuntimesOK, LoadPlaces
<1>2. CallOK' /\ DiskOK'
  BY DEF IInv, CallOK, DiskOK
<1>3. CallAt' /\ DeferredAt'
  BY DEF IInv, CallAt, DeferredAt, LoadPlaces, CallPlaces, GuestPlaces, ReplacePlaces
<1>4. MemoryHeld'
  BY DEF IInv, MemoryHeld
<1>5. Answers'
  BY DEF IInv, Answers, CallPlaces, GuestPlaces, ReplacePlaces, Bridge, ErrorReplies
<1>6. Replacing'
  BY DEF IInv, Replacing, ReplacePlaces
<1> QED  BY <1>1, <1>2, <1>3, <1>4, <1>5, <1>6 DEF IInv

\* The file the guest makes is told from the two others by its contents.
LEMMA NewContents == ASSUME DiskOK, files.source = NoFile PROVE Min(Contents \ Range(files)) \in Contents
<1>1. \E c \in Contents : c # files.target /\ c # files.backup
  BY DEF Contents
<1>2. PICK c \in Contents : c # files.target /\ c # files.backup  BY <1>1
<1>3. c \in Contents \ Range(files)
  BY <1>2, PluginsAssumption DEF DiskOK, Range, Contents
<1>4. \E x \in Contents \ Range(files) : \A y \in Contents \ Range(files) : x =< y
  BY <1>3 DEF Contents
<1> QED  BY <1>4 DEF Min

\* A file is replaced step by step.
LEMMA ReplaceStep == ASSUME IInv, Replace \/ PrepareSource PROVE IInv'
<1> USE DEF Replace, StartReplace, Rename, RemoveOldBackup, BackUp, MoveIn, RollBack, RemoveBackup,
       PrepareSource, Step, Finish, Move, registry, calling, bridge, bounds
<1>1. RegistryOK' /\ Loader' /\ RuntimesOK'
  BY DEF IInv, RegistryOK, Loader, RuntimesOK, LoadPlaces
<1>2. CallOK'
  BY DEF IInv, CallOK
<1>3. DiskOK'
  BY NewContents DEF IInv, DiskOK
<1>4. CallAt' /\ DeferredAt'
  BY DEF IInv, CallAt, DeferredAt, LoadPlaces, CallPlaces, GuestPlaces, ReplacePlaces
<1>5. MemoryHeld'
  BY DEF IInv, MemoryHeld
<1>6. Answers'
  BY DEF IInv, Answers, DiskOK, CallPlaces, GuestPlaces, ReplacePlaces
<1>7. Replacing'
  BY NewContents, PluginsAssumption DEF IInv, Replacing, DiskOK, Contents
<1> QED  BY <1>1, <1>2, <1>3, <1>4, <1>5, <1>6, <1>7 DEF IInv

\* The process ends: only the files stay.
LEMMA CrashStep == ASSUME IInv, Crash PROVE IInv'
<1> USE DEF Crash, NoCall
<1>1. RegistryOK' /\ Loader' /\ RuntimesOK'
  BY PluginsAssumption DEF RegistryOK, Loader, RuntimesOK, LoadPlaces, Owners, Range
<1>2. CallOK' /\ DiskOK'
  BY DEF IInv, CallOK, DiskOK, Kinds
<1>3. CallAt' /\ DeferredAt' /\ Answers'
  BY DEF CallAt, DeferredAt, Answers, CallPlaces, GuestPlaces, ReplacePlaces
<1>4. MemoryHeld'
  BY HeldIs DEF MemoryHeld
<1>5. Replacing'
  BY DEF IInv, Replacing
<1> QED  BY <1>1, <1>2, <1>3, <1>4, <1>5 DEF IInv

\* The process begins with it.
LEMMA InitInv == Init => IInv
<1> SUFFICES ASSUME Init PROVE IInv  OBVIOUS
<1> USE DEF Init
<1>1. RegistryOK /\ Loader /\ RuntimesOK
  BY PluginsAssumption DEF RegistryOK, Loader, RuntimesOK, LoadPlaces, Owners, Range
<1>2. CallOK /\ DiskOK
  BY DEF CallOK, DiskOK, Kinds, Contents
<1>3. CallAt /\ DeferredAt /\ Answers
  BY DEF CallAt, DeferredAt, Answers, CallPlaces, GuestPlaces, ReplacePlaces
<1>4. MemoryHeld
  BY HeldIs DEF MemoryHeld
<1>5. Replacing
  BY PluginsAssumption DEF Replacing
<1> QED  BY <1>1, <1>2, <1>3, <1>4, <1>5 DEF IInv

\* One step, or none.
LEMMA NextInv == ASSUME IInv, [Next]_vars PROVE IInv'
<1>1. CASE Next
  BY <1>1, LoadStep, BeginCall, WriteArgsStep, WriteNameStep, GuestReturnsStep, DecodeStep,
     FreeDeferredStep, CallReturnsStep, BridgeStep, ReplaceStep, CrashStep
     DEF Next, Invoke, Host
<1>2. CASE UNCHANGED vars
  BY <1>2 DEF vars, registry, calling, bridge, disk, bounds, IInv, RegistryOK, RuntimesOK, CallOK,
     DiskOK, Loader, CallAt, DeferredAt, MemoryHeld, Answers, Replacing
<1> QED  BY <1>1, <1>2

\* And so at every moment.
LEMMA InvHolds == Spec => []IInv
  BY InitInv, NextInv, PTL DEF Spec

--------------------------------------------------------------------------------
\* The types, and: no function of a plugin is registered without an open runtime, and a
\* load that fails, wherever it does, leaves no runtime open (LoadWasmPlugin).
THEOREM TypeCorrect == Spec => []TypeOK
<1>1. DeferredAt => deferred \in Seq({"args", "name", "result"})
  <2>1. /\ <<>> \in Seq({"args", "name", "result"})
        /\ <<"args">> \in Seq({"args", "name", "result"})
        /\ <<"name", "args">> \in Seq({"args", "name", "result"})
        /\ <<"result", "name", "args">> \in Seq({"args", "name", "result"})
    OBVIOUS
  <2>2. DeferredAt => deferred \in {<<>>, <<"args">>, <<"name", "args">>, <<"result", "name", "args">>}
    BY DEF DeferredAt
  <2> QED  BY <2>1, <2>2
<1>2. IInv => TypeOK
  BY <1>1 DEF IInv, RegistryOK, RuntimesOK, CallOK, DiskOK, TypeOK
<1> QED  BY <1>2, InvHolds, PTL

\* On every way out of callPluginFunction the memory it took in a guest that lives on has
\* been given back, unless the guest itself refuses.
THEOREM MemoryIsReturned ==
  ASSUME Features \cap {"unwritable", "unreadable", "dealloc_fails"} = {}
  PROVE  Spec => []MemoryReturned
<1>1. IInv => MemoryReturned
  <2>1. ASSUME IInv, at = "script" PROVE deferred = <<>>
    BY <2>1 DEF IInv, CallAt, CallPlaces, GuestPlaces, ReplacePlaces
  <2> QED  BY <2>1, HeldIs DEF IInv, MemoryHeld, MemoryReturned
<1> QED  BY <1>1, InvHolds, PTL

\* A call returns what its guest answered, and the guest is told the truth about what the
\* host did for it.
THEOREM AnswersStayTrue == Spec => []AnswersAreTrue
<1>1. IInv => AnswersAreTrue
  BY DEF IInv, Answers, AnswersAreTrue
<1> QED  BY <1>1, InvHolds, PTL

\* A replacement never loses what the target held, if there was a target.
THEOREM TargetStays ==
  ASSUME "replace_missing" \notin Features
  PROVE  Spec => []TargetIsKept
<1>1. IInv => TargetIsKept
  BY DEF IInv, Replacing, TargetIsKept
<1> QED  BY <1>1, InvHolds, PTL
================================================================================
