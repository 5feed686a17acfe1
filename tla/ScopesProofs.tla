------------------------------ MODULE ScopesProofs ------------------------------
(***************************************************************************)
(* Proofs about Scopes for every set of names, procedures, nodes, values   *)
(* and activations, and for recursion of any depth.                        *)
(***************************************************************************)
EXTENDS Scopes, SequenceTheorems, TLAPS

USE ConstantsAssumption

--------------------------------------------------------------------------------
(* The stack.                                                               *)

\* The running activation exists and has an Environment.
LEMMA TopType ==
  ASSUME TypeOK
  PROVE  /\ Depth \in Nat /\ Depth >= 1 /\ Depth = Len(stack)
         /\ Top \in FrameType /\ Top = stack[Depth]
         /\ E \in Env /\ E = Top.env
         /\ \A i \in 1 .. Depth : stack[i] \in FrameType
<1>1. Depth \in Nat /\ Depth >= 1 /\ Depth = Len(stack)
  BY DEF TypeOK, Depth
<1>2. \A i \in 1 .. Depth : stack[i] \in FrameType
  BY ElementOfSeq DEF TypeOK, Depth
<1>3. Top \in FrameType /\ Top = stack[Depth]
  BY <1>1, <1>2 DEF Top
<1> QED
  BY <1>1, <1>2, <1>3 DEF E, FrameType

\* Replacing the running activation leaves the ones below alone.
LEMMA SetTopType ==
  ASSUME TypeOK, NEW fr \in FrameType, SetTop(fr)
  PROVE  /\ stack' \in Seq(FrameType) /\ stack' # <<>>
         /\ Depth' = Depth
         /\ \A i \in 1 .. Depth : stack'[i] = IF i = Depth THEN fr ELSE stack[i]
<1>1. stack \in Seq(FrameType) /\ Depth \in 1 .. Len(stack) /\ Depth = Len(stack)
  BY TopType DEF TypeOK
<1>2. stack' = [stack EXCEPT ![Depth] = fr]
  BY DEF SetTop
<1>3. /\ stack' \in Seq(FrameType)
      /\ Len(stack') = Len(stack)
      /\ \A i \in 1 .. Len(stack) : stack'[i] = IF i = Depth THEN fr ELSE stack[i]
  BY <1>1, <1>2, ExceptSeq
<1>4. stack' # <<>>
  BY <1>1, <1>3
<1> QED
  BY <1>1, <1>3, <1>4 DEF Depth

\* A call pushes, and leaves every activation below it as it is.
LEMMA PushType ==
  ASSUME TypeOK, NEW fr \in FrameType, stack' = Append(stack, fr)
  PROVE  /\ stack' \in Seq(FrameType) /\ stack' # <<>>
         /\ Depth' = Depth + 1
         /\ stack'[Depth + 1] = fr
         /\ \A i \in 1 .. Depth : stack'[i] = stack[i]
<1>1. stack \in Seq(FrameType) /\ Depth \in Nat /\ Depth >= 1 /\ Depth = Len(stack)
  BY TopType DEF TypeOK
<1>2. /\ stack' \in Seq(FrameType)
      /\ Len(stack') = Len(stack) + 1
      /\ \A i \in 1 .. Len(stack) : stack'[i] = stack[i]
      /\ stack'[Len(stack) + 1] = fr
  BY <1>1, AppendProperties
<1>3. stack' # <<>>
  BY <1>1, <1>2
<1> QED
  BY <1>1, <1>2, <1>3 DEF Depth

\* Returning pops, and leaves every activation below it as it is.
LEMMA PopType ==
  ASSUME TypeOK, Depth > 1
  PROVE  /\ SubSeq(stack, 1, Depth - 1) \in Seq(FrameType)
         /\ Len(SubSeq(stack, 1, Depth - 1)) = Depth - 1
         /\ Depth - 1 \in 1 .. Depth
         /\ \A i \in 1 .. Depth - 1 : SubSeq(stack, 1, Depth - 1)[i] = stack[i]
<1>1. Depth \in Nat /\ \A i \in 1 .. Depth : stack[i] \in FrameType
  BY TopType
<1>2. \A i \in 1 .. (Depth - 1) : stack[i] \in FrameType
  BY <1>1
<1> DEFINE t == SubSeq(stack, 1, Depth - 1)
<1>3. /\ t \in Seq(FrameType)
      /\ Len(t) = IF 1 <= Depth - 1 THEN (Depth - 1) - 1 + 1 ELSE 0
      /\ \A i \in 1 .. (Depth - 1) - 1 + 1 : t[i] = stack[1 + i - 1]
  BY <1>1, <1>2, SubSeqProperties
<1>4. \A i \in 1 .. Depth - 1 : t[i] = stack[i]
  BY <1>1, <1>3
<1> QED
  BY <1>1, <1>3, <1>4

--------------------------------------------------------------------------------
(* Types.                                                                   *)

\* What a node finds, in its cache or by searching, has the type of a cache.
LEMMA CurrentType ==
  ASSUME TypeOK, NEW n \in Nodes
  PROVE  Current(n) \in CacheType /\ Current(n).ptr <= Len(heap)
<1>1. E \in Env
  BY TopType
<1>2. cache[n] \in CacheType /\ cache[n].ptr <= Len(heap)
  BY DEF TypeOK
<1>3. DefEnv(E, NodeName[n]) \in Env
  BY <1>1 DEF DefEnv, TypeOK
<1>4. Resolved(E, NodeName[n]) \in CacheType
  BY <1>1, <1>3 DEF Resolved, CacheType, TypeOK
<1>5. Resolved(E, NodeName[n]).ptr <= Len(heap)
  BY <1>3 DEF Resolved, TypeOK
<1> QED
  BY <1>2, <1>4, <1>5 DEF Current

\* A write through a pointer changes one cell and allocates none.
LEMMA WriteType ==
  ASSUME heap \in Seq(Values), NEW p \in Nat, NEW v \in Values, Write(p, v)
  PROVE  /\ heap' \in Seq(Values)
         /\ Len(heap') = Len(heap)
         /\ \A q \in 1 .. Len(heap) : heap'[q] = IF q = p THEN v ELSE heap[q]
<1>1. heap' = [heap EXCEPT ![p] = v]
  BY DEF Write
<1>2. CASE p \in 1 .. Len(heap)
  BY <1>1, <1>2, ExceptSeq
<1>3. CASE p \notin 1 .. Len(heap)
  <2>1. heap' = heap
    BY <1>1, <1>3, LenProperties
  <2> QED
    BY <2>1, <1>3
<1> QED
  BY <1>2, <1>3

\* PutInternal leaves every pointer but the one of x in e alone, and that one
\* too if it exists.
LEMMA PutType ==
  ASSUME TypeOK, NEW e \in Env, NEW x \in Names, NEW v \in Values,
         PutInternal(e, x, v)
  PROVE  /\ heap' \in Seq(Values)
         /\ Len(heap) <= Len(heap')
         /\ ptr' \in [Env -> [Names -> Nat]]
         /\ \A d \in Env, y \in Names : ptr'[d][y] <= Len(heap')
<1>1. CASE Declared(e, x) /\ Write(ptr[e][x], v) /\ UNCHANGED ptr
  <2>1. ptr[e][x] \in Nat
    BY DEF TypeOK
  <2> QED
    BY <1>1, <2>1, WriteType DEF TypeOK
<1>2. CASE /\ heap' = Append(heap, v)
           /\ ptr' = [ptr EXCEPT ![e][x] = Len(heap) + 1]
  BY <1>2 DEF TypeOK
<1> QED
  BY <1>1, <1>2 DEF PutInternal

\* An activation stays resumable as long as the heap does not shrink.
LEMMA StillResumable ==
  ASSUME TypeOK, heap' \in Seq(Values), Len(heap) <= Len(heap'),
         NEW fr \in FrameType, Resumable(fr)
  PROVE  Resumable(fr)'
<1>1. Len(heap) \in Nat /\ Len(heap') \in Nat /\ fr.ptr \in Nat
  BY DEF TypeOK, FrameType
<1> QED
  BY <1>1 DEF Resumable

\* Steps that replace the running activation.
LEMMA SetTopResumable ==
  ASSUME TypeOK, NEW fr \in FrameType, Resumable(fr), SetTop(fr),
         heap' \in Seq(Values), Len(heap) <= Len(heap')
  PROVE  /\ stack' \in Seq(FrameType) /\ stack' # <<>>
         /\ (\A i \in 1 .. Depth : Resumable(stack[i]))'
<1>1. /\ stack' \in Seq(FrameType) /\ stack' # <<>> /\ Depth' = Depth
      /\ \A i \in 1 .. Depth : stack'[i] = IF i = Depth THEN fr ELSE stack[i]
  BY SetTopType
<1>2. ASSUME NEW i \in 1 .. Depth  PROVE Resumable(stack[i])'
  <2>1. stack[i] \in FrameType /\ Resumable(stack[i])
    BY TopType DEF TypeOK
  <2>2. stack'[i] \in FrameType
    BY <1>1, <2>1
  <2>3. CASE i = Depth
    BY <1>1, <2>3, StillResumable DEF Resumable
  <2>4. CASE i # Depth
    BY <1>1, <2>1, <2>4, StillResumable DEF Resumable
  <2> QED
    BY <2>3, <2>4
<1> QED
  BY <1>1, <1>2

\* Steps that leave the activations alone.
LEMMA SameStackResumable ==
  ASSUME TypeOK, UNCHANGED stack,
         heap' \in Seq(Values), Len(heap) <= Len(heap')
  PROVE  /\ stack' \in Seq(FrameType) /\ stack' # <<>>
         /\ (\A i \in 1 .. Depth : Resumable(stack[i]))'
<1>1. ASSUME NEW i \in 1 .. Depth  PROVE Resumable(stack[i])'
  BY <1>1, TopType, StillResumable DEF TypeOK, Resumable
<1> QED
  BY <1>1 DEF TypeOK, Depth

\* What Remember stores has the type of a cache.
LEMMA RememberType ==
  ASSUME TypeOK, NEW n \in Nodes, Remember(n),
         heap' \in Seq(Values), Len(heap) <= Len(heap')
  PROVE  /\ cache' \in [Nodes -> CacheType]
         /\ (\A m \in Nodes : cache[m].ptr <= Len(heap))'
<1>1. Current(n) \in CacheType /\ Current(n).ptr <= Len(heap)
  BY CurrentType
<1>2. cache' = [cache EXCEPT ![n] = Current(n)]
  BY DEF Remember
<1>3. cache' \in [Nodes -> CacheType]
  BY <1>1, <1>2 DEF TypeOK
<1>4. ASSUME NEW m \in Nodes  PROVE cache'[m].ptr <= Len(heap')
  <2>1. cache'[m].ptr \in Nat /\ Len(heap) \in Nat /\ Len(heap') \in Nat
    BY <1>3 DEF CacheType, TypeOK
  <2>2. cache'[m].ptr <= Len(heap)
    BY <1>1, <1>2 DEF TypeOK
  <2> QED
    BY <2>1, <2>2
<1> QED
  BY <1>3, <1>4

\* One step of each kind that TypeOK has to survive: everything but the heap,
\* the pointers and the running activation, which the lemmas above cover.
LEMMA TypeFromParts ==
  ASSUME TypeOK,
         parent' \in [Env -> Env \cup {NoEnv}],
         heap' \in Seq(Values), Len(heap) <= Len(heap'),
         ptr' \in [Env -> [Names -> Nat]],
         \A e \in Env, x \in Names : ptr'[e][x] <= Len(heap'),
         consts' \in [Env -> SUBSET Names],
         \/ UNCHANGED cache
         \/ \E n \in Nodes : Remember(n),
         \/ UNCHANGED stack
         \/ \E fr \in FrameType : Resumable(fr) /\ SetTop(fr),
         out' \in Values \cup {Undeclared, ConstError, Ok}
  PROVE  TypeOK'
<1>1. /\ cache' \in [Nodes -> CacheType]
      /\ (\A m \in Nodes : cache[m].ptr <= Len(heap))'
  <2>1. CASE UNCHANGED cache
    <3>1. Len(heap) \in Nat /\ Len(heap') \in Nat /\ \A m \in Nodes : cache[m].ptr \in Nat
      BY DEF TypeOK, CacheType
    <3> QED
      BY <2>1, <3>1 DEF TypeOK
  <2>2. CASE \E n \in Nodes : Remember(n)
    BY <2>2, RememberType
  <2> QED
    BY <2>1, <2>2
<1>2. /\ stack' \in Seq(FrameType) /\ stack' # <<>>
      /\ (\A i \in 1 .. Depth : Resumable(stack[i]))'
  <2>1. CASE UNCHANGED stack
    BY <2>1, SameStackResumable
  <2>2. CASE \E fr \in FrameType : Resumable(fr) /\ SetTop(fr)
    BY <2>2, SetTopResumable
  <2> QED
    BY <2>1, <2>2
<1> QED
  BY <1>1, <1>2 DEF TypeOK

\* The pointers keep their type where nothing is declared.
LEMMA SamePointers ==
  ASSUME TypeOK, UNCHANGED ptr, heap' \in Seq(Values), Len(heap) <= Len(heap')
  PROVE  /\ ptr' \in [Env -> [Names -> Nat]]
         /\ \A e \in Env, x \in Names : ptr'[e][x] <= Len(heap')
<1>1. Len(heap) \in Nat /\ Len(heap') \in Nat
  BY DEF TypeOK
<1> QED
  BY <1>1 DEF TypeOK

\* The value of a heap cell that a pointer refers to.
LEMMA CellType ==
  ASSUME TypeOK, NEW p \in Nat, p # 0, p <= Len(heap)
  PROVE  p \in 1 .. Len(heap) /\ heap[p] \in Values
<1>1. p \in 1 .. Len(heap)
  BY DEF TypeOK
<1> QED
  BY <1>1, ElementOfSeq DEF TypeOK

\* The frame the running activation gets when it is done with a node.
LEMMA SettledType ==
  ASSUME NEW fr \in FrameType, heap \in Seq(Values)
  PROVE  Settled(fr) \in FrameType /\ Resumable(Settled(fr))
BY DEF Settled, Frame, FrameType, Modes, Resumable

\* Every step preserves the types.
LEMMA TypeStep == TypeOK /\ [Next]_vars => TypeOK'
<1> SUFFICES ASSUME TypeOK, [Next]_vars  PROVE TypeOK'
  OBVIOUS
<1>1. heap \in Seq(Values) /\ Len(heap) \in Nat /\ Len(heap) <= Len(heap)
  BY DEF TypeOK
<1>2. /\ Depth \in Nat /\ Depth >= 1
      /\ E \in Env /\ Top \in FrameType /\ Resumable(Top) /\ Root \in Env
  <2>1. Depth \in 1 .. Depth
    BY TopType
  <2>2. Resumable(stack[Depth])
    BY <2>1 DEF TypeOK
  <2> QED
    BY <2>2, TopType DEF Top
<1>4. CASE UNCHANGED vars
  BY <1>4, <1>1, TypeFromParts, SamePointers DEF vars, TypeOK
<1>5. ASSUME NEW n \in Nodes, Read(n)  PROVE TypeOK'
  <2>1. out' \in Values \cup {Undeclared, ConstError, Ok}
    BY <1>5, CurrentType, CellType DEF Read, CacheType
  <2> QED
    BY <1>5, <1>1, <2>1, TypeFromParts, SamePointers DEF Read, TypeOK
<1>6. ASSUME NEW n \in Nodes, Rejected(n)  PROVE TypeOK'
  BY <1>6, <1>1, TypeFromParts, SamePointers DEF Rejected, TypeOK
<1>7. ASSUME NEW n \in Nodes, BeginCompound(n)  PROVE TypeOK'
  <2>1. CASE Rejected(n)
    BY <1>6, <2>1
  <2>2. CASE Accepted(n)
    <3> DEFINE fr == [Top EXCEPT !.mode = "stmt", !.node = n, !.left = heap[Current(n).ptr]]
    <3>1. heap[Current(n).ptr] \in Values
      BY <2>2, CurrentType, CellType DEF Accepted, CacheType
    <3>2. fr \in FrameType /\ Resumable(fr)
      BY <1>2, <3>1 DEF FrameType, Modes, Resumable
    <3>3. SetTop(fr) /\ Remember(n) /\ UNCHANGED <<parent, ptr, heap, consts>> /\ out' = Ok
      BY <1>7, <2>2 DEF BeginCompound, Rejected, Accepted
    <3> QED
      BY <1>1, <3>2, <3>3, TypeFromParts, SamePointers DEF TypeOK
  <2> QED
    BY <1>7, <2>1, <2>2 DEF BeginCompound
<1>8. ASSUME NEW n \in Nodes, EnterLoop(n)  PROVE TypeOK'
  <2>1. CASE Rejected(n)
    BY <1>6, <2>1
  <2>2. CASE Accepted(n)
    <3> DEFINE fr == [Top EXCEPT !.mode = "cond", !.node = n, !.ptr = Current(n).ptr]
    <3>1. Current(n).ptr \in Nat \ {0} /\ Current(n).ptr <= Len(heap)
      BY <2>2, CurrentType DEF Accepted, CacheType
    <3>2. fr \in FrameType /\ Resumable(fr)
      BY <1>2, <3>1 DEF FrameType, Modes, Resumable
    <3>3. SetTop(fr) /\ Remember(n) /\ UNCHANGED <<parent, ptr, heap, consts>> /\ out' = Ok
      BY <1>8, <2>2 DEF EnterLoop, Rejected, Accepted
    <3> QED
      BY <1>1, <3>2, <3>3, TypeFromParts, SamePointers DEF TypeOK
  <2> QED
    BY <1>8, <2>1, <2>2 DEF EnterLoop

<1>9. ASSUME NEW p \in Nat, NEW v \in Values, Write(p, v),
             UNCHANGED <<parent, ptr, consts>>, out' = Ok,
             UNCHANGED cache \/ \E n \in Nodes : Remember(n),
             \/ UNCHANGED stack
             \/ \E fr \in FrameType : Resumable(fr) /\ SetTop(fr)
      PROVE  TypeOK'
  <2>1. heap' \in Seq(Values) /\ Len(heap') = Len(heap)
    BY <1>1, <1>9, WriteType
  <2>2. Len(heap) <= Len(heap')
    BY <1>1, <2>1
  <2> QED
    BY <1>9, <2>1, <2>2, TypeFromParts, SamePointers DEF TypeOK
<1>10. ASSUME NEW n \in Nodes, NEW v \in Values, Assign(n, v)  PROVE TypeOK'
  <2>1. CASE Rejected(n)
    BY <1>6, <2>1
  <2>2. CASE ~Rejected(n)
    <3>1. Current(n).ptr \in Nat
      BY CurrentType DEF CacheType
    <3>2. /\ Write(Current(n).ptr, v) /\ Remember(n) /\ out' = Ok
          /\ UNCHANGED <<parent, ptr, consts, stack>>
      BY <1>10, <2>2 DEF Assign
    <3> QED
      BY <1>9, <3>1, <3>2
  <2> QED
    BY <2>1, <2>2
<1>11. Settled(Top) \in FrameType /\ Resumable(Settled(Top))
  BY <1>1, <1>2, SettledType
<1>12. ASSUME NEW v \in Values, FinishCompound(v)  PROVE TypeOK'
  <2>1. Top.node \in Nodes
    BY <1>2, <1>12 DEF FinishCompound, Resumable
  <2>2. cache[Top.node].ptr \in Nat
    BY <2>1 DEF TypeOK, CacheType
  <2>3. Combine[<<Top.left, v>>] \in Values
    BY <1>2 DEF FrameType
  <2> QED
    BY <1>9, <1>11, <1>12, <2>2, <2>3 DEF FinishCompound, Settle
<1>13. ASSUME NEW v \in Values, CombineInLoop(v)  PROVE TypeOK'
  <2>1. Top.ptr \in Nat \ {0} /\ Top.ptr <= Len(heap) /\ Top.mode = "rhs"
    BY <1>2, <1>13 DEF CombineInLoop, Resumable, FrameType
  <2>2. Combine[<<heap[Top.ptr], v>>] \in Values
    BY <2>1, CellType
  <2> DEFINE fr == [Top EXCEPT !.mode = "cond", !.left = Zero]
  <2>3. fr \in FrameType /\ Resumable(fr)
    BY <1>2, <2>1 DEF FrameType, Modes, Resumable
  <2>4. Write(Top.ptr, Combine[<<heap[Top.ptr], v>>]) /\ SetTop(fr) /\ out' = Ok
        /\ UNCHANGED <<parent, ptr, consts, cache>>
    BY <1>13 DEF CombineInLoop
  <2> HIDE DEF fr
  <2> QED
    BY <1>9, <2>1, <2>2, <2>3, <2>4
<1>14. CASE ContinueLoop
  <2>1. Top.ptr \in Nat \ {0} /\ Top.ptr <= Len(heap) /\ Top.mode = "cond"
    BY <1>2, <1>14 DEF ContinueLoop, Resumable, FrameType
  <2> DEFINE fr == [Top EXCEPT !.mode = "rhs", !.left = heap[Top.ptr]]
  <2>2. fr \in FrameType /\ Resumable(fr)
    BY <1>2, <2>1, CellType DEF FrameType, Modes, Resumable
  <2>3. SetTop(fr) /\ out' = Ok /\ UNCHANGED <<parent, ptr, heap, consts, cache>>
    BY <1>14 DEF ContinueLoop
  <2> QED
    BY <1>1, <2>2, <2>3, TypeFromParts, SamePointers DEF TypeOK
<1>15. CASE Abandon
  BY <1>1, <1>11, <1>15, TypeFromParts, SamePointers DEF Abandon, Settle, TypeOK
<1>16. ASSUME NEW e \in Env, NEW x \in Names, NEW v \in Values, PutInternal(e, x, v),
              UNCHANGED <<parent, cache>>, consts' \in [Env -> SUBSET Names], out' = Ok,
              \/ UNCHANGED stack
              \/ \E fr \in FrameType : Resumable(fr) /\ SetTop(fr)
       PROVE  TypeOK'
  BY <1>16, PutType, TypeFromParts DEF TypeOK
<1>17. ASSUME NEW x \in Names, RejectDeclaration(x)  PROVE TypeOK'
  BY <1>1, <1>17, TypeFromParts, SamePointers DEF RejectDeclaration, TypeOK
<1>18. ASSUME NEW x \in Names, NEW v \in Values,
              Dim(x, v) \/ LoopVariable(x, v) \/ CatchVariable(x, v)
       PROVE  TypeOK'
  BY <1>2, <1>16, <1>18 DEF Dim, LoopVariable, CatchVariable, Define, TypeOK
<1>19. ASSUME NEW x \in Names, NEW v \in Values, Const(x, v)  PROVE TypeOK'
  <2>1. consts' \in [Env -> SUBSET Names]
    BY <1>2, <1>19 DEF Const, MarkConst, TypeOK
  <2> QED
    BY <1>2, <1>16, <1>19, <2>1 DEF Const, Define
<1>20. ASSUME NEW x \in Names, NEW v \in Values, Public(x, v)  PROVE TypeOK'
  BY <1>2, <1>16, <1>20 DEF Public, SetGlobal, TypeOK
<1>21. ASSUME NEW x \in Names, DimArray(x)  PROVE TypeOK'
  BY <1>2, <1>16, <1>21 DEF DimArray, Define, TypeOK
<1>22. ASSUME NEW x \in Names, NEW v \in Values, BindParam(x, v)  PROVE TypeOK'
  <2> DEFINE fr == [Top EXCEPT !.mode =
        IF \A y \in Params[Top.proc] \ {x} : Declared(E, y) THEN "idle" ELSE "bind"]
  <2>1. fr \in FrameType /\ Resumable(fr)
    BY <1>2 DEF FrameType, Modes, Resumable
  <2>2. /\ SetTop(fr) /\ PutInternal(E, x, v) /\ out' = Ok
        /\ UNCHANGED <<parent, consts, cache>>
    BY <1>22 DEF BindParam
  <2> HIDE DEF fr
  <2> QED
    BY <1>2, <1>16, <2>1, <2>2 DEF TypeOK
<1>23. ASSUME NEW p \in Procs, NEW e \in Env, Call(p, e)  PROVE TypeOK'
  <2> DEFINE fr == [Frame(e, p) EXCEPT !.mode = IF Params[p] = {} THEN "idle" ELSE "bind"]
  <2>1. fr \in FrameType /\ Resumable(fr)
    BY <1>1 DEF Frame, FrameType, Modes, Resumable
  <2>2. stack' = Append(stack, fr)
    BY <1>23 DEF Call
  <2> HIDE DEF fr
  <2>3. /\ stack' \in Seq(FrameType) /\ stack' # <<>> /\ Depth' = Depth + 1
        /\ stack'[Depth + 1] = fr /\ \A i \in 1 .. Depth : stack'[i] = stack[i]
    BY <2>1, <2>2, PushType
  <2>4. heap' = heap /\ ptr' = ptr /\ consts' = consts /\ cache' = cache /\ out' = Ok
        /\ parent' \in [Env -> Env \cup {NoEnv}]
    BY <1>2, <1>23 DEF Call, TypeOK
  <2>5. \A i \in 1 .. Depth + 1 : Resumable(stack'[i])
    <3>1. \A i \in 1 .. Depth : Resumable(stack'[i])
      BY <2>3 DEF TypeOK
    <3>2. \A i \in 1 .. Depth + 1 : i \in 1 .. Depth \/ i = Depth + 1
      BY <1>2
    <3> QED
      BY <2>1, <2>3, <3>1, <3>2
  <2>6. (\A i \in 1 .. Depth : Resumable(stack[i]))'
    BY <2>3, <2>4, <2>5 DEF Resumable
  <2> QED
    BY <2>3, <2>4, <2>6 DEF TypeOK
<1>24. ASSUME NEW v \in Values, Leave(v)  PROVE TypeOK'
  <2>1. /\ stack' \in Seq(FrameType) /\ Len(stack') = Depth - 1
        /\ Depth - 1 \in 1 .. Depth
        /\ \A i \in 1 .. Depth - 1 : stack'[i] = stack[i]
    BY <1>24, PopType DEF Leave
  <2>2. stack' # <<>> /\ Depth' = Depth - 1 /\ \A i \in 1 .. Depth - 1 : i \in 1 .. Depth
    BY <1>2, <2>1 DEF Depth
  <2>3. /\ heap' = heap /\ ptr' = ptr /\ consts' = consts /\ cache' = cache
        /\ out' \in Values /\ parent' = parent
    BY <1>24 DEF Leave
  <2>4. (\A i \in 1 .. Depth : Resumable(stack[i]))'
    BY <2>1, <2>2, <2>3 DEF Resumable, TypeOK
  <2> QED
    BY <2>1, <2>2, <2>3, <2>4 DEF TypeOK
<1>25. CASE LeaveWithError
  <2> DEFINE t  == SubSeq(stack, 1, Depth - 1)
             fr == IF t[Depth - 1].mode = "bind" THEN t[Depth - 1] ELSE Settled(t[Depth - 1])
  <2>1. /\ t \in Seq(FrameType) /\ Len(t) = Depth - 1
        /\ Depth - 1 \in 1 .. Depth
        /\ \A i \in 1 .. Depth - 1 : t[i] = stack[i]
    BY <1>25, PopType DEF LeaveWithError
  <2>2. Depth - 1 \in 1 .. Len(t)
    BY <1>2, <2>1
  <2>3. t[Depth - 1] \in FrameType /\ Resumable(t[Depth - 1])
    BY <2>1, <2>2, ElementOfSeq DEF TypeOK
  <2>4. fr \in FrameType /\ Resumable(fr)
    <3> HIDE DEF t
    <3> QED
      BY <1>1, <2>3, SettledType
  <2>5. stack' = [t EXCEPT ![Depth - 1] = fr]
    BY <1>25 DEF LeaveWithError
  <2>6. /\ stack' \in Seq(FrameType)
        /\ Len(stack') = Depth - 1
        /\ \A i \in 1 .. Depth - 1 : stack'[i] = IF i = Depth - 1 THEN fr ELSE t[i]
    <3> HIDE DEF t, fr
    <3> QED
      BY <2>1, <2>2, <2>4, <2>5, ExceptSeq
  <2>7. \A i \in 1 .. Depth - 1 : Resumable(stack'[i])
    <3>1. \A i \in 1 .. Depth - 1 : Resumable(t[i])
      <4>1. \A i \in 1 .. Depth - 1 : i \in 1 .. Depth
        BY <1>2
      <4> QED
        BY <2>1, <4>1 DEF TypeOK
    <3>2. Resumable(fr) /\ \A i \in 1 .. Depth - 1 : stack'[i] = fr \/ stack'[i] = t[i]
      BY <2>4, <2>6
    <3> HIDE DEF fr, t
    <3> QED
      BY <3>1, <3>2
  <2>8. Depth' = Depth - 1 /\ stack' # <<>>
    <3>1. Len(stack') = Depth - 1 /\ Depth - 1 # 0
      BY <1>2, <2>1, <2>6
    <3> QED
      BY <3>1 DEF Depth
  <2>9. /\ heap' = heap /\ ptr' = ptr /\ consts' = consts /\ cache' = cache
        /\ out' = Ok /\ parent' = parent
    BY <1>25 DEF LeaveWithError
  <2>10. (\A i \in 1 .. Depth : Resumable(stack[i]))'
    BY <2>7, <2>8, <2>9 DEF Resumable
  <2> QED
    BY <2>6, <2>8, <2>9, <2>10 DEF TypeOK
<1> QED
  BY <1>4, <1>5, <1>7, <1>8, <1>10, <1>12, <1>13, <1>14, <1>15, <1>17, <1>18,
     <1>19, <1>20, <1>21, <1>22, <1>23, <1>24, <1>25 DEF Next

\* The script starts well typed.
LEMMA InitType == Init => TypeOK
<1> SUFFICES ASSUME Init PROVE TypeOK
  OBVIOUS
<1>1. Frame(Root, Main) \in FrameType
  BY DEF Frame, FrameType, Modes
<1>2. stack \in Seq(FrameType) /\ stack # <<>> /\ Len(stack) = 1 /\ stack[1] = Frame(Root, Main)
  BY <1>1 DEF Init
<1>3. heap \in Seq(Values) /\ Len(heap) = 0
  BY DEF Init
<1>4. \A i \in 1 .. Depth : Resumable(stack[i])
  BY <1>2, <1>3 DEF Depth, Resumable, Frame
<1>5. cache \in [Nodes -> CacheType] /\ \A n \in Nodes : cache[n].ptr = 0
  BY DEF Init, NoCache, CacheType
<1> QED
  BY <1>2, <1>3, <1>4, <1>5 DEF Init, TypeOK

\* Whatever a script does, recursion of any depth included, every pointer held
\* in a scope, a node or a suspended activation points into the heap.
THEOREM TypeCorrect == Spec => []TypeOK
BY InitType, TypeStep, PTL DEF Spec

--------------------------------------------------------------------------------
(* What a step does to the scopes.  Every action is of one of four kinds.   *)

SameActivations ==
  /\ Depth' = Depth
  /\ \A i \in 1 .. Depth : stack'[i].env = stack[i].env

\* A statement or an expression uses variables, and may fill a cache.
Uses ==
  /\ UNCHANGED <<parent, ptr, consts>>
  /\ SameActivations
  /\ UNCHANGED cache \/ \E n \in Nodes : Remember(n) /\ Current(n).ptr # 0

\* A declaration in the running activation, or at the top level.
Declares ==
  /\ UNCHANGED <<parent, cache>>
  /\ SameActivations
  /\ \E x \in Names, v \in Values :
        \/ /\ PutInternal(E, x, v)
           /\ DeclaredInTime(E, x)
           /\ UNCHANGED consts \/ (MarkConst(E, x) /\ MarkedInTime(E, x))
        \/ /\ PutInternal(Root, x, v)
           /\ UNCHANGED consts

Calls ==
  /\ UNCHANGED <<ptr, consts, cache>>
  /\ Depth' = Depth + 1
  /\ \A i \in 1 .. Depth : stack'[i].env = stack[i].env
  /\ \E e \in Env : /\ Fresh(e)
                    /\ parent' = [parent EXCEPT ![e] = Root]
                    /\ stack'[Depth + 1].env = e

Returns ==
  /\ UNCHANGED <<parent, ptr, consts, cache>>
  /\ Depth > 1 /\ Depth' = Depth - 1
  /\ \A i \in 1 .. Depth - 1 : stack'[i].env = stack[i].env

\* The running activation may change what it is doing, not where it runs.
LEMMA SetTopEnv ==
  ASSUME TypeOK, NEW fr \in FrameType, SetTop(fr), fr.env = E
  PROVE  SameActivations
<1>1. /\ Depth' = Depth
      /\ \A i \in 1 .. Depth : stack'[i] = IF i = Depth THEN fr ELSE stack[i]
  BY SetTopType
<1>2. stack[Depth].env = E
  BY DEF E, Top
<1> QED
  BY <1>1, <1>2 DEF SameActivations

\* Every action is a use, a declaration, a call or a return.
LEMMA StepKinds ==
  ASSUME TypeOK, [Next]_vars
  PROVE  Uses \/ Declares \/ Calls \/ Returns
<1>1. /\ Depth \in Nat /\ Depth >= 1 /\ E \in Env /\ E = Top.env
      /\ Top \in FrameType /\ Resumable(Top) /\ Root \in Env /\ heap \in Seq(Values)
  <2>1. Depth \in 1 .. Depth
    BY TopType
  <2>2. Resumable(stack[Depth])
    BY <2>1 DEF TypeOK
  <2> QED
    BY <2>2, TopType DEF Top, TypeOK
<1>2. UNCHANGED stack => SameActivations
  BY DEF SameActivations, Depth
<1>3. Settled(Top) \in FrameType /\ Settled(Top).env = E
  BY <1>1, SettledType DEF Settled, Frame
<1>4. CASE UNCHANGED vars
  BY <1>2, <1>4 DEF vars, Uses
<1>5. ASSUME NEW n \in Nodes, Read(n) \/ Rejected(n)  PROVE Uses
  BY <1>2, <1>5 DEF Read, Rejected, Uses
<1>6. ASSUME NEW n \in Nodes, BeginCompound(n)  PROVE Uses
  <2>1. CASE Rejected(n)
    BY <1>5, <2>1
  <2>2. CASE Accepted(n)
    <3> DEFINE fr == [Top EXCEPT !.mode = "stmt", !.node = n, !.left = heap[Current(n).ptr]]
    <3>1. heap[Current(n).ptr] \in Values
      BY <2>2, CurrentType, CellType DEF Accepted, CacheType
    <3>2. fr \in FrameType /\ fr.env = E
      BY <1>1, <3>1 DEF FrameType, Modes
    <3>3. SetTop(fr) /\ Remember(n) /\ UNCHANGED <<parent, ptr, consts>>
      BY <1>6, <2>2 DEF BeginCompound, Rejected, Accepted
    <3> QED
      BY <2>2, <3>2, <3>3, SetTopEnv DEF Uses, Accepted
  <2> QED
    BY <1>6, <2>1, <2>2 DEF BeginCompound
<1>7. ASSUME NEW n \in Nodes, EnterLoop(n)  PROVE Uses
  <2>1. CASE Rejected(n)
    BY <1>5, <2>1
  <2>2. CASE Accepted(n)
    <3> DEFINE fr == [Top EXCEPT !.mode = "cond", !.node = n, !.ptr = Current(n).ptr]
    <3>1. fr \in FrameType /\ fr.env = E
      BY <1>1, CurrentType DEF FrameType, Modes, CacheType
    <3>2. SetTop(fr) /\ Remember(n) /\ UNCHANGED <<parent, ptr, consts>>
      BY <1>7, <2>2 DEF EnterLoop, Rejected, Accepted
    <3> QED
      BY <2>2, <3>1, <3>2, SetTopEnv DEF Uses, Accepted
  <2> QED
    BY <1>7, <2>1, <2>2 DEF EnterLoop
<1>8. ASSUME NEW n \in Nodes, NEW v \in Values, Assign(n, v)  PROVE Uses
  BY <1>2, <1>5, <1>8 DEF Assign, Accepted, Uses
<1>9. ASSUME NEW v \in Values, FinishCompound(v)  PROVE Uses
  BY <1>3, <1>9, SetTopEnv DEF FinishCompound, Settle, Uses
<1>10. ASSUME NEW v \in Values, CombineInLoop(v)  PROVE Uses
  <2> DEFINE fr == [Top EXCEPT !.mode = "cond", !.left = Zero]
  <2>1. fr \in FrameType /\ fr.env = E
    BY <1>1 DEF FrameType, Modes
  <2>2. SetTop(fr) /\ UNCHANGED <<parent, ptr, consts, cache>>
    BY <1>10 DEF CombineInLoop
  <2> HIDE DEF fr
  <2> QED
    BY <2>1, <2>2, SetTopEnv DEF Uses
<1>11. CASE ContinueLoop
  <2> DEFINE fr == [Top EXCEPT !.mode = "rhs", !.left = heap[Top.ptr]]
  <2>1. Top.ptr \in Nat \ {0} /\ Top.ptr <= Len(heap)
    BY <1>1, <1>11 DEF ContinueLoop, Resumable, FrameType
  <2>2. fr \in FrameType /\ fr.env = E
    BY <1>1, <2>1, CellType DEF FrameType, Modes
  <2>3. SetTop(fr) /\ UNCHANGED <<parent, ptr, consts, cache>>
    BY <1>11 DEF ContinueLoop
  <2> HIDE DEF fr
  <2> QED
    BY <2>2, <2>3, SetTopEnv DEF Uses
<1>12. CASE Abandon
  BY <1>3, <1>12, SetTopEnv DEF Abandon, Settle, Uses
<1>13. ASSUME NEW x \in Names, RejectDeclaration(x)  PROVE Uses
  BY <1>2, <1>13 DEF RejectDeclaration, Uses
<1>14. ASSUME NEW x \in Names, DimArray(x)  PROVE Declares
  BY <1>2, <1>14 DEF DimArray, Define, Declares
<1>15. ASSUME NEW x \in Names, NEW v \in Values,
              Dim(x, v) \/ LoopVariable(x, v) \/ CatchVariable(x, v)
       PROVE  Declares
  BY <1>2, <1>15 DEF Dim, LoopVariable, CatchVariable, Define, Declares
<1>16. ASSUME NEW x \in Names, NEW v \in Values, Const(x, v)  PROVE Declares
  BY <1>2, <1>16 DEF Const, Define, Declares
<1>17. ASSUME NEW x \in Names, NEW v \in Values, Public(x, v)  PROVE Declares
  BY <1>2, <1>17 DEF Public, SetGlobal, Declares
<1>18. ASSUME NEW x \in Names, NEW v \in Values, BindParam(x, v)  PROVE Declares
  <2> DEFINE fr == [Top EXCEPT !.mode =
        IF \A y \in Params[Top.proc] \ {x} : Declared(E, y) THEN "idle" ELSE "bind"]
  <2>1. fr \in FrameType /\ fr.env = E
    BY <1>1 DEF FrameType, Modes
  <2>2. /\ SetTop(fr) /\ PutInternal(E, x, v) /\ DeclaredInTime(E, x)
        /\ UNCHANGED <<parent, consts, cache>>
    BY <1>18 DEF BindParam
  <2> HIDE DEF fr
  <2> QED
    BY <2>1, <2>2, SetTopEnv DEF Declares
<1>19. ASSUME NEW p \in Procs, NEW e \in Env, Call(p, e)  PROVE Calls
  <2> DEFINE fr == [Frame(e, p) EXCEPT !.mode = IF Params[p] = {} THEN "idle" ELSE "bind"]
  <2>1. fr \in FrameType /\ fr.env = e
    BY DEF Frame, FrameType, Modes
  <2>2. /\ stack' = Append(stack, fr) /\ Fresh(e)
        /\ parent' = [parent EXCEPT ![e] = Root] /\ UNCHANGED <<ptr, consts, cache>>
    BY <1>19 DEF Call
  <2> HIDE DEF fr
  <2> QED
    BY <2>1, <2>2, PushType DEF Calls
<1>20. ASSUME NEW v \in Values, Leave(v)  PROVE Returns
  BY <1>1, <1>20, PopType DEF Leave, Returns, Depth
<1>21. CASE LeaveWithError
  <2> DEFINE t  == SubSeq(stack, 1, Depth - 1)
             fr == IF t[Depth - 1].mode = "bind" THEN t[Depth - 1] ELSE Settled(t[Depth - 1])
  <2>1. /\ t \in Seq(FrameType) /\ Len(t) = Depth - 1 /\ Depth - 1 \in 1 .. Len(t)
        /\ \A i \in 1 .. Depth - 1 : t[i] = stack[i]
    BY <1>1, <1>21, PopType DEF LeaveWithError
  <2>2. t[Depth - 1] \in FrameType
    BY <2>1, ElementOfSeq
  <2>3. fr \in FrameType /\ fr.env = t[Depth - 1].env
    <3> HIDE DEF t
    <3> QED
      BY <1>1, <2>2, SettledType DEF Settled, Frame
  <2>4. stack' = [t EXCEPT ![Depth - 1] = fr] /\ UNCHANGED <<parent, ptr, consts, cache>>
    BY <1>21 DEF LeaveWithError
  <2> HIDE DEF t, fr
  <2>5. /\ Len(stack') = Depth - 1
        /\ \A i \in 1 .. Depth - 1 : stack'[i] = IF i = Depth - 1 THEN fr ELSE t[i]
    BY <2>1, <2>3, <2>4, ExceptSeq
  <2> QED
    BY <1>21, <2>1, <2>3, <2>4, <2>5 DEF Returns, LeaveWithError, Depth
<1> QED
  BY <1>4, <1>5, <1>6, <1>7, <1>8, <1>9, <1>10, <1>11, <1>12, <1>13, <1>14,
     <1>15, <1>16, <1>17, <1>18, <1>19, <1>20, <1>21 DEF Next

--------------------------------------------------------------------------------
(* The scope chain.  A cached Environment is reused for one activation only. *)

ScopeChain ==
  /\ stack[1].env = Root
  /\ \A i \in 2 .. Depth : parent[stack[i].env] = Root
  /\ parent[Root] = NoEnv
  /\ \A e \in Env : parent[e] \in {NoEnv, Root}
  /\ \A e \in Env : Fresh(e) => \A n \in Nodes : cache[n].env # e

\* The running activation is the top level or has been called.
LEMMA RunningIsNotFresh ==
  ASSUME TypeOK, ScopeChain
  PROVE  /\ ~Fresh(E)
         /\ E = Root => Depth = 1
         /\ \A i \in 1 .. Depth : stack[i].env = Root \/ parent[stack[i].env] = Root
         /\ \A i \in 1 .. Depth : stack[i].env \in Env
<1>1. Depth \in Nat /\ Depth >= 1 /\ E = stack[Depth].env /\ Root # NoEnv
      /\ \A i \in 1 .. Depth : stack[i].env \in Env
  BY TopType DEF FrameType, Top
<1>2. \A i \in 1 .. Depth : i = 1 \/ i \in 2 .. Depth
  BY <1>1
<1>3. Depth = 1 \/ parent[E] = Root
  BY <1>1, <1>2 DEF ScopeChain
<1>4. Depth = 1 => E = Root
  BY <1>1 DEF ScopeChain
<1> QED
  BY <1>1, <1>2, <1>3, <1>4 DEF ScopeChain, Fresh

\* No step moves an activation elsewhere in the chain.
LEMMA ChainStep ==
  ASSUME TypeOK, ScopeChain, [Next]_vars
  PROVE  ScopeChain'
<1>1. /\ Depth \in Nat /\ Depth >= 1 /\ Root \in Env /\ Root # NoEnv /\ E \in Env
      /\ \A i \in 1 .. Depth : stack[i].env \in Env
      /\ parent \in [Env -> Env \cup {NoEnv}] /\ cache \in [Nodes -> CacheType]
  BY TopType DEF TypeOK, FrameType
<1>2. CASE Uses
  <2>1. \A n \in Nodes : cache'[n].env = cache[n].env \/ cache'[n].env = E
    <3>1. ASSUME NEW m \in Nodes, Remember(m), NEW n \in Nodes
          PROVE  cache'[n].env = cache[n].env \/ cache'[n].env = E
      BY <1>1, <3>1 DEF Remember, Current, Hit, Resolved
    <3> QED
      BY <1>2, <3>1 DEF Uses
  <2>2. \A e \in Env : Fresh(e)' => Fresh(e) /\ e # E
    BY <1>2, RunningIsNotFresh DEF Uses, Fresh
  <2>3. (\A e \in Env : Fresh(e) => \A n \in Nodes : cache[n].env # e)'
    BY <2>1, <2>2 DEF ScopeChain
  <2> QED
    BY <1>1, <1>2, <2>3 DEF Uses, SameActivations, ScopeChain
<1>3. CASE Declares
  BY <1>1, <1>3 DEF Declares, SameActivations, ScopeChain, Fresh
<1>4. CASE Calls
  <2>1. PICK e \in Env : /\ Fresh(e)
                         /\ parent' = [parent EXCEPT ![e] = Root]
                         /\ stack'[Depth + 1].env = e
    BY <1>4 DEF Calls
  <2>2. e # Root /\ parent'[e] = Root /\ \A d \in Env \ {e} : parent'[d] = parent[d]
    BY <1>1, <2>1 DEF Fresh
  <2>3. \A d \in Env : Fresh(d)' => Fresh(d)
    BY <1>1, <2>2 DEF Fresh
  <2>4. ASSUME NEW i \in 2 .. Depth'  PROVE parent'[stack'[i].env] = Root
    <3>1. i \in 2 .. Depth \/ i = Depth + 1
      <4>1. Depth' = Depth + 1
        BY <1>4 DEF Calls
      <4>2. i \in 2 .. Depth + 1
        BY <4>1
      <4> QED
        BY <1>1, <4>2
    <3>2. CASE i \in 2 .. Depth
      <4>1. i \in 1 .. Depth /\ parent[stack[i].env] = Root /\ stack[i].env \in Env
        BY <1>1, <3>2 DEF ScopeChain
      <4>2. stack'[i].env = stack[i].env
        BY <1>4, <4>1 DEF Calls
      <4> QED
        BY <1>1, <2>2, <4>1, <4>2
    <3>3. CASE i = Depth + 1
      BY <2>1, <2>2, <3>3
    <3> QED
      BY <3>1, <3>2, <3>3
  <2>5. stack'[1].env = Root
    BY <1>1, <1>4 DEF Calls, ScopeChain
  <2> QED
    BY <1>1, <1>4, <2>2, <2>3, <2>4, <2>5 DEF Calls, ScopeChain
<1>5. CASE Returns
  BY <1>1, <1>5 DEF Returns, ScopeChain, Fresh
<1> QED
  BY <1>2, <1>3, <1>4, <1>5, StepKinds

--------------------------------------------------------------------------------
(* The caches.                                                              *)

\* Where a name is declared is a scope of the activation or the top level.
LEMMA DefEnvType ==
  ASSUME TypeOK, ScopeChain, NEW e \in Env, NEW x \in Names
  PROVE  DefEnv(e, x) \in Env /\ (DefEnv(e, x) = e \/ DefEnv(e, x) = Root)
BY DEF DefEnv, ScopeChain

CacheIsCurrent(n) ==
  /\ cache[n].ptr # 0
  /\ cache[n].ptr = ptr[DefEnv(cache[n].env, NodeName[n])][NodeName[n]]
  /\ NodeKind[n] # "Var" =>
        cache[n].const = (NodeName[n] \in consts[DefEnv(cache[n].env, NodeName[n])])

LEMMA CoherentMeansCurrent ==
  CacheCoherent <=> \A n \in Nodes : cache[n].env \in Live => CacheIsCurrent(n)
BY DEF CacheCoherent, CacheIsCurrent, Resolved

\* A declaration in scope d of a name x keeps a cache current, unless the node
\* searched for x from d and found it further out, or x in d becomes Const.
LEMMA DeclarationKeepsCache ==
  ASSUME TypeOK, ScopeChain, NEW d \in Env, NEW x \in Names, NEW v \in Values,
         PutInternal(d, x, v), UNCHANGED <<parent, cache>>,
         NEW n \in Nodes, cache[n].env \in Env, CacheIsCurrent(n),
         Declared(d, x) \/ d = Root \/ cache[n].env # d \/ NodeName[n] # x,
         \/ UNCHANGED consts
         \/ /\ MarkConst(d, x)
            /\ \/ NodeKind[n] = "Var"
               \/ NodeName[n] # x
               \/ DefEnv(cache[n].env, x) # d
  PROVE  CacheIsCurrent(n)'
<1> DEFINE y == NodeName[n]
           c == cache[n].env
<1>1. /\ ptr \in [Env -> [Names -> Nat]] /\ consts \in [Env -> SUBSET Names]
      /\ y \in Names /\ Root \in Env /\ parent[c] \in {NoEnv, Root} /\ NoEnv # Root
      /\ parent[Root] = NoEnv /\ Len(heap) + 1 # 0
  BY DEF TypeOK, ScopeChain
<1>2. \/ UNCHANGED ptr
      \/ ~Declared(d, x) /\ ptr' = [ptr EXCEPT ![d][x] = Len(heap) + 1]
  BY DEF PutInternal
<1>3. DefEnv(c, y) \in Env /\ (DefEnv(c, y) = c \/ DefEnv(c, y) = Root)
  BY <1>1, DefEnvType
<1>4. ptr[DefEnv(c, y)][y] # 0 /\ cache[n].ptr = ptr[DefEnv(c, y)][y]
  BY DEF CacheIsCurrent
<1>5. \A e \in Env, z \in Names : e # d \/ z # x => ptr'[e][z] = ptr[e][z]
  BY <1>1, <1>2
<1>6. DefEnv(c, y)' = DefEnv(c, y) /\ ptr'[DefEnv(c, y)][y] = ptr[DefEnv(c, y)][y]
  <2>1. CASE UNCHANGED ptr
    BY <2>1 DEF DefEnv, Declared
  <2>2. CASE y # x
    BY <1>3, <1>5, <2>2 DEF DefEnv, Declared
  <2>3. CASE ~Declared(d, x) /\ y = x
    <3>1. DefEnv(c, y) # d
      BY <1>4, <2>3 DEF Declared
    <3>2. c # d
      <4>1. CASE d = Root
        BY <1>1, <1>4, <2>3, <4>1 DEF DefEnv, Declared
      <4>2. CASE d # Root
        BY <2>3, <4>2
      <4> QED
        BY <4>1, <4>2
    <3> QED
      BY <1>3, <1>5, <3>1, <3>2 DEF DefEnv, Declared
  <2> QED
    BY <1>2, <2>1, <2>2, <2>3
<1>7. NodeKind[n] # "Var" => (y \in consts'[DefEnv(c, y)]) = (y \in consts[DefEnv(c, y)])
  <2>1. CASE MarkConst(d, x) /\ (y # x \/ DefEnv(c, y) # d)
    BY <1>1, <1>3, <2>1 DEF MarkConst
  <2> QED
    BY <2>1 DEF MarkConst
<1> QED
  BY <1>4, <1>6, <1>7 DEF CacheIsCurrent

\* What Remember stores is the result of a search made now, or was current.
LEMMA RememberKeepsCache ==
  ASSUME TypeOK, ScopeChain, UNCHANGED <<parent, ptr, consts>>,
         NEW m \in Nodes, Remember(m), Current(m).ptr # 0,
         NEW n \in Nodes, cache'[n].env = cache[n].env => CacheIsCurrent(n)
  PROVE  CacheIsCurrent(n)'
<1>1. cache' = [cache EXCEPT ![m] = Current(m)] /\ cache \in [Nodes -> CacheType]
  BY DEF Remember, TypeOK
<1>2. CASE n # m \/ Hit(m)
  <2>1. cache'[n] = cache[n]
    BY <1>1, <1>2 DEF Current
  <2> QED
    BY <2>1 DEF CacheIsCurrent, DefEnv, Declared
<1>3. CASE n = m /\ ~Hit(m)
  <2>1. cache'[n] = Resolved(E, NodeName[n])
    BY <1>1, <1>3 DEF Current
  <2>2. Current(m) = Resolved(E, NodeName[n])
    BY <1>3 DEF Current
  <2>3. /\ cache'[n].env = E
        /\ cache'[n].ptr = ptr[DefEnv(E, NodeName[n])][NodeName[n]]
        /\ cache'[n].const = (NodeName[n] \in consts[DefEnv(E, NodeName[n])])
        /\ cache'[n].ptr # 0
    BY <2>1, <2>2 DEF Resolved
  <2> QED
    BY <2>3 DEF CacheIsCurrent, DefEnv, Declared
<1> QED
  BY <1>2, <1>3

\* No step leaves a stale cache behind in an activation that can continue.
LEMMA CacheStep ==
  ASSUME "late_shadow" \notin Features, "late_const" \notin Features,
         TypeOK, ScopeChain, CacheCoherent, [Next]_vars
  PROVE  CacheCoherent'
<1> SUFFICES ASSUME NEW n \in Nodes, (cache[n].env \in Live)'
             PROVE  CacheIsCurrent(n)'
  <2>1. (\A n \in Nodes : cache[n].env \in Live => CacheIsCurrent(n))' => CacheCoherent'
    BY CoherentMeansCurrent, PTL
  <2> QED
    BY <2>1
<1>1. cache[n].env \in Live => CacheIsCurrent(n)
  BY CoherentMeansCurrent
<1>2. /\ Depth \in Nat /\ Depth >= 1 /\ E = stack[Depth].env /\ Root \in Env
      /\ \A i \in 1 .. Depth : stack[i].env \in Env
      /\ \A i \in 1 .. Depth : stack[i].env = Root \/ parent[stack[i].env] = Root
      /\ parent \in [Env -> Env \cup {NoEnv}] /\ cache \in [Nodes -> CacheType]
  BY TopType, RunningIsNotFresh DEF TypeOK, Top
<1>3. PICK i \in 1 .. Depth' : cache'[n].env = stack'[i].env
  BY DEF Live
<1>4. CASE Uses
  <2>1. cache'[n].env \in Live
    BY <1>3, <1>4 DEF Uses, SameActivations, Live
  <2>2. CASE UNCHANGED cache
    BY <1>1, <1>4, <2>1, <2>2 DEF Uses, CacheIsCurrent, DefEnv, Declared
  <2>3. ASSUME NEW m \in Nodes, Remember(m), Current(m).ptr # 0
        PROVE  CacheIsCurrent(n)'
    BY <1>1, <1>4, <2>1, <2>3, RememberKeepsCache DEF Uses
  <2> QED
    BY <1>4, <2>2, <2>3 DEF Uses
<1>5. CASE Declares
  <2>1. cache'[n].env = cache[n].env /\ cache[n].env \in Live /\ cache[n].env \in Env
    BY <1>2, <1>3, <1>5 DEF Declares, SameActivations, Live
  <2>2. CacheIsCurrent(n)
    BY <1>1, <2>1
  <2>3. PICK x \in Names, v \in Values :
          \/ /\ PutInternal(E, x, v)
             /\ DeclaredInTime(E, x)
             /\ UNCHANGED consts \/ (MarkConst(E, x) /\ MarkedInTime(E, x))
          \/ /\ PutInternal(Root, x, v)
             /\ UNCHANGED consts
    BY <1>5 DEF Declares
  <2>4. UNCHANGED <<parent, cache>>
    BY <1>5 DEF Declares
  <2>5. CASE PutInternal(Root, x, v) /\ UNCHANGED consts
    BY <1>2, <2>1, <2>2, <2>4, <2>5, DeclarationKeepsCache
  <2>6. CASE PutInternal(E, x, v) /\ DeclaredInTime(E, x) /\ UNCHANGED consts
    <3>1. Declared(E, x) \/ cache[n].env # E \/ NodeName[n] # x
      BY <2>6 DEF DeclaredInTime, Cached, Kinds
    <3> QED
      BY <1>2, <2>1, <2>2, <2>4, <2>6, <3>1, DeclarationKeepsCache
  <2>7. CASE /\ PutInternal(E, x, v) /\ DeclaredInTime(E, x)
             /\ MarkConst(E, x) /\ MarkedInTime(E, x)
    <3>1. Declared(E, x) \/ cache[n].env # E \/ NodeName[n] # x
      BY <2>7 DEF DeclaredInTime, Cached, Kinds
    <3>2. NodeKind[n] = "Var" \/ NodeName[n] # x \/ cache[n].env # E
      BY <2>7 DEF MarkedInTime, Cached, Kinds
    <3>3. NodeKind[n] = "Var" \/ NodeName[n] # x \/ DefEnv(cache[n].env, x) # E
      <4>1. SUFFICES ASSUME cache[n].env # E  PROVE DefEnv(cache[n].env, x) # E
        BY <3>2
      <4>2. E # Root
        <5>1. PICK j \in 1 .. Depth : cache[n].env = stack[j].env
          BY <2>1 DEF Live
        <5>2. Depth # 1
          BY <1>2, <4>1, <5>1
        <5> QED
          BY <5>2, RunningIsNotFresh
      <4> QED
        BY <2>1, <4>1, <4>2, DefEnvType
    <3> QED
      BY <1>2, <2>1, <2>2, <2>4, <2>7, <3>1, <3>3, DeclarationKeepsCache
  <2> QED
    BY <2>3, <2>5, <2>6, <2>7
<1>6. CASE Calls
  <2>1. PICK e \in Env : /\ Fresh(e)
                         /\ parent' = [parent EXCEPT ![e] = Root]
                         /\ stack'[Depth + 1].env = e
    BY <1>6 DEF Calls
  <2>2. cache' = cache /\ cache[n].env # e /\ Depth' = Depth + 1
    BY <1>6, <2>1 DEF Calls, ScopeChain
  <2>3. i \in 1 .. Depth
    BY <1>2, <1>3, <2>1, <2>2
  <2>4. cache[n].env \in Live /\ cache[n].env \in Env
    BY <1>2, <1>3, <1>6, <2>2, <2>3 DEF Calls, Live
  <2>5. parent'[cache[n].env] = parent[cache[n].env] /\ ptr' = ptr /\ consts' = consts
    BY <1>2, <1>6, <2>1, <2>2, <2>4 DEF Calls
  <2> QED
    BY <1>1, <2>2, <2>4, <2>5 DEF CacheIsCurrent, DefEnv, Declared
<1>7. CASE Returns
  <2>1. cache' = cache /\ i \in 1 .. Depth - 1 /\ i \in 1 .. Depth /\ stack'[i].env = stack[i].env
    BY <1>2, <1>3, <1>7 DEF Returns
  <2>2. cache[n].env \in Live
    BY <1>3, <2>1 DEF Live
  <2> QED
    BY <1>1, <1>7, <2>2 DEF Returns, CacheIsCurrent, DefEnv, Declared
<1> QED
  BY <1>4, <1>5, <1>6, <1>7, StepKinds

\* Scripts that declare a name, or declare it Const, before they use it in the
\* same activation never meet a stale cache, however deep the recursion.
THEOREM CachesAreCoherent ==
  ASSUME "late_shadow" \notin Features, "late_const" \notin Features
  PROVE  Spec => []CacheCoherent
<1>1. Init => TypeOK /\ ScopeChain /\ CacheCoherent
  <2> SUFFICES ASSUME Init  PROVE TypeOK /\ ScopeChain /\ CacheCoherent
    OBVIOUS
  <2>1. TypeOK
    BY InitType
  <2>2. Depth = 1 /\ stack[1].env = Root
    BY DEF Init, Frame, Depth
  <2>3. \A n \in Nodes : cache[n].env = NoEnv
    BY DEF Init, NoCache
  <2>4. ScopeChain
    BY <2>2, <2>3 DEF Init, ScopeChain
  <2>5. CacheCoherent
    BY <2>2, <2>3 DEF CacheCoherent, Live
  <2> QED
    BY <2>1, <2>4, <2>5
<1>2. TypeOK /\ ScopeChain /\ CacheCoherent /\ [Next]_vars
        => (TypeOK /\ ScopeChain /\ CacheCoherent)'
  BY TypeStep, ChainStep, CacheStep
<1> QED
  BY <1>1, <1>2, PTL DEF Spec

--------------------------------------------------------------------------------
(* The interpreter implements LexicalScope.                                 *)

\* Two variables never share a pointer.
Distinct ==
  \A d, e \in Env, x, y \in Names : Declared(d, x) /\ ptr[d][x] = ptr[e][y] => d = e /\ x = y

\* A scope is empty until a call gets it, and what is constant is declared.
Blank ==
  /\ \A e \in Env : Fresh(e) => consts[e] = {} /\ \A x \in Names : ~Declared(e, x)
  /\ \A e \in Env : \A x \in consts[e] : Declared(e, x)

\* Every activation has a scope of its own.
OwnScopes ==
  \A i, j \in 1 .. Depth : stack[i].env = stack[j].env => i = j

\* What an activation in the middle of a compound assignment relies on: the
\* variable it has found is still the one the name denotes, it is not a constant,
\* and the left operand the loop reads late is the one it would have read early.
HomeIn(par, p, e, x) == IF p[e][x] # 0 \/ par[e] = NoEnv THEN e ELSE par[e]

PendingIn(fr, par, p, h, k, c) ==
  LET x == NodeName[fr.node]
      d == HomeIn(par, p, fr.env, x)
  IN  fr.mode \in {"stmt", "cond", "rhs"} =>
        /\ p[d][x] # 0 /\ x \notin k[d]
        /\ fr.mode = "stmt" => NodeKind[fr.node] = "Compound" /\ c[fr.node].env = fr.env
        /\ fr.mode # "stmt" => fr.ptr = p[d][x]
        /\ fr.mode = "rhs" => fr.left = h[fr.ptr]

Pending(fr) == PendingIn(fr, parent, ptr, heap, consts, cache)

RefInv ==
  /\ TypeOK /\ ScopeChain /\ CacheCoherent
  /\ Distinct /\ Blank /\ OwnScopes
  /\ \A i \in 1 .. Depth : Pending(stack[i])

\* What a name of a running activation denotes, in both specifications.
LEMMA ValueIs ==
  ASSUME TypeOK, NEW e \in Env, NEW x \in Names
  PROVE  /\ scopeBar[e][x] = Value(e, x)
         /\ Value(e, x) # Undeclared <=> Declared(e, x)
         /\ Declared(e, x) => /\ ptr[e][x] \in 1 .. Len(heap)
                              /\ Value(e, x) = heap[ptr[e][x]] /\ Value(e, x) \in Values
<1>1. scopeBar[e][x] = Value(e, x)
  BY DEF scopeBar
<1>2. ptr[e][x] \in Nat /\ ptr[e][x] <= Len(heap)
  BY DEF TypeOK
<1>3. Declared(e, x) => ptr[e][x] \in 1 .. Len(heap) /\ heap[ptr[e][x]] \in Values
  BY <1>2, CellType DEF Declared
<1> QED
  BY <1>1, <1>3 DEF Value

\* A search up the chain of Environments ends where the language looks.
LEMMA HomeIs ==
  ASSUME TypeOK, ScopeChain, NEW e \in Env, e = Root \/ parent[e] = Root, NEW x \in Names
  PROVE  Lexical!Home(e, x) = DefEnv(e, x) /\ DefEnv(e, x) \in Env
<1>1. scopeBar[e][x] # Undeclared <=> Declared(e, x)
  BY ValueIs
<1>2. parent[Root] = NoEnv /\ Root # NoEnv /\ Root \in Env
  BY DEF ScopeChain
<1> QED
  BY <1>1, <1>2 DEF Lexical!Home, DefEnv

\* The running activation is the top level or hangs off it.
LEMMA RunningScope ==
  ASSUME TypeOK, ScopeChain, NEW i \in 1 .. Depth
  PROVE  /\ stack[i] \in FrameType /\ stack[i].env \in Env
         /\ stack[i].env = Root \/ parent[stack[i].env] = Root
         /\ ~Fresh(stack[i].env)
<1>1. stack[i] \in FrameType /\ stack[i].env \in Env
  BY TopType DEF FrameType
<1>2. stack[i].env = Root \/ parent[stack[i].env] = Root
  BY RunningIsNotFresh
<1> QED
  BY <1>1, <1>2 DEF Fresh

\* What a node uses, by its cache or by a search, is what its name denotes now.
LEMMA CurrentIsFresh ==
  ASSUME TypeOK, ScopeChain, CacheCoherent, NEW n \in Nodes
  PROVE  /\ NodeName[n] \in Names /\ E \in Env
         /\ Lexical!Home(E, NodeName[n]) = DefEnv(E, NodeName[n])
         /\ DefEnv(E, NodeName[n]) \in Env
         /\ Current(n).env = E
         /\ Current(n).ptr = ptr[DefEnv(E, NodeName[n])][NodeName[n]]
         /\ NodeKind[n] # "Var" =>
              Current(n).const = (NodeName[n] \in consts[DefEnv(E, NodeName[n])])
<1>1. NodeName[n] \in Names /\ Depth \in 1 .. Depth /\ E = stack[Depth].env /\ E \in Env
  BY TopType DEF E, Top
<1>2. Lexical!Home(E, NodeName[n]) = DefEnv(E, NodeName[n]) /\ DefEnv(E, NodeName[n]) \in Env
  BY <1>1, RunningScope, HomeIs
<1>3. E \in Live
  BY <1>1 DEF Live
<1>4. CASE Hit(n)
  <2>1. cache[n].env = E /\ Current(n) = cache[n]
    BY <1>4 DEF Hit, Current
  <2>2. CacheIsCurrent(n)
    BY <1>3, <2>1, CoherentMeansCurrent
  <2> QED
    BY <1>1, <1>2, <2>1, <2>2 DEF CacheIsCurrent
<1>5. CASE ~Hit(n)
  BY <1>1, <1>2, <1>5 DEF Current, Resolved
<1> QED
  BY <1>4, <1>5

\* A write through the pointer of a variable changes that variable only.
LEMMA WriteBar ==
  ASSUME TypeOK, Distinct, NEW e \in Env, NEW x \in Names, NEW v \in Values,
         Declared(e, x), Write(ptr[e][x], v), UNCHANGED ptr
  PROVE  scopeBar' = [scopeBar EXCEPT ![e][x] = v]
<1>1. ptr[e][x] \in 1 .. Len(heap) /\ ptr[e][x] \in Nat /\ heap \in Seq(Values)
  <2>1. ptr[e][x] \in 1 .. Len(heap)
    BY ValueIs
  <2> QED
    BY <2>1 DEF TypeOK
<1>2. \A q \in 1 .. Len(heap) : heap'[q] = IF q = ptr[e][x] THEN v ELSE heap[q]
  BY <1>1, WriteType
<1>3. ASSUME NEW d \in Env, NEW y \in Names
      PROVE  Value(d, y)' = IF d = e /\ y = x THEN v ELSE Value(d, y)
  <2>1. CASE ~Declared(d, y)
    BY <2>1 DEF Value, Declared
  <2>2. CASE Declared(d, y)
    <3>1. ptr[d][y] \in 1 .. Len(heap)
      BY <2>2, ValueIs
    <3>2. ptr[d][y] = ptr[e][x] <=> d = e /\ y = x
      BY <2>2 DEF Distinct
    <3> QED
      BY <1>2, <2>2, <3>1, <3>2 DEF Value, Declared
  <2> QED
    BY <2>1, <2>2
<1>4. scopeBar' = [d \in Env |-> [y \in Names |-> IF d = e /\ y = x THEN v ELSE Value(d, y)]]
  BY <1>3 DEF scopeBar
<1> QED
  BY <1>4 DEF scopeBar

\* So does a declaration, whether the name was there or not.
LEMMA PutBar ==
  ASSUME TypeOK, Distinct, NEW e \in Env, NEW x \in Names, NEW v \in Values,
         PutInternal(e, x, v)
  PROVE  scopeBar' = [scopeBar EXCEPT ![e][x] = v]
<1>1. CASE Declared(e, x)
  BY <1>1, WriteBar DEF PutInternal
<1>2. CASE ~Declared(e, x)
  <2>1. /\ heap' = Append(heap, v) /\ ptr' = [ptr EXCEPT ![e][x] = Len(heap) + 1]
        /\ ptr \in [Env -> [Names -> Nat]] /\ heap \in Seq(Values)
    BY <1>2 DEF PutInternal, TypeOK
  <2>2. /\ Len(heap) \in Nat /\ heap'[Len(heap) + 1] = v
        /\ \A q \in 1 .. Len(heap) : heap'[q] = heap[q]
    BY <2>1, AppendProperties
  <2>3. ASSUME NEW d \in Env, NEW y \in Names
        PROVE  Value(d, y)' = IF d = e /\ y = x THEN v ELSE Value(d, y)
    <3>1. CASE d = e /\ y = x
      <4>1. ptr'[d][y] = Len(heap) + 1 /\ Len(heap) + 1 # 0
        BY <2>1, <2>2, <3>1
      <4> QED
        BY <2>2, <3>1, <4>1 DEF Value, Declared
    <3>2. CASE ~(d = e /\ y = x)
      <4>1. ptr'[d][y] = ptr[d][y]
        BY <2>1, <3>2
      <4>2. Declared(d, y) => ptr[d][y] \in 1 .. Len(heap)
        BY ValueIs
      <4> QED
        BY <2>2, <3>2, <4>1, <4>2 DEF Value, Declared
    <3> QED
      BY <3>1, <3>2
  <2>4. scopeBar' = [d \in Env |-> [y \in Names |-> IF d = e /\ y = x THEN v ELSE Value(d, y)]]
    BY <2>3 DEF scopeBar
  <2> QED
    BY <2>4 DEF scopeBar
<1> QED
  BY <1>1, <1>2

\* Nothing else changes a variable.
LEMMA SameBar ==
  ASSUME UNCHANGED <<ptr, heap>>
  PROVE  scopeBar' = scopeBar
BY DEF scopeBar, Value, Declared

Bars == {FrameBar(fr) : fr \in FrameType}

\* A stack and the calls it stands for.
LEMMA BarSeq ==
  ASSUME NEW s \in Seq(FrameType)
  PROVE  /\ [i \in 1 .. Len(s) |-> FrameBar(s[i])] \in Seq(Bars)
         /\ Len([i \in 1 .. Len(s) |-> FrameBar(s[i])]) = Len(s)
<1>1. Len(s) \in Nat /\ \A i \in 1 .. Len(s) : s[i] \in FrameType
  BY LenProperties, ElementOfSeq
<1>2. \A i \in 1 .. Len(s) : FrameBar(s[i]) \in Bars
  BY <1>1 DEF Bars
<1> HIDE DEF Bars
<1> QED
  BY <1>1, <1>2

\* The calls that the stack stands for, before and after a step.
LEMMA StackBarIs ==
  ASSUME TypeOK
  PROVE  /\ stackBar \in Seq(Bars) /\ Len(stackBar) = Depth /\ Lexical!Depth = Depth
         /\ \A i \in 1 .. Depth : stackBar[i] = FrameBar(stack[i])
         /\ Lexical!Top = FrameBar(Top)
         /\ Lexical!Top.env = E
<1>1. stackBar \in Seq(Bars) /\ Len(stackBar) = Depth
  BY BarSeq DEF TypeOK, stackBar, Depth
<1>2. \A i \in 1 .. Depth : stackBar[i] = FrameBar(stack[i])
  BY DEF stackBar
<1>3. Depth \in 1 .. Depth
  BY TopType
<1>4. Lexical!Depth = Depth
  BY <1>1 DEF Lexical!Depth
<1>5. Lexical!Top = FrameBar(Top)
  BY <1>2, <1>3, <1>4 DEF Lexical!Top, Top
<1> QED
  BY <1>1, <1>2, <1>4, <1>5 DEF FrameBar, E

LEMMA NextStackBar ==
  ASSUME stack' \in Seq(FrameType)
  PROVE  /\ stackBar' \in Seq(Bars) /\ Len(stackBar') = Depth'
         /\ \A i \in 1 .. Depth' : stackBar'[i] = FrameBar(stack'[i])
<1>1. stackBar' = [i \in 1 .. Len(stack') |-> FrameBar(stack'[i])]
  BY DEF stackBar, FrameBar, Depth
<1> QED
  BY <1>1, BarSeq DEF Depth

\* The running activation goes on to something else.
LEMMA TopBar ==
  ASSUME TypeOK, NEW fr \in FrameType, SetTop(fr), fr.env = Top.env, fr.proc = Top.proc
  PROVE  /\ stackBar' = [stackBar EXCEPT ![Lexical!Depth].pend = FrameBar(fr).pend]
         /\ FrameBar(fr).pend = FrameBar(Top).pend => stackBar' = stackBar
<1>1. /\ stack' \in Seq(FrameType) /\ Depth' = Depth
      /\ \A i \in 1 .. Depth : stack'[i] = IF i = Depth THEN fr ELSE stack[i]
  BY SetTopType
<1>2. /\ stackBar' \in Seq(Bars) /\ Len(stackBar') = Depth
      /\ \A i \in 1 .. Depth : stackBar'[i] = IF i = Depth THEN FrameBar(fr) ELSE stackBar[i]
  <2>1. /\ stackBar' \in Seq(Bars) /\ Len(stackBar') = Depth'
        /\ \A i \in 1 .. Depth' : stackBar'[i] = FrameBar(stack'[i])
    BY <1>1, NextStackBar
  <2> QED
    BY <1>1, <2>1, StackBarIs
<1>3. /\ stackBar \in Seq(Bars) /\ Len(stackBar) = Depth /\ Lexical!Depth = Depth
      /\ Depth \in 1 .. Depth /\ stackBar[Depth] = FrameBar(Top)
  <2>1. Depth \in 1 .. Depth
    BY TopType
  <2> QED
    BY <2>1, StackBarIs DEF Top
<1>4. FrameBar(fr) \in Bars /\ FrameBar(fr) = [FrameBar(Top) EXCEPT !.pend = FrameBar(fr).pend]
  <2>1. FrameBar(fr) \in Bars
    BY DEF Bars
  <2>2. FrameBar(fr) = [FrameBar(Top) EXCEPT !.pend = FrameBar(fr).pend]
    BY DEF FrameBar
  <2> QED
    BY <2>1, <2>2
<1>5. stackBar' = [stackBar EXCEPT ![Depth] = FrameBar(fr)]
  <2> DEFINE b == [stackBar EXCEPT ![Depth] = FrameBar(fr)]
  <2>1. /\ b \in Seq(Bars) /\ Len(b) = Depth
        /\ \A i \in 1 .. Depth : b[i] = IF i = Depth THEN FrameBar(fr) ELSE stackBar[i]
    BY <1>3, <1>4, ExceptSeq
  <2> HIDE DEF b
  <2>2. \A i \in 1 .. Len(b) : b[i] = stackBar'[i]
    BY <1>2, <2>1
  <2>3. stackBar' = b
    BY <1>2, <2>1, <2>2, SeqEqual
  <2> QED
    BY <2>3 DEF b
<1>6. stackBar' = [stackBar EXCEPT ![Lexical!Depth].pend = FrameBar(fr).pend]
  BY <1>3, <1>4, <1>5
<1>7. ASSUME FrameBar(fr).pend = FrameBar(Top).pend PROVE stackBar' = stackBar
  <2>1. FrameBar(fr) = FrameBar(Top)
    BY <1>4, <1>7 DEF FrameBar
  <2>2. \A i \in 1 .. Len(stackBar) : stackBar[i] = stackBar'[i]
    BY <1>2, <1>3, <2>1
  <2> QED
    BY <1>2, <1>3, <2>2, SeqEqual
<1> QED
  BY <1>6, <1>7

\* Every action of the interpreter is a step of the language.
LEMMA ReadImplements ==
  ASSUME RefInv, NEW n \in Nodes, Read(n)
  PROVE  Lexical!Read(NodeName[n])
<1> DEFINE x == NodeName[n]
           d == DefEnv(E, x)
<1>1. /\ x \in Names /\ d \in Env /\ Lexical!Home(E, x) = d /\ Current(n).ptr = ptr[d][x]
  BY CurrentIsFresh DEF RefInv
<1>2. scopeBar[d][x] = out'
  BY <1>1, ValueIs DEF RefInv, Read, Value, Declared
<1>3. scopeBar' = scopeBar /\ UNCHANGED consts /\ stackBar' = stackBar
  BY SameBar DEF Read, stackBar, FrameBar, Depth
<1>4. Lexical!Top.env = E
  BY StackBarIs DEF RefInv
<1> QED
  BY <1>1, <1>2, <1>3, <1>4 DEF Lexical!Read

\* What a stack in the middle of nothing stands for.
LEMMA IdleTop ==
  ASSUME TypeOK
  PROVE  /\ Top.mode \notin {"stmt", "rhs"} => Lexical!Top.pend = Lexical!Idle
         /\ Top.mode \in {"stmt", "rhs"} =>
              Lexical!Top.pend = [name |-> NodeName[Top.node], left |-> Top.left]
BY StackBarIs DEF FrameBar, Lexical!Idle

\* An assignment to an unknown name or a constant.
LEMMA RejectedImplements ==
  ASSUME RefInv, NEW n \in Nodes, NodeKind[n] # "Var", Top.mode = "idle", Rejected(n)
  PROVE  Lexical!RejectUndeclared(NodeName[n]) \/ Lexical!RejectConst(NodeName[n])
<1> DEFINE x == NodeName[n]
           d == DefEnv(E, x)
<1>1. /\ x \in Names /\ d \in Env /\ Lexical!Home(E, x) = d /\ Current(n).ptr = ptr[d][x]
      /\ Current(n).const = (x \in consts[d])
  BY CurrentIsFresh DEF RefInv
<1>2. scopeBar' = scopeBar /\ UNCHANGED consts /\ stackBar' = stackBar
  BY SameBar DEF Rejected, stackBar, FrameBar, Depth
<1>3. Lexical!Top.env = E /\ Lexical!Top.pend = Lexical!Idle
  BY StackBarIs, IdleTop DEF RefInv
<1>4. CASE Current(n).ptr = 0 /\ out' = Undeclared
  <2>1. ~Declared(d, x)
    BY <1>1, <1>4 DEF Declared
  <2>2. TypeOK
    BY DEF RefInv
  <2>3. scopeBar[d][x] = Undeclared
    BY <1>1, <2>1, <2>2, ValueIs
  <2> QED
    BY <1>1, <1>2, <1>3, <1>4, <2>3 DEF Lexical!RejectUndeclared, Lexical!Reject
<1>5. CASE Current(n).const /\ out' = ConstError
  BY <1>1, <1>2, <1>3, <1>5 DEF Lexical!RejectConst, Lexical!Reject
<1> QED
  BY <1>4, <1>5 DEF Rejected

\* What an accepted assignment has found.
LEMMA AcceptedIs ==
  ASSUME RefInv, NEW n \in Nodes, NodeKind[n] # "Var", Accepted(n)
  PROVE  LET x == NodeName[n]
             d == DefEnv(E, x)
         IN  /\ x \in Names /\ d \in Env /\ Lexical!Home(E, x) = d
             /\ Current(n).ptr = ptr[d][x] /\ Declared(d, x) /\ x \notin consts[d]
             /\ scopeBar[d][x] = heap[Current(n).ptr] /\ scopeBar[d][x] # Undeclared
             /\ heap[Current(n).ptr] \in Values
<1> DEFINE x == NodeName[n]
           d == DefEnv(E, x)
<1>1. /\ x \in Names /\ d \in Env /\ Lexical!Home(E, x) = d /\ Current(n).ptr = ptr[d][x]
      /\ Current(n).const = (x \in consts[d])
  BY CurrentIsFresh DEF RefInv
<1>2. Declared(d, x) /\ x \notin consts[d]
  BY <1>1 DEF Accepted, Declared
<1> QED
  BY <1>1, <1>2, ValueIs DEF RefInv

LEMMA AssignImplements ==
  ASSUME RefInv, NEW n \in Nodes, NEW v \in Values, Assign(n, v), Accepted(n)
  PROVE  Lexical!Assign(NodeName[n], v)
<1> DEFINE x == NodeName[n]
           d == DefEnv(E, x)
<1>1. NodeKind[n] # "Var" /\ Top.mode = "idle" /\ Write(Current(n).ptr, v) /\ out' = Ok
      /\ UNCHANGED <<ptr, consts, stack>>
  BY DEF Assign, Executes, Rejected, Accepted
<1>2. /\ x \in Names /\ d \in Env /\ Lexical!Home(E, x) = d
      /\ Current(n).ptr = ptr[d][x] /\ Declared(d, x) /\ x \notin consts[d]
      /\ scopeBar[d][x] # Undeclared
  BY <1>1, AcceptedIs
<1>3. scopeBar' = [scopeBar EXCEPT ![d][x] = v]
  BY <1>1, <1>2, WriteBar DEF RefInv
<1>4. Lexical!Top.env = E /\ Lexical!Top.pend = Lexical!Idle
  BY <1>1, StackBarIs, IdleTop DEF RefInv
<1>5. stackBar' = stackBar
  BY <1>1 DEF stackBar, FrameBar, Depth
<1> QED
  BY <1>1, <1>2, <1>3, <1>4, <1>5 DEF Lexical!Assign

\* The frame at the top while an operand is evaluated.
LEMMA TopOf ==
  ASSUME RefInv
  PROVE  /\ TypeOK /\ Depth \in 1 .. Depth /\ Top \in FrameType /\ Resumable(Top)
         /\ Pending(Top) /\ Top.env = E /\ E \in Env /\ Top.proc \in Procs
         /\ Settled(Top) \in FrameType
         /\ E = Root \/ parent[E] = Root
<1>1. Depth \in 1 .. Depth /\ Top = stack[Depth] /\ TypeOK /\ Top \in FrameType
      /\ Top.env = E /\ E \in Env
  BY TopType DEF RefInv, Top, E
<1>2. Resumable(Top) /\ Pending(Top)
  BY <1>1 DEF RefInv, TypeOK
<1>3. Settled(Top) \in FrameType
  BY <1>1, SettledType DEF TypeOK
<1>4. E = Root \/ parent[E] = Root
  BY <1>1, RunningScope DEF RefInv
<1> QED
  BY <1>1, <1>2, <1>3, <1>4 DEF FrameType

LEMMA BeginImplements ==
  ASSUME RefInv, NEW n \in Nodes, BeginCompound(n), Accepted(n)
  PROVE  Lexical!BeginCompound(NodeName[n])
<1> DEFINE x  == NodeName[n]
           d  == DefEnv(E, x)
           fr == [Top EXCEPT !.mode = "stmt", !.node = n, !.left = heap[Current(n).ptr]]
<1>1. NodeKind[n] # "Var" /\ Top.mode = "idle" /\ SetTop(fr) /\ out' = Ok
      /\ UNCHANGED <<ptr, heap, consts>>
  BY DEF BeginCompound, Executes, Rejected, Accepted
<1>2. /\ x \in Names /\ d \in Env /\ Lexical!Home(E, x) = d /\ x \notin consts[d]
      /\ scopeBar[d][x] # Undeclared /\ scopeBar[d][x] = heap[Current(n).ptr]
      /\ heap[Current(n).ptr] \in Values
  BY <1>1, AcceptedIs
<1>3. /\ fr \in FrameType /\ fr.env = Top.env /\ fr.proc = Top.proc
      /\ FrameBar(fr).pend = [name |-> x, left |-> heap[Current(n).ptr]]
  BY <1>2, TopOf DEF FrameType, Modes, FrameBar
<1>4. stackBar' = [stackBar EXCEPT ![Lexical!Depth].pend = FrameBar(fr).pend]
  <2> HIDE DEF fr
  <2> QED
    BY <1>1, <1>3, TopOf, TopBar
<1>5. Lexical!Top.env = E /\ Lexical!Top.pend = Lexical!Idle
  BY <1>1, StackBarIs, IdleTop DEF RefInv
<1>6. scopeBar' = scopeBar
  BY <1>1, SameBar
<1> QED
  BY <1>1, <1>2, <1>3, <1>4, <1>5, <1>6 DEF Lexical!BeginCompound

\* Entering a loop over a compound assignment does nothing yet.
LEMMA EnterImplements ==
  ASSUME RefInv, NEW n \in Nodes, EnterLoop(n), Accepted(n)
  PROVE  Lexical!AbandonCompound
<1> DEFINE fr == [Top EXCEPT !.mode = "cond", !.node = n, !.ptr = Current(n).ptr]
<1>1. Top.mode = "idle" /\ SetTop(fr) /\ out' = Ok /\ UNCHANGED <<ptr, heap, consts>>
  BY DEF EnterLoop, Rejected, Accepted
<1>2. /\ fr \in FrameType /\ fr.env = Top.env /\ fr.proc = Top.proc
      /\ FrameBar(fr).pend = Lexical!Idle
  BY CurrentType, TopOf DEF FrameType, Modes, FrameBar, CacheType, Lexical!Idle
<1>3. stackBar' = [stackBar EXCEPT ![Lexical!Depth].pend = Lexical!Idle]
  <2> HIDE DEF fr
  <2> QED
    BY <1>1, <1>2, TopOf, TopBar
<1>4. scopeBar' = scopeBar
  BY <1>1, SameBar
<1> QED
  BY <1>1, <1>3, <1>4 DEF Lexical!AbandonCompound

LEMMA AbandonImplements ==
  ASSUME RefInv, Abandon
  PROVE  Lexical!AbandonCompound
<1>1. SetTop(Settled(Top)) /\ out' = Ok /\ UNCHANGED <<ptr, heap, consts>>
  BY DEF Abandon, Settle
<1>2. /\ Settled(Top).env = Top.env /\ Settled(Top).proc = Top.proc
      /\ FrameBar(Settled(Top)).pend = Lexical!Idle
  BY DEF FrameBar, Settled, Frame, Lexical!Idle
<1>3. stackBar' = [stackBar EXCEPT ![Lexical!Depth].pend = Lexical!Idle]
  BY <1>1, <1>2, TopOf, TopBar
<1>4. scopeBar' = scopeBar
  BY <1>1, SameBar
<1> QED
  BY <1>1, <1>3, <1>4 DEF Lexical!AbandonCompound

\* The variable of a compound assignment in the running activation.
LEMMA PendingVar ==
  ASSUME RefInv, Top.mode \in {"stmt", "cond", "rhs"}
  PROVE  LET x == NodeName[Top.node]
             d == DefEnv(E, x)
         IN  /\ Top.node \in Nodes /\ x \in Names /\ d \in Env /\ Lexical!Home(E, x) = d
             /\ Declared(d, x) /\ x \notin consts[d]
             /\ scopeBar[d][x] = heap[ptr[d][x]] /\ scopeBar[d][x] \in Values
             /\ scopeBar[d][x] # Undeclared
             /\ Top.mode = "stmt" => cache[Top.node].ptr = ptr[d][x]
             /\ Top.mode # "stmt" => Top.ptr = ptr[d][x]
             /\ Top.mode = "rhs" => Top.left = heap[Top.ptr]
<1> DEFINE x == NodeName[Top.node]
           d == DefEnv(E, x)
<1>1. Top.node \in Nodes /\ x \in Names
  BY TopOf DEF Resumable
<1>2. d \in Env /\ Lexical!Home(E, x) = d
  BY <1>1, TopOf, HomeIs DEF RefInv
<1>3. /\ Declared(d, x) /\ x \notin consts[d]
      /\ Top.mode = "stmt" => cache[Top.node].env = E
      /\ Top.mode # "stmt" => Top.ptr = ptr[d][x]
      /\ Top.mode = "rhs" => Top.left = heap[Top.ptr]
  BY TopOf DEF Pending, PendingIn, HomeIn, DefEnv, Declared
<1>4. scopeBar[d][x] = heap[ptr[d][x]] /\ scopeBar[d][x] \in Values /\ scopeBar[d][x] # Undeclared
  BY <1>1, <1>2, <1>3, ValueIs, TopOf
<1>5. ASSUME Top.mode = "stmt" PROVE cache[Top.node].ptr = ptr[d][x]
  <2>1. cache[Top.node].env = E /\ E \in Live
    BY <1>3, <1>5, TopOf DEF Live, Top, E
  <2>2. CacheIsCurrent(Top.node)
    BY <1>1, <2>1, CoherentMeansCurrent DEF RefInv
  <2> QED
    BY <2>1, <2>2 DEF CacheIsCurrent
<1> QED
  BY <1>1, <1>2, <1>3, <1>4, <1>5

LEMMA FinishImplements ==
  ASSUME RefInv, NEW v \in Values, FinishCompound(v)
  PROVE  Lexical!FinishCompound(v)
<1> DEFINE x == NodeName[Top.node]
           d == DefEnv(E, x)
           w == Combine[<<Top.left, v>>]
<1>1. /\ Top.mode = "stmt" /\ Write(cache[Top.node].ptr, w) /\ SetTop(Settled(Top)) /\ out' = Ok
      /\ UNCHANGED <<ptr, consts>>
  BY DEF FinishCompound, Settle
<1>2. /\ x \in Names /\ d \in Env /\ Lexical!Home(E, x) = d /\ Declared(d, x) /\ x \notin consts[d]
      /\ cache[Top.node].ptr = ptr[d][x]
  BY <1>1, PendingVar
<1>3. w \in Values
  BY TopOf DEF FrameType
<1>4. scopeBar' = [scopeBar EXCEPT ![d][x] = w]
  <2> HIDE DEF w
  <2> QED
    BY <1>1, <1>2, <1>3, WriteBar DEF RefInv
<1>5. Lexical!Top.env = E /\ Lexical!Top.pend = [name |-> x, left |-> Top.left]
  BY <1>1, StackBarIs, IdleTop DEF RefInv
<1>6. Lexical!Top.pend # Lexical!Idle
  BY <1>2, <1>5 DEF Lexical!Idle
<1>7. /\ Settled(Top).env = Top.env /\ Settled(Top).proc = Top.proc
      /\ FrameBar(Settled(Top)).pend = Lexical!Idle
  BY DEF FrameBar, Settled, Frame, Lexical!Idle
<1>8. stackBar' = [stackBar EXCEPT ![Lexical!Depth].pend = Lexical!Idle]
  BY <1>1, <1>7, TopOf, TopBar
<1>9. /\ Lexical!Top.pend.name = x /\ Combine[<<Lexical!Top.pend.left, v>>] = w
      /\ Lexical!Home(Lexical!Top.env, x) = d
  BY <1>2, <1>5
<1>10. out' = Ok /\ consts' = consts
  BY <1>1
<1> HIDE DEF x, d, w
<1> QED
  BY <1>2, <1>4, <1>6, <1>8, <1>9, <1>10 DEF Lexical!FinishCompound

LEMMA ContinueImplements ==
  ASSUME RefInv, ContinueLoop
  PROVE  Lexical!BeginCompound(NodeName[Top.node])
<1> DEFINE x == NodeName[Top.node]
           d == DefEnv(E, x)
           fr == [Top EXCEPT !.mode = "rhs", !.left = heap[Top.ptr]]
<1>1. Top.mode = "cond" /\ SetTop(fr) /\ out' = Ok /\ UNCHANGED <<ptr, heap, consts>>
  BY DEF ContinueLoop
<1>2. /\ x \in Names /\ d \in Env /\ Lexical!Home(E, x) = d /\ x \notin consts[d]
      /\ scopeBar[d][x] = heap[Top.ptr] /\ scopeBar[d][x] \in Values
      /\ scopeBar[d][x] # Undeclared
  BY <1>1, PendingVar
<1>3. /\ fr \in FrameType /\ fr.env = Top.env /\ fr.proc = Top.proc
      /\ FrameBar(fr).pend = [name |-> x, left |-> heap[Top.ptr]]
  BY <1>2, TopOf DEF FrameType, Modes, FrameBar
<1>4. stackBar' = [stackBar EXCEPT ![Lexical!Depth].pend = FrameBar(fr).pend]
  <2> HIDE DEF fr
  <2> QED
    BY <1>1, <1>3, TopOf, TopBar
<1>5. Lexical!Top.env = E /\ Lexical!Top.pend = Lexical!Idle
  BY <1>1, StackBarIs, IdleTop DEF RefInv
<1>6. scopeBar' = scopeBar
  BY <1>1, SameBar
<1> QED
  BY <1>1, <1>2, <1>3, <1>4, <1>5, <1>6 DEF Lexical!BeginCompound

LEMMA CombineImplements ==
  ASSUME RefInv, NEW v \in Values, CombineInLoop(v)
  PROVE  Lexical!FinishCompound(v)
<1> DEFINE x == NodeName[Top.node]
           d == DefEnv(E, x)
           w == Combine[<<Top.left, v>>]
           fr == [Top EXCEPT !.mode = "cond", !.left = Zero]
<1>1. /\ Top.mode = "rhs" /\ Write(Top.ptr, Combine[<<heap[Top.ptr], v>>]) /\ SetTop(fr) /\ out' = Ok
      /\ UNCHANGED <<ptr, consts>>
  BY DEF CombineInLoop
<1>2. /\ x \in Names /\ d \in Env /\ Lexical!Home(E, x) = d /\ Declared(d, x) /\ x \notin consts[d]
      /\ Top.ptr = ptr[d][x] /\ Top.left = heap[Top.ptr]
  BY <1>1, PendingVar
<1>3. w \in Values /\ Write(ptr[d][x], w)
  BY <1>1, <1>2, TopOf DEF FrameType
<1>4. scopeBar' = [scopeBar EXCEPT ![d][x] = w]
  <2> HIDE DEF w
  <2> QED
    BY <1>1, <1>2, <1>3, WriteBar DEF RefInv
<1>5. Lexical!Top.env = E /\ Lexical!Top.pend = [name |-> x, left |-> Top.left]
  BY <1>1, StackBarIs, IdleTop DEF RefInv
<1>6. Lexical!Top.pend # Lexical!Idle
  BY <1>2, <1>5 DEF Lexical!Idle
<1>7. /\ fr \in FrameType /\ fr.env = Top.env /\ fr.proc = Top.proc
      /\ FrameBar(fr).pend = Lexical!Idle
  BY TopOf DEF FrameType, Modes, FrameBar, Lexical!Idle
<1>8. stackBar' = [stackBar EXCEPT ![Lexical!Depth].pend = Lexical!Idle]
  <2> HIDE DEF fr
  <2> QED
    BY <1>1, <1>7, TopOf, TopBar
<1>9. /\ Lexical!Top.pend.name = x /\ Combine[<<Lexical!Top.pend.left, v>>] = w
      /\ Lexical!Home(Lexical!Top.env, x) = d
  BY <1>2, <1>5
<1>10. out' = Ok /\ consts' = consts
  BY <1>1
<1> HIDE DEF x, d, w
<1> QED
  BY <1>2, <1>4, <1>6, <1>8, <1>9, <1>10 DEF Lexical!FinishCompound

\* A declaration in the scope of the running activation or at the top level.
LEMMA DeclareImplements ==
  ASSUME RefInv, NEW e \in {E, Root}, NEW x \in Names, NEW v \in Values, NEW b \in BOOLEAN,
         Top.mode \notin {"stmt", "rhs"}, x \notin consts[e],
         PutInternal(e, x, v), out' = Ok, stackBar' = stackBar,
         consts' = [consts EXCEPT ![e] = IF b THEN @ \cup {x} ELSE @]
  PROVE  Lexical!Declare(e, x, v, b)
<1>1. e \in Env /\ TypeOK /\ Distinct
  BY TopOf DEF RefInv
<1>2. scopeBar' = [scopeBar EXCEPT ![e][x] = v]
  BY <1>1, PutBar
<1>3. Lexical!Top.env = E /\ Lexical!Top.pend = Lexical!Idle
  BY <1>1, StackBarIs, IdleTop
<1> QED
  BY <1>2, <1>3 DEF Lexical!Declare

\* A declaration that makes no constant.
LEMMA PlainDeclareImplements ==
  ASSUME RefInv, NEW e \in {E, Root}, NEW x \in Names, NEW v \in Values,
         Top.mode \notin {"stmt", "rhs"}, x \notin consts[e],
         PutInternal(e, x, v), out' = Ok, UNCHANGED <<consts, stack>>
  PROVE  Lexical!Declare(e, x, v, FALSE)
<1>1. consts \in [Env -> SUBSET Names]
  BY DEF RefInv, TypeOK
<1>2. consts' = [consts EXCEPT ![e] = IF FALSE THEN @ \cup {x} ELSE @]
  BY <1>1
<1>3. stackBar' = stackBar
  BY DEF stackBar, FrameBar, Depth
<1> QED
  BY <1>2, <1>3, DeclareImplements

\* Dim, Public, loop and Catch variables.
LEMMA VariableImplements ==
  ASSUME RefInv, "const_overwrite" \notin Features, NEW x \in Names, NEW v \in Values,
         Dim(x, v) \/ Public(x, v) \/ LoopVariable(x, v) \/ CatchVariable(x, v)
  PROVE  Lexical!Declare(E, x, v, FALSE) \/ Lexical!Declare(Root, x, v, FALSE)
<1>1. CASE Dim(x, v)
  <2>1. /\ Top.mode = "idle" /\ x \notin consts[E] /\ PutInternal(E, x, v)
        /\ out' = Ok /\ UNCHANGED <<consts, stack>>
    BY <1>1 DEF Dim, Define
  <2> QED
    BY <2>1, PlainDeclareImplements
<1>2. CASE Public(x, v)
  <2>1. /\ Top.mode = "idle" /\ x \notin consts[Root] /\ PutInternal(Root, x, v)
        /\ out' = Ok /\ UNCHANGED <<consts, stack>>
    BY <1>2 DEF Public, SetGlobal, MayOverwrite
  <2> QED
    BY <2>1, PlainDeclareImplements
<1>3. CASE LoopVariable(x, v) \/ CatchVariable(x, v)
  <2>1. /\ Top.mode \in {"idle", "cond"} /\ x \notin consts[E] /\ PutInternal(E, x, v)
        /\ out' = Ok /\ UNCHANGED <<consts, stack>>
    BY <1>3 DEF LoopVariable, CatchVariable, MayOverwrite
  <2> QED
    BY <2>1, PlainDeclareImplements
<1> QED
  BY <1>1, <1>2, <1>3

LEMMA DimArrayImplements ==
  ASSUME RefInv, "const_overwrite" \notin Features, NEW x \in Names, DimArray(x)
  PROVE  Lexical!Declare(E, x, Zero, FALSE)
<1>1. /\ Top.mode = "idle" /\ x \notin consts[E] /\ PutInternal(E, x, Zero)
      /\ out' = Ok /\ UNCHANGED <<consts, stack>>
  BY DEF DimArray, Define, MayOverwrite
<1> QED
  BY <1>1, PlainDeclareImplements

LEMMA ConstImplements ==
  ASSUME RefInv, NEW x \in Names, NEW v \in Values, Const(x, v)
  PROVE  Lexical!Declare(E, x, v, TRUE)
<1>1. /\ Top.mode = "idle" /\ x \notin consts[E] /\ PutInternal(E, x, v)
      /\ out' = Ok /\ consts' = [consts EXCEPT ![E] = IF TRUE THEN @ \cup {x} ELSE @]
  BY DEF Const, Define, MarkConst
<1>2. stackBar' = stackBar
  BY DEF Const, stackBar, FrameBar, Depth
<1> QED
  BY <1>1, <1>2, DeclareImplements

\* A constant is declared, so the rejected declaration names what it found.
LEMMA RejectDeclarationImplements ==
  ASSUME RefInv, NEW x \in Names, RejectDeclaration(x)
  PROVE  Lexical!RejectConst(x)
<1>1. Top.mode = "idle" /\ x \in consts[E] /\ out' = ConstError /\ UNCHANGED <<ptr, heap, consts, stack>>
  BY DEF RejectDeclaration
<1>2. E \in Env /\ Lexical!Home(E, x) = DefEnv(E, x)
  BY TopOf, HomeIs DEF RefInv
<1>3. DefEnv(E, x) = E
  BY <1>1, <1>2 DEF RefInv, Blank, DefEnv
<1>4. Lexical!Top.env = E /\ Lexical!Top.pend = Lexical!Idle
  BY <1>1, StackBarIs, IdleTop DEF RefInv
<1>5. scopeBar' = scopeBar /\ stackBar' = stackBar
  BY <1>1, SameBar DEF stackBar, FrameBar, Depth
<1> QED
  BY <1>1, <1>2, <1>3, <1>4, <1>5 DEF Lexical!RejectConst, Lexical!Reject

\* Parameters are declared in the new scope, which has no constants yet.
LEMMA BindImplements ==
  ASSUME RefInv, NEW x \in Names, NEW v \in Values, BindParam(x, v)
  PROVE  Lexical!Declare(E, x, v, FALSE)
<1> DEFINE fr == [Top EXCEPT !.mode =
        IF \A y \in Params[Top.proc] \ {x} : Declared(E, y) THEN "idle" ELSE "bind"]
<1>1. /\ Top.mode = "bind" /\ ~Declared(E, x) /\ PutInternal(E, x, v)
      /\ SetTop(fr) /\ out' = Ok /\ UNCHANGED consts
  BY DEF BindParam
<1>2. /\ fr \in FrameType /\ fr.env = Top.env /\ fr.proc = Top.proc
      /\ FrameBar(fr).pend = Lexical!Idle
  BY TopOf DEF FrameType, Modes, FrameBar, Lexical!Idle
<1>3. FrameBar(Top).pend = Lexical!Idle
  BY <1>1 DEF FrameBar, Lexical!Idle
<1>4. stackBar' = stackBar
  <2> HIDE DEF fr
  <2> QED
    BY <1>1, <1>2, <1>3, TopOf, TopBar
<1>5. E \in Env /\ x \notin consts[E]
  BY <1>1, TopOf DEF RefInv, Blank
<1>6. consts' = [consts EXCEPT ![E] = IF FALSE THEN @ \cup {x} ELSE @]
  BY <1>1 DEF RefInv, TypeOK
<1> HIDE DEF fr
<1> QED
  BY <1>1, <1>4, <1>5, <1>6, DeclareImplements

\* The Environment a call gets is empty, and no activation runs in it.
LEMMA CallImplements ==
  ASSUME RefInv, NEW p \in Procs, NEW e \in Env, Call(p, e)
  PROVE  Lexical!Call(p, e)
<1> DEFINE fr == [Frame(e, p) EXCEPT !.mode = IF Params[p] = {} THEN "idle" ELSE "bind"]
<1>1. /\ Fresh(e) /\ stack' = Append(stack, fr) /\ out' = Ok
      /\ UNCHANGED <<ptr, heap, consts>>
  BY DEF Call
<1>2. /\ fr \in FrameType /\ FrameBar(fr) = Lexical!Frame(e, p)
  BY DEF Frame, FrameType, Modes, FrameBar, Lexical!Frame, Lexical!Idle
<1> HIDE DEF fr
<1>3. /\ stack' \in Seq(FrameType) /\ Depth' = Depth + 1 /\ stack'[Depth + 1] = fr
      /\ \A i \in 1 .. Depth : stack'[i] = stack[i]
  BY <1>1, <1>2, PushType DEF RefInv
<1>4. /\ stackBar \in Seq(Bars) /\ Len(stackBar) = Depth /\ Lexical!Depth = Depth
      /\ \A i \in 1 .. Depth : stackBar[i] = FrameBar(stack[i])
      /\ Depth \in Nat
  BY StackBarIs, TopOf
<1>5. stackBar' = Append(stackBar, FrameBar(fr))
  <2> DEFINE b == Append(stackBar, FrameBar(fr))
  <2>1. /\ stackBar' \in Seq(Bars) /\ Len(stackBar') = Depth + 1
        /\ \A i \in 1 .. Depth + 1 : stackBar'[i] = FrameBar(stack'[i])
    BY <1>3, NextStackBar
  <2>2. FrameBar(fr) \in Bars
    BY <1>2 DEF Bars
  <2>3. /\ b \in Seq(Bars) /\ Len(b) = Depth + 1
        /\ \A i \in 1 .. Depth : b[i] = stackBar[i]
        /\ b[Depth + 1] = FrameBar(fr)
    BY <1>4, <2>2, AppendProperties
  <2> HIDE DEF b, Bars
  <2>4. \A i \in 1 .. Depth + 1 : i \in 1 .. Depth \/ i = Depth + 1
    BY <1>4
  <2>5. \A i \in 1 .. Len(b) : b[i] = stackBar'[i]
    BY <1>3, <1>4, <2>1, <2>3, <2>4
  <2>6. stackBar' = b
    BY <2>1, <2>3, <2>5, SeqEqual
  <2> QED
    BY <2>6 DEF b
<1>6. \A i \in 1 .. Lexical!Depth : stackBar[i].env # e
  <2>1. \A i \in 1 .. Depth : stack[i].env # e
    BY <1>1, RunningScope DEF RefInv
  <2> QED
    BY <1>4, <2>1 DEF FrameBar
<1>7. consts[e] = {} /\ \A x \in Names : ~Declared(e, x)
  BY <1>1 DEF RefInv, Blank
<1>8. scopeBar' = [scopeBar EXCEPT ![e] = [x \in Names |-> Undeclared]]
  <2>1. scopeBar' = scopeBar
    BY <1>1, SameBar
  <2>2. scopeBar[e] = [x \in Names |-> Undeclared]
    BY <1>7 DEF scopeBar, Value
  <2> QED
    BY <2>1, <2>2 DEF scopeBar
<1>9. consts' = [consts EXCEPT ![e] = {}]
  BY <1>1, <1>7 DEF RefInv, TypeOK
<1> QED
  BY <1>1, <1>2, <1>5, <1>6, <1>8, <1>9 DEF Lexical!Call

\* The calls below the running one, and what they stand for.
LEMMA CallerBar ==
  ASSUME TypeOK, Depth > 1
  PROVE  /\ SubSeq(stackBar, 1, Depth - 1) \in Seq(Bars)
         /\ Len(SubSeq(stackBar, 1, Depth - 1)) = Depth - 1
         /\ \A i \in 1 .. Depth - 1 : SubSeq(stackBar, 1, Depth - 1)[i] = FrameBar(stack[i])
<1>1. /\ Depth \in Nat /\ stackBar \in Seq(Bars) /\ Len(stackBar) = Depth
      /\ \A i \in 1 .. Depth : stackBar[i] = FrameBar(stack[i])
  BY StackBarIs, TopType
<1>2. \A i \in 1 .. Depth - 1 : i \in 1 .. Depth /\ stackBar[i] \in Bars
  BY <1>1, ElementOfSeq
<1> DEFINE t == SubSeq(stackBar, 1, Depth - 1)
<1>3. /\ t \in Seq(Bars)
      /\ Len(t) = IF 1 <= Depth - 1 THEN (Depth - 1) - 1 + 1 ELSE 0
      /\ \A i \in 1 .. (Depth - 1) - 1 + 1 : t[i] = stackBar[1 + i - 1]
  BY <1>1, <1>2, SubSeqProperties
<1> HIDE DEF t, Bars
<1>4. Len(t) = Depth - 1 /\ \A i \in 1 .. Depth - 1 : t[i] = stackBar[i]
  BY <1>1, <1>3
<1>5. \A i \in 1 .. Depth - 1 : t[i] = FrameBar(stack[i])
  BY <1>1, <1>2, <1>4
<1> QED
  BY <1>3, <1>4, <1>5 DEF t

LEMMA LeaveImplements ==
  ASSUME RefInv, NEW v \in Values, Leave(v)
  PROVE  Lexical!Leave(v)
<1> DEFINE t == SubSeq(stackBar, 1, Depth - 1)
<1>1. /\ Depth > 1 /\ stack' = SubSeq(stack, 1, Depth - 1) /\ out' = v
      /\ UNCHANGED <<ptr, heap, consts>> /\ TypeOK
  BY DEF Leave, RefInv
<1>2. /\ stack' \in Seq(FrameType) /\ Len(stack') = Depth - 1
      /\ \A i \in 1 .. Depth - 1 : stack'[i] = stack[i]
  BY <1>1, PopType
<1>3. /\ t \in Seq(Bars) /\ Len(t) = Depth - 1
      /\ \A i \in 1 .. Depth - 1 : t[i] = FrameBar(stack[i])
  BY <1>1, CallerBar
<1>4. /\ stackBar' \in Seq(Bars) /\ Len(stackBar') = Depth'
      /\ \A i \in 1 .. Depth' : stackBar'[i] = FrameBar(stack'[i])
  BY <1>2, NextStackBar
<1>5. Depth' = Depth - 1
  BY <1>2 DEF Depth
<1> HIDE DEF t, Bars
<1>6. \A i \in 1 .. Len(t) : t[i] = stackBar'[i]
  BY <1>2, <1>3, <1>4, <1>5
<1>7. stackBar' = t
  BY <1>3, <1>4, <1>5, <1>6, SeqEqual
<1>8. scopeBar' = scopeBar /\ Lexical!Depth = Depth
  BY <1>1, SameBar, StackBarIs
<1> QED
  BY <1>1, <1>7, <1>8 DEF Lexical!Leave, t

\* An error abandons what the caller was evaluating.
LEMMA LeaveWithErrorImplements ==
  ASSUME RefInv, LeaveWithError
  PROVE  Lexical!LeaveWithError
<1> DEFINE s  == SubSeq(stack, 1, Depth - 1)
           fr == IF s[Depth - 1].mode = "bind" THEN s[Depth - 1] ELSE Settled(s[Depth - 1])
           t  == SubSeq(stackBar, 1, Depth - 1)
           b  == [t EXCEPT ![Depth - 1].pend = Lexical!Idle]
<1>1. /\ Depth > 1 /\ stack' = [s EXCEPT ![Depth - 1] = fr] /\ out' = Ok
      /\ UNCHANGED <<ptr, heap, consts>> /\ TypeOK /\ Depth \in Nat /\ heap \in Seq(Values)
  BY TopOf DEF LeaveWithError, RefInv, TypeOK
<1>2. /\ s \in Seq(FrameType) /\ Len(s) = Depth - 1 /\ Depth - 1 \in 1 .. Len(s)
      /\ \A i \in 1 .. Depth - 1 : s[i] = stack[i]
  BY <1>1, PopType
<1>3. s[Depth - 1] \in FrameType
  BY <1>2, ElementOfSeq
<1>4. /\ fr \in FrameType /\ FrameBar(fr) = [FrameBar(s[Depth - 1]) EXCEPT !.pend = Lexical!Idle]
  <2> HIDE DEF s
  <2>1. CASE s[Depth - 1].mode = "bind"
    BY <1>3, <2>1 DEF FrameBar, Lexical!Idle
  <2>2. CASE s[Depth - 1].mode # "bind"
    <3>1. Settled(s[Depth - 1]) \in FrameType
      BY <1>1, <1>3, SettledType
    <3> QED
      BY <2>2, <3>1 DEF FrameBar, Settled, Frame, Lexical!Idle
  <2> QED
    BY <2>1, <2>2
<1> HIDE DEF s, fr
<1>5. /\ stack' \in Seq(FrameType) /\ Len(stack') = Depth - 1
      /\ \A i \in 1 .. Depth - 1 : stack'[i] = IF i = Depth - 1 THEN fr ELSE s[i]
  BY <1>1, <1>2, <1>4, ExceptSeq
<1>6. /\ t \in Seq(Bars) /\ Len(t) = Depth - 1
      /\ \A i \in 1 .. Depth - 1 : t[i] = FrameBar(s[i])
  BY <1>1, <1>2, CallerBar
<1> HIDE DEF t, Bars
<1>7. /\ stackBar' \in Seq(Bars) /\ Len(stackBar') = Depth - 1
      /\ \A i \in 1 .. Depth - 1 : stackBar'[i] = FrameBar(stack'[i])
  <2>1. Depth' = Depth - 1
    BY <1>5 DEF Depth
  <2> QED
    BY <1>5, <2>1, NextStackBar
<1>8. FrameBar(fr) \in Bars
  BY <1>4 DEF Bars
<1>9. b = [t EXCEPT ![Depth - 1] = FrameBar(fr)]
  BY <1>1, <1>2, <1>4, <1>6
<1> HIDE DEF b
<1>10. /\ b \in Seq(Bars) /\ Len(b) = Depth - 1
       /\ \A i \in 1 .. Depth - 1 : b[i] = IF i = Depth - 1 THEN FrameBar(fr) ELSE t[i]
  BY <1>2, <1>6, <1>8, <1>9, ExceptSeq
<1>11. \A i \in 1 .. Len(b) : b[i] = stackBar'[i]
  BY <1>5, <1>6, <1>7, <1>10
<1>12. stackBar' = b
  BY <1>7, <1>10, <1>11, SeqEqual
<1>13. scopeBar' = scopeBar /\ Lexical!Depth = Depth
  BY <1>1, SameBar, StackBarIs
<1> QED
  BY <1>1, <1>12, <1>13 DEF Lexical!LeaveWithError, b, t

\* Every step of the interpreter is a step of the language or none.
LEMMA StepImplements ==
  ASSUME Features = {}, RefInv, [Next]_vars
  PROVE  [Lexical!Next]_Lexical!vars
<1>1. "const_overwrite" \notin Features
  OBVIOUS
<1>2. ASSUME NEW n \in Nodes, Read(n)  PROVE Lexical!Next
  BY <1>2, ReadImplements DEF Lexical!Next
<1>3. ASSUME NEW n \in Nodes, NodeKind[n] # "Var", Top.mode = "idle", Rejected(n)
      PROVE  Lexical!Next
  BY <1>3, RejectedImplements DEF Lexical!Next
<1>4. ASSUME NEW n \in Nodes, BeginCompound(n)  PROVE Lexical!Next
  <2>1. CASE Accepted(n)
    BY <1>4, <2>1, BeginImplements DEF Lexical!Next
  <2>2. CASE ~Accepted(n)
    BY <1>3, <1>4, <2>2 DEF BeginCompound, Executes
  <2> QED
    BY <2>1, <2>2
<1>5. ASSUME NEW n \in Nodes, EnterLoop(n)  PROVE Lexical!Next
  <2>1. CASE Accepted(n)
    BY <1>5, <2>1, EnterImplements DEF Lexical!Next
  <2>2. CASE ~Accepted(n)
    BY <1>3, <1>5, <2>2 DEF EnterLoop, Executes
  <2> QED
    BY <2>1, <2>2
<1>6. ASSUME NEW n \in Nodes, NEW v \in Values, Assign(n, v)  PROVE Lexical!Next
  <2>1. CASE Accepted(n)
    BY <1>6, <2>1, AssignImplements DEF Lexical!Next
  <2>2. CASE ~Accepted(n)
    BY <1>3, <1>6, <2>2 DEF Assign, Executes
  <2> QED
    BY <2>1, <2>2
<1>7. ASSUME NEW v \in Values, FinishCompound(v) \/ CombineInLoop(v)  PROVE Lexical!Next
  BY <1>7, FinishImplements, CombineImplements DEF Lexical!Next
<1>8. ASSUME NEW v \in Values, Leave(v)  PROVE Lexical!Next
  BY <1>8, LeaveImplements DEF Lexical!Next
<1>9. CASE ContinueLoop
  <2>1. NodeName[Top.node] \in Names
    BY <1>9, PendingVar DEF ContinueLoop
  <2> QED
    BY <1>9, <2>1, ContinueImplements DEF Lexical!Next
<1>10. CASE Abandon
  BY <1>10, AbandonImplements DEF Lexical!Next
<1>11. ASSUME NEW x \in Names, RejectDeclaration(x)  PROVE Lexical!Next
  BY <1>11, RejectDeclarationImplements DEF Lexical!Next
<1>12. ASSUME NEW e \in {E, Root}, NEW x \in Names, NEW v \in Values, NEW b \in BOOLEAN,
              Lexical!Declare(e, x, v, b)
       PROVE  Lexical!Next
  <2>1. e \in Env
    BY TopOf
  <2> QED
    BY <1>12, <2>1 DEF Lexical!Next
<1>13. ASSUME NEW x \in Names, DimArray(x)  PROVE Lexical!Next
  BY <1>1, <1>12, <1>13, DimArrayImplements
<1>14. ASSUME NEW x \in Names, NEW v \in Values,
              Dim(x, v) \/ Public(x, v) \/ LoopVariable(x, v) \/ CatchVariable(x, v)
       PROVE  Lexical!Next
  BY <1>1, <1>12, <1>14, VariableImplements
<1>15. ASSUME NEW x \in Names, NEW v \in Values, Const(x, v)  PROVE Lexical!Next
  BY <1>12, <1>15, ConstImplements
<1>16. ASSUME NEW x \in Names, NEW v \in Values, BindParam(x, v)  PROVE Lexical!Next
  BY <1>12, <1>16, BindImplements
<1>17. ASSUME NEW p \in Procs, NEW e \in Env, Call(p, e)  PROVE Lexical!Next
  BY <1>17, CallImplements DEF Lexical!Next
<1>18. CASE LeaveWithError
  BY <1>18, LeaveWithErrorImplements DEF Lexical!Next
<1>19. CASE UNCHANGED vars
  BY <1>19, SameBar DEF vars, Lexical!vars, stackBar, FrameBar, Depth
<1> QED
  BY <1>2, <1>4, <1>5, <1>6, <1>7, <1>8, <1>9, <1>10, <1>11, <1>13, <1>14,
     <1>15, <1>16, <1>17, <1>18, <1>19 DEF Next

--------------------------------------------------------------------------------
(* What the correspondence rests on is preserved.                           *)

\* A new variable gets a pointer nobody has.
LEMMA DistinctStep ==
  ASSUME TypeOK, ScopeChain, Distinct, [Next]_vars
  PROVE  Distinct'
<1>1. ASSUME NEW e \in Env, NEW x \in Names, NEW v \in Values, PutInternal(e, x, v)
      PROVE  Distinct'
  <2>1. CASE UNCHANGED ptr
    BY <2>1 DEF Distinct, Declared
  <2>2. CASE ptr' = [ptr EXCEPT ![e][x] = Len(heap) + 1]
    <3>1. /\ ptr \in [Env -> [Names -> Nat]] /\ Len(heap) \in Nat
          /\ \A d \in Env, y \in Names : ptr[d][y] < Len(heap) + 1
      BY DEF TypeOK
    <3>2. \A d \in Env, y \in Names :
            ptr'[d][y] = IF d = e /\ y = x THEN Len(heap) + 1 ELSE ptr[d][y]
      BY <2>2, <3>1
    <3>3. \A d \in Env, y \in Names : ptr[d][y] # Len(heap) + 1
      BY <3>1
    <3> QED
      BY <3>2, <3>3 DEF Distinct, Declared
  <2> QED
    BY <1>1, <2>1, <2>2 DEF PutInternal
<1>2. CASE UNCHANGED ptr
  BY <1>2 DEF Distinct, Declared
<1>3. E \in Env /\ Root \in Env
  BY TopType
<1> QED
  BY <1>1, <1>2, <1>3, StepKinds DEF Uses, Declares, Calls, Returns

\* A declaration makes the name declared, and no other name undeclared.
LEMMA PutDeclares ==
  ASSUME TypeOK, NEW e \in Env, NEW x \in Names, NEW v \in Values, PutInternal(e, x, v)
  PROVE  /\ ptr'[e][x] # 0
         /\ \A d \in Env, y \in Names : d # e \/ y # x => ptr'[d][y] = ptr[d][y]
<1>1. ptr \in [Env -> [Names -> Nat]] /\ Len(heap) + 1 # 0
  BY DEF TypeOK
<1> QED
  BY <1>1 DEF PutInternal, Declared

LEMMA BlankStep ==
  ASSUME TypeOK, ScopeChain, Blank, [Next]_vars
  PROVE  Blank'
<1>1. E \in Env /\ Root \in Env /\ ~Fresh(E) /\ ~Fresh(Root)
  BY TopType, RunningIsNotFresh DEF Fresh
<1>2. CASE Uses \/ Returns
  BY <1>2 DEF Uses, Returns, Blank, Fresh, Declared
<1>3. CASE Declares
  <2>1. PICK e \in {E, Root}, x \in Names, v \in Values :
          /\ PutInternal(e, x, v)
          /\ UNCHANGED consts \/ MarkConst(e, x)
    BY <1>3 DEF Declares
  <2>2. /\ e \in Env /\ ~Fresh(e) /\ parent' = parent
        /\ ptr'[e][x] # 0
        /\ \A d \in Env, y \in Names : d # e \/ y # x => ptr'[d][y] = ptr[d][y]
    BY <1>1, <1>3, <2>1, PutDeclares DEF Declares
  <2>3. ASSUME NEW d \in Env  PROVE consts'[d] = consts[d] \/ (d = e /\ consts'[d] = consts[d] \cup {x})
    BY <2>1, <2>2 DEF MarkConst, TypeOK
  <2>4. \A d \in Env : consts'[d] \subseteq Names /\ consts[d] \subseteq Names
    <3>1. consts \in [Env -> SUBSET Names] /\ x \in Names
      BY DEF TypeOK
    <3> QED
      BY <2>3, <3>1
  <2>5. ASSUME NEW d \in Env, d # Root /\ parent'[d] = NoEnv
        PROVE  consts'[d] = {} /\ \A y \in Names : ptr'[d][y] = 0
    <3>1. Fresh(d) /\ d # e
      BY <2>2, <2>5 DEF Fresh
    <3> QED
      BY <2>2, <2>3, <3>1 DEF Blank, Declared
  <2>6. ASSUME NEW d \in Env, NEW y \in consts'[d]  PROVE ptr'[d][y] # 0
    <3>1. y \in Names
      BY <2>4
    <3>2. CASE d = e /\ y = x
      BY <2>2, <3>2
    <3>3. CASE ~(d = e /\ y = x)
      <4>1. y \in consts[d]
        BY <2>3, <3>3
      <4>2. ptr[d][y] # 0
        BY <4>1 DEF Blank, Declared
      <4> QED
        BY <2>2, <3>1, <3>3, <4>2
    <3> QED
      BY <3>2, <3>3
  <2> QED
    BY <2>5, <2>6 DEF Blank, Fresh, Declared
<1>4. CASE Calls
  <2>1. PICK e \in Env : Fresh(e) /\ parent' = [parent EXCEPT ![e] = Root]
    BY <1>4 DEF Calls
  <2>2. parent \in [Env -> Env \cup {NoEnv}] /\ Root # NoEnv
    BY DEF TypeOK
  <2>3. \A d \in Env : d # Root /\ parent'[d] = NoEnv => Fresh(d)
    BY <2>1, <2>2 DEF Fresh
  <2> QED
    BY <1>4, <2>3 DEF Calls, Blank, Fresh, Declared
<1> QED
  BY <1>2, <1>3, <1>4, StepKinds

LEMMA OwnScopesStep ==
  ASSUME TypeOK, ScopeChain, OwnScopes, [Next]_vars
  PROVE  OwnScopes'
<1>1. Depth \in Nat /\ \A i \in 1 .. Depth : ~Fresh(stack[i].env)
  BY TopType, RunningScope
<1>2. CASE Uses \/ Declares
  BY <1>2 DEF Uses, Declares, SameActivations, OwnScopes
<1>3. CASE Calls
  <2>1. PICK e \in Env : Fresh(e) /\ stack'[Depth + 1].env = e
    BY <1>3 DEF Calls
  <2>2. /\ Depth' = Depth + 1
        /\ \A i \in 1 .. Depth : stack'[i].env = stack[i].env /\ stack'[i].env # e
    BY <1>1, <1>3, <2>1 DEF Calls
  <2>3. \A i \in 1 .. Depth + 1 : i \in 1 .. Depth \/ i = Depth + 1
    BY <1>1
  <2>4. \A i, j \in 1 .. Depth + 1 : stack'[i].env = stack'[j].env => i = j
    BY <2>1, <2>2, <2>3 DEF OwnScopes
  <2> QED
    BY <2>2, <2>4 DEF OwnScopes
<1>4. CASE Returns
  <2>1. \A i \in 1 .. Depth - 1 : i \in 1 .. Depth
    BY <1>1
  <2> QED
    BY <1>4, <2>1 DEF Returns, OwnScopes
<1> QED
  BY <1>2, <1>3, <1>4, StepKinds

\* An activation stays in the middle of its assignment when nothing it relies on
\* changes: declarations in other scopes, or of other names, do not count.
LEMMA StillPending ==
  ASSUME TypeOK, ScopeChain, NEW fr \in FrameType, Resumable(fr), Pending(fr),
         fr.env = Root \/ parent[fr.env] = Root,
         parent'[fr.env] = parent[fr.env], parent'[Root] = parent[Root],
         NEW d \in Env, NEW z \in Names,
         \A e \in Env, y \in Names : e # d \/ y # z \/ ptr[d][z] # 0 => ptr'[e][y] = ptr[e][y],
         ptr[d][z] # 0 \/ d = Root \/ d # fr.env,
         \A e \in Env : \A y \in consts'[e] :
            y \in consts[e] \/ (e = d /\ e # Root /\ e # fr.env),
         fr.mode = "stmt" => cache'[fr.node].env = cache[fr.node].env,
         fr.mode = "rhs" => heap'[fr.ptr] = heap[fr.ptr]
  PROVE  PendingIn(fr, parent', ptr', heap', consts', cache')
<1> SUFFICES ASSUME fr.mode \in {"stmt", "cond", "rhs"}
             PROVE  PendingIn(fr, parent', ptr', heap', consts', cache')
  BY DEF PendingIn
<1> DEFINE x == NodeName[fr.node]
           h == HomeIn(parent, ptr, fr.env, x)
<1>1. x \in Names /\ fr.env \in Env /\ Root \in Env /\ Root # NoEnv /\ parent[Root] = NoEnv
  BY DEF Resumable, FrameType, ScopeChain
<1>2. /\ ptr[h][x] # 0 /\ x \notin consts[h]
      /\ fr.mode = "stmt" => NodeKind[fr.node] = "Compound" /\ cache[fr.node].env = fr.env
      /\ fr.mode # "stmt" => fr.ptr = ptr[h][x]
      /\ fr.mode = "rhs" => fr.left = heap[fr.ptr]
  BY DEF Pending, PendingIn
<1>3. h \in {fr.env, Root}
  BY <1>1 DEF HomeIn
<1>4. ptr'[h][x] = ptr[h][x]
  BY <1>1, <1>2, <1>3
<1>5. HomeIn(parent', ptr', fr.env, x) = h
  <2>1. CASE ptr[fr.env][x] # 0
    <3>1. h = fr.env
      BY <2>1 DEF HomeIn
    <3> QED
      BY <1>2, <1>4, <3>1 DEF HomeIn
  <2>2. CASE ptr[fr.env][x] = 0
    <3>1. fr.env # Root /\ h = Root
      BY <1>1, <1>2, <2>2 DEF HomeIn
    <3>2. fr.env # d \/ x # z \/ ptr[d][z] # 0
      BY <2>2, <3>1
    <3>3. ptr'[fr.env][x] = 0
      BY <1>1, <2>2, <3>2
    <3> QED
      BY <1>1, <3>1, <3>3 DEF HomeIn
  <2> QED
    BY <2>1, <2>2
<1>6. x \notin consts'[h]
  BY <1>1, <1>2, <1>3
<1> HIDE DEF h, x
<1>7. \A k : k = h =>
        (/\ ptr'[k][x] # 0 /\ x \notin consts'[k]
         /\ fr.mode = "stmt" => NodeKind[fr.node] = "Compound" /\ cache'[fr.node].env = fr.env
         /\ fr.mode # "stmt" => fr.ptr = ptr'[k][x]
         /\ fr.mode = "rhs" => fr.left = heap'[fr.ptr])
  BY <1>2, <1>4, <1>6
<1> QED
  BY <1>5, <1>7 DEF PendingIn, x

\* What a step may do to the heap: nothing, allocate a cell or write one that no
\* loop below has as its left operand.
LEMMA HeapSteps ==
  ASSUME Features = {}, TypeOK, [Next]_vars
  PROVE  \/ UNCHANGED heap
         \/ \E v \in Values : heap' = Append(heap, v)
         \/ \E p, v : ~BeingCombined(p) /\ heap' = [heap EXCEPT ![p] = v]
<1> DEFINE Goal == \/ UNCHANGED heap
                   \/ \E v \in Values : heap' = Append(heap, v)
                   \/ \E p, v : ~BeingCombined(p) /\ heap' = [heap EXCEPT ![p] = v]
<1>1. ASSUME NEW p, NEW v, Write(p, v)  PROVE Goal
  BY <1>1 DEF Write
<1>2. ASSUME NEW e, NEW x, NEW v \in Values, PutInternal(e, x, v)  PROVE Goal
  <2>1. CASE Write(ptr[e][x], v)
    BY <1>1, <2>1
  <2> QED
    BY <1>2, <2>1 DEF PutInternal
<1> HIDE DEF Goal
<1>3. ASSUME UNCHANGED heap  PROVE Goal
  BY <1>3 DEF Goal
<1>4. ASSUME NEW n \in Nodes, Read(n) \/ BeginCompound(n) \/ EnterLoop(n)  PROVE Goal
  BY <1>3, <1>4 DEF Read, BeginCompound, EnterLoop, Rejected
<1>5. ASSUME NEW n \in Nodes, NEW v \in Values, Assign(n, v)  PROVE Goal
  BY <1>1, <1>3, <1>5 DEF Assign, Rejected
<1>6. ASSUME NEW v \in Values, FinishCompound(v) \/ CombineInLoop(v) \/ Leave(v)  PROVE Goal
  BY <1>1, <1>3, <1>6 DEF FinishCompound, CombineInLoop, Leave
<1>7. ASSUME ContinueLoop \/ Abandon \/ LeaveWithError \/ UNCHANGED vars  PROVE Goal
  BY <1>3, <1>7 DEF ContinueLoop, Abandon, LeaveWithError, vars
<1>8. ASSUME NEW x \in Names, RejectDeclaration(x) \/ DimArray(x)  PROVE Goal
  BY <1>2, <1>3, <1>8 DEF RejectDeclaration, DimArray, Define
<1>9. ASSUME NEW x \in Names, NEW v \in Values,
             \/ Dim(x, v) \/ Const(x, v) \/ Public(x, v)
             \/ LoopVariable(x, v) \/ CatchVariable(x, v) \/ BindParam(x, v)
      PROVE  Goal
  BY <1>2, <1>9 DEF Dim, Const, Public, LoopVariable, CatchVariable, BindParam, Define, SetGlobal
<1>10. ASSUME NEW p \in Procs, NEW e \in Env, Call(p, e)  PROVE Goal
  BY <1>3, <1>10 DEF Call
<1>11. Goal
  BY <1>4, <1>5, <1>6, <1>7, <1>8, <1>9, <1>10 DEF Next
<1> QED
  BY <1>11 DEF Goal

\* No step moves the cache of a compound assignment that waits below.
LEMMA CacheOfPending ==
  ASSUME Features = {}, TypeOK, [Next]_vars, NEW i \in 1 .. Depth - 1,
         stack[i].mode = "stmt", stack[i].node \in Nodes,
         NodeKind[stack[i].node] = "Compound"
  PROVE  cache'[stack[i].node] = cache[stack[i].node]
<1> DEFINE m == stack[i].node
           Goal == cache'[m] = cache[m]
<1>1. cache \in [Nodes -> CacheType] /\ "recursive_compound" \notin Features
  BY DEF TypeOK
<1>2. ASSUME NEW n \in Nodes, n # m, Remember(n)  PROVE Goal
  BY <1>1, <1>2 DEF Remember
<1>3. ASSUME UNCHANGED cache  PROVE Goal
  BY <1>3
<1>4. ASSUME NEW n \in Nodes, NodeKind[n] # "Compound" \/ MayCompound(n),
             Remember(n) \/ Rejected(n)
      PROVE  Goal
  <2>1. n # m
    BY <1>1, <1>4 DEF MayCompound
  <2> HIDE DEF Goal, m
  <2> QED
    BY <1>2, <1>3, <1>4, <2>1 DEF Rejected
<1> HIDE DEF Goal
<1>5. ASSUME NEW n \in Nodes, Read(n)  PROVE Goal
  <2>1. NodeKind[n] # "Compound" /\ (Remember(n) \/ UNCHANGED cache)
    BY <1>5 DEF Read, Executes
  <2> QED
    BY <1>3, <1>4, <2>1
<1>6. ASSUME NEW n \in Nodes, BeginCompound(n)  PROVE Goal
  BY <1>4, <1>6 DEF BeginCompound
<1>7. ASSUME NEW n \in Nodes, EnterLoop(n)  PROVE Goal
  <2>1. NodeKind[n] # "Compound" /\ (Remember(n) \/ Rejected(n))
    BY <1>7 DEF EnterLoop, Executes
  <2> QED
    BY <1>4, <2>1
<1>8. ASSUME NEW n \in Nodes, NEW v \in Values, Assign(n, v)  PROVE Goal
  <2>1. NodeKind[n] # "Compound" /\ (Remember(n) \/ Rejected(n))
    BY <1>8 DEF Assign, Executes
  <2> QED
    BY <1>4, <2>1
<1>9. ASSUME NEW v \in Values, FinishCompound(v) \/ CombineInLoop(v) \/ Leave(v)  PROVE Goal
  BY <1>3, <1>9 DEF FinishCompound, CombineInLoop, Leave
<1>10. ASSUME ContinueLoop \/ Abandon \/ LeaveWithError \/ UNCHANGED vars  PROVE Goal
  BY <1>3, <1>10 DEF ContinueLoop, Abandon, LeaveWithError, vars
<1>11. ASSUME NEW x \in Names, RejectDeclaration(x) \/ DimArray(x)  PROVE Goal
  BY <1>3, <1>11 DEF RejectDeclaration, DimArray
<1>12. ASSUME NEW x \in Names, NEW v \in Values,
              \/ Dim(x, v) \/ Const(x, v) \/ Public(x, v)
              \/ LoopVariable(x, v) \/ CatchVariable(x, v) \/ BindParam(x, v)
       PROVE  Goal
  BY <1>3, <1>12 DEF Dim, Const, Public, LoopVariable, CatchVariable, BindParam
<1>13. ASSUME NEW p \in Procs, NEW e \in Env, Call(p, e)  PROVE Goal
  BY <1>3, <1>13 DEF Call
<1>14. Goal
  BY <1>5, <1>6, <1>7, <1>8, <1>9, <1>10, <1>11, <1>12, <1>13 DEF Next
<1> QED
  BY <1>14 DEF Goal

\* Whatever the running activation does, those below it find their assignments
\* as they left them.
LEMMA BelowPending ==
  ASSUME Features = {}, RefInv, [Next]_vars, NEW i \in 1 .. Depth - 1
  PROVE  PendingIn(stack[i], parent', ptr', heap', consts', cache')
<1> DEFINE fr == stack[i]
<1>1. /\ i \in 1 .. Depth /\ i # Depth /\ Depth # 1 /\ Depth \in 1 .. Depth
      /\ TypeOK /\ ScopeChain /\ Root \in Env
  BY TopOf DEF RefInv
<1>2. /\ fr \in FrameType /\ Resumable(fr) /\ Pending(fr) /\ fr.env \in Env
      /\ fr.env = Root \/ parent[fr.env] = Root
      /\ ~Fresh(fr.env)
  BY <1>1, RunningScope DEF RefInv, TypeOK
<1>3. E # Root /\ E # fr.env /\ E \in Env
  <2>1. stack[Depth].env = E /\ E \in Env
    BY TopOf DEF Top
  <2> QED
    BY <1>1, <2>1, RunningIsNotFresh DEF RefInv, OwnScopes
<1>4. fr.mode = "stmt" => cache'[fr.node].env = cache[fr.node].env
  <2>1. SUFFICES ASSUME fr.mode = "stmt"  PROVE cache'[fr.node] = cache[fr.node]
    OBVIOUS
  <2>2. fr.node \in Nodes /\ NodeKind[fr.node] = "Compound"
    BY <1>2, <2>1 DEF Resumable, Pending, PendingIn
  <2> QED
    BY <1>1, <2>1, <2>2, CacheOfPending
<1>5. fr.mode = "rhs" => heap'[fr.ptr] = heap[fr.ptr]
  <2>1. SUFFICES ASSUME fr.mode = "rhs"  PROVE heap'[fr.ptr] = heap[fr.ptr]
    OBVIOUS
  <2>2. fr.ptr \in 1 .. Len(heap) /\ heap \in Seq(Values)
    BY <1>1, <1>2, <2>1 DEF Resumable, FrameType, TypeOK
  <2>3. BeingCombined(fr.ptr)
    BY <2>1 DEF BeingCombined
  <2>4. ASSUME NEW v \in Values, heap' = Append(heap, v)  PROVE heap'[fr.ptr] = heap[fr.ptr]
    BY <2>2, <2>4, AppendProperties
  <2>5. ASSUME NEW p, NEW v, ~BeingCombined(p), heap' = [heap EXCEPT ![p] = v]
        PROVE  heap'[fr.ptr] = heap[fr.ptr]
    <3>1. p # fr.ptr
      BY <2>3, <2>5
    <3> HIDE DEF fr
    <3> QED
      BY <2>2, <2>5, <3>1
  <2> HIDE DEF fr
  <2> QED
    BY <1>1, <2>4, <2>5, HeapSteps
<1> SUFFICES ASSUME fr.mode \in {"stmt", "cond", "rhs"}
             PROVE  PendingIn(fr, parent', ptr', heap', consts', cache')
  BY DEF PendingIn
<1>6. NodeName[fr.node] \in Names
  BY <1>2 DEF Resumable
<1> HIDE DEF fr
<1>7. ASSUME UNCHANGED <<ptr, consts>>,
             parent'[fr.env] = parent[fr.env], parent'[Root] = parent[Root]
      PROVE  PendingIn(fr, parent', ptr', heap', consts', cache')
  BY <1>1, <1>2, <1>4, <1>5, <1>6, <1>7, StillPending
<1>8. CASE Uses \/ Returns
  BY <1>7, <1>8 DEF Uses, Returns
<1>9. CASE Calls
  <2>1. PICK e \in Env : Fresh(e) /\ parent' = [parent EXCEPT ![e] = Root]
    BY <1>9 DEF Calls
  <2>2. e # fr.env /\ e # Root
    BY <1>2, <2>1 DEF Fresh
  <2>3. parent'[fr.env] = parent[fr.env] /\ parent'[Root] = parent[Root]
    BY <1>1, <1>2, <2>1, <2>2 DEF TypeOK
  <2> QED
    BY <1>7, <1>9, <2>3 DEF Calls
<1>10. CASE Declares
  <2>1. PICK d \in {E, Root}, x \in Names, v \in Values :
          /\ PutInternal(d, x, v)
          /\ UNCHANGED consts \/ (d = E /\ MarkConst(E, x))
    BY <1>10 DEF Declares
  <2>2. /\ d \in Env
        /\ d = Root \/ d # fr.env
        /\ parent'[fr.env] = parent[fr.env] /\ parent'[Root] = parent[Root]
    BY <1>1, <1>3, <1>10, <2>1 DEF Declares
  <2>3. \A e \in Env, y \in Names : e # d \/ y # x \/ ptr[d][x] # 0 => ptr'[e][y] = ptr[e][y]
    <3>1. CASE UNCHANGED ptr
      BY <3>1
    <3>2. CASE ~Declared(d, x)
      <4>1. ptr[d][x] = 0
        BY <3>2 DEF Declared
      <4>2. \A e \in Env, y \in Names : e # d \/ y # x => ptr'[e][y] = ptr[e][y]
        BY <1>1, <2>1, <2>2, PutDeclares
      <4> QED
        BY <4>1, <4>2
    <3> QED
      BY <2>1, <3>1, <3>2 DEF PutInternal
  <2>4. \A e \in Env : \A y \in consts'[e] :
          y \in consts[e] \/ (e = d /\ e # Root /\ e # fr.env)
    <3>1. CASE UNCHANGED consts
      BY <3>1
    <3>2. CASE d = E /\ MarkConst(E, x)
      <4>1. consts \in [Env -> SUBSET Names]
        BY <1>1 DEF TypeOK
      <4>2. \A e \in Env : e # E => consts'[e] = consts[e]
        BY <3>2, <4>1 DEF MarkConst
      <4> QED
        BY <1>3, <3>2, <4>2
    <3> QED
      BY <2>1, <3>1, <3>2
  <2> QED
    BY <1>1, <1>2, <1>4, <1>5, <2>1, <2>2, <2>3, <2>4, StillPending
<1> QED
  BY <1>1, <1>8, <1>9, <1>10, StepKinds

\* The running activation goes on with its own assignment, or has none.
LEMMA SameTopPending ==
  ASSUME RefInv, UNCHANGED <<parent, ptr, consts>>,
         Top.mode = "stmt" => cache'[Top.node].env = cache[Top.node].env,
         Top.mode = "rhs" => heap'[Top.ptr] = heap[Top.ptr]
  PROVE  PendingIn(Top, parent', ptr', heap', consts', cache')
<1> SUFFICES ASSUME Top.mode \in {"stmt", "cond", "rhs"}
             PROVE  PendingIn(Top, parent', ptr', heap', consts', cache')
  BY DEF PendingIn
<1>1. /\ Top \in FrameType /\ Resumable(Top) /\ Pending(Top) /\ TypeOK /\ ScopeChain
      /\ Top.env = Root \/ parent[Top.env] = Root
      /\ NodeName[Top.node] \in Names /\ Root \in Env
  BY TopOf DEF RefInv, Resumable
<1> QED
  BY <1>1, StillPending

\* An activation outside a compound assignment has nothing to keep.
LEMMA NotPending ==
  ASSUME NEW fr, fr.mode \notin {"stmt", "cond", "rhs"}
  PROVE  PendingIn(fr, parent', ptr', heap', consts', cache')
BY DEF PendingIn

\* What an accepted assignment stores for the time of its right-hand side.
LEMMA FoundIsPending ==
  ASSUME RefInv, NEW n \in Nodes, NodeKind[n] # "Var", Accepted(n),
         UNCHANGED <<parent, ptr, consts>>, Remember(n),
         NEW fr \in FrameType, fr.env = E, fr.node = n,
         \/ fr.mode = "stmt" /\ NodeKind[n] = "Compound"
         \/ fr.mode = "cond" /\ fr.ptr = Current(n).ptr
  PROVE  PendingIn(fr, parent', ptr', heap', consts', cache')
<1> DEFINE x == NodeName[n]
           d == DefEnv(E, x)
<1>1. /\ x \in Names /\ d \in Env /\ Current(n).ptr = ptr[d][x]
      /\ Declared(d, x) /\ x \notin consts[d]
  BY AcceptedIs
<1>2. HomeIn(parent', ptr', E, x) = d /\ ptr'[d][x] # 0
  BY <1>1 DEF HomeIn, DefEnv, Declared
<1>3. cache'[n] = Current(n) /\ Current(n).env = E
  BY CurrentIsFresh DEF RefInv, TypeOK, Remember
<1> HIDE DEF d
<1> QED
  BY <1>1, <1>2, <1>3 DEF PendingIn

AllPending(s, d, par, p, h, k, c) == \A i \in 1 .. d : PendingIn(s[i], par, p, h, k, c)

\* A step of the running activation alone.
LEMMA AllPendingTop ==
  ASSUME Features = {}, RefInv, [Next]_vars,
         NEW fr \in FrameType, SetTop(fr) \/ (UNCHANGED stack /\ fr = Top),
         PendingIn(fr, parent', ptr', heap', consts', cache')
  PROVE  AllPending(stack', Depth', parent', ptr', heap', consts', cache')
<1>1. Depth \in Nat /\ Top = stack[Depth] /\ TypeOK
  BY TopOf DEF Top
<1>2. Depth' = Depth /\ \A i \in 1 .. Depth : stack'[i] = IF i = Depth THEN fr ELSE stack[i]
  <2>1. CASE SetTop(fr)
    BY <1>1, <2>1, SetTopType
  <2>2. CASE UNCHANGED stack /\ fr = Top
    BY <1>1, <2>2 DEF Depth
  <2> QED
    BY <2>1, <2>2
<1>3. ASSUME NEW i \in 1 .. Depth, i # Depth
      PROVE  PendingIn(stack[i], parent', ptr', heap', consts', cache')
  <2>1. i \in 1 .. Depth - 1
    BY <1>1, <1>3
  <2> QED
    BY <2>1, BelowPending
<1> QED
  BY <1>2, <1>3 DEF AllPending

\* Every activation that waits in the middle of an assignment stays able to
\* finish it as if its variable had just been looked up.
LEMMA PendingStep ==
  ASSUME Features = {}, RefInv, [Next]_vars
  PROVE  AllPending(stack', Depth', parent', ptr', heap', consts', cache')
<1> DEFINE Goal == AllPending(stack', Depth', parent', ptr', heap', consts', cache')
           Fine(fr) == PendingIn(fr, parent', ptr', heap', consts', cache')
<1>1. Top \in FrameType /\ TypeOK /\ Settled(Top) \in FrameType /\ E = Top.env
  BY TopOf
<1>2. ASSUME NEW fr \in FrameType, SetTop(fr), Fine(fr)  PROVE Goal
  BY <1>2, AllPendingTop
<1>3. ASSUME UNCHANGED stack, Fine(Top)  PROVE Goal
  BY <1>1, <1>3, AllPendingTop
<1>4. ASSUME NEW fr, fr.mode \notin {"stmt", "cond", "rhs"}  PROVE Fine(fr)
  BY <1>4, NotPending
<1>5. ASSUME UNCHANGED <<parent, ptr, consts>>,
             Top.mode = "stmt" => cache'[Top.node].env = cache[Top.node].env,
             Top.mode = "rhs" => heap'[Top.ptr] = heap[Top.ptr]
      PROVE  Fine(Top)
  BY <1>5, SameTopPending
<1>6. ASSUME NEW n \in Nodes, NodeKind[n] # "Var", Accepted(n),
             UNCHANGED <<parent, ptr, consts>>, Remember(n),
             NEW fr \in FrameType, fr.env = E, fr.node = n,
             \/ fr.mode = "stmt" /\ NodeKind[n] = "Compound"
             \/ fr.mode = "cond" /\ fr.ptr = Current(n).ptr
      PROVE  Fine(fr)
  BY <1>6, FoundIsPending
<1> HIDE DEF Goal, Fine
<1>7. ASSUME UNCHANGED stack, Top.mode \in {"idle", "bind"}  PROVE Goal
  BY <1>3, <1>4, <1>7
<1>8. ASSUME NEW fr \in FrameType, SetTop(fr), fr.mode \in {"idle", "bind"}  PROVE Goal
  BY <1>2, <1>4, <1>8
<1>9. Settled(Top).mode = "idle"
  BY DEF Settled, Frame
<1>10. ASSUME NEW n \in Nodes, Read(n)  PROVE Goal
  <2>1. UNCHANGED <<parent, ptr, heap, consts, stack>>
    BY <1>10 DEF Read
  <2>2. ASSUME Top.mode = "stmt"  PROVE cache'[Top.node].env = cache[Top.node].env
    <3>1. NodeKind[Top.node] = "Compound" /\ NodeKind[n] = "Var"
      BY <1>10, <2>2, TopOf DEF Read, Executes, Pending, PendingIn
    <3>2. Top.node # n /\ (Remember(n) \/ UNCHANGED cache)
      BY <1>10, <3>1 DEF Read
    <3>3. Top.node \in Nodes /\ cache \in [Nodes -> CacheType]
      BY <1>1, <2>2, TopOf DEF Resumable, TypeOK
    <3> QED
      BY <3>2, <3>3 DEF Remember
  <2> QED
    BY <1>3, <1>5, <2>1, <2>2
<1>11. ASSUME NEW n \in Nodes, Top.mode = "idle", Rejected(n)  PROVE Goal
  BY <1>7, <1>11 DEF Rejected
<1>12. ASSUME NEW n \in Nodes, BeginCompound(n)  PROVE Goal
  <2>1. CASE Rejected(n)
    BY <1>11, <1>12, <2>1 DEF BeginCompound
  <2>2. CASE ~Rejected(n)
    <3> DEFINE fr == [Top EXCEPT !.mode = "stmt", !.node = n, !.left = heap[Current(n).ptr]]
    <3>1. /\ SetTop(fr) /\ Remember(n) /\ Accepted(n) /\ NodeKind[n] = "Compound"
          /\ UNCHANGED <<parent, ptr, consts>>
      BY <1>12, <2>2 DEF BeginCompound, Executes
    <3>2. heap[Current(n).ptr] \in Values
      BY <3>1, AcceptedIs
    <3>3. fr \in FrameType /\ fr.env = E /\ fr.node = n /\ fr.mode = "stmt"
      BY <1>1, <3>2 DEF FrameType, Modes
    <3> HIDE DEF fr
    <3>4. Fine(fr)
      BY <1>6, <3>1, <3>3
    <3> QED
      BY <1>2, <3>1, <3>3, <3>4
  <2> QED
    BY <2>1, <2>2
<1>13. ASSUME NEW n \in Nodes, EnterLoop(n)  PROVE Goal
  <2>1. CASE Rejected(n)
    BY <1>11, <1>13, <2>1 DEF EnterLoop
  <2>2. CASE ~Rejected(n)
    <3> DEFINE fr == [Top EXCEPT !.mode = "cond", !.node = n, !.ptr = Current(n).ptr]
    <3>1. /\ SetTop(fr) /\ Remember(n) /\ Accepted(n) /\ NodeKind[n] = "Loop"
          /\ UNCHANGED <<parent, ptr, consts>>
      BY <1>13, <2>2 DEF EnterLoop, Executes
    <3>2. Current(n).ptr \in Nat
      BY <1>1, CurrentType DEF CacheType
    <3>3. fr \in FrameType /\ fr.env = E /\ fr.node = n /\ fr.mode = "cond" /\ fr.ptr = Current(n).ptr
      BY <1>1, <3>2 DEF FrameType, Modes
    <3> HIDE DEF fr
    <3>4. Fine(fr)
      BY <1>6, <3>1, <3>3
    <3> QED
      BY <1>2, <3>1, <3>3, <3>4
  <2> QED
    BY <2>1, <2>2
<1>14. ASSUME NEW n \in Nodes, NEW v \in Values, Assign(n, v)  PROVE Goal
  BY <1>7, <1>14 DEF Assign, Rejected
<1>15. ASSUME NEW v \in Values, FinishCompound(v)  PROVE Goal
  BY <1>1, <1>8, <1>9, <1>15 DEF FinishCompound, Settle
<1>16. ASSUME Abandon  PROVE Goal
  BY <1>1, <1>8, <1>9, <1>16 DEF Abandon, Settle
<1>17. ASSUME ContinueLoop  PROVE Goal
  <2> DEFINE fr == [Top EXCEPT !.mode = "rhs", !.left = heap[Top.ptr]]
  <2>1. Top.mode = "cond" /\ SetTop(fr) /\ UNCHANGED <<parent, ptr, heap, consts, cache>>
    BY <1>17 DEF ContinueLoop
  <2>2. Fine(Top)
    BY <1>5, <2>1
  <2>3. heap[Top.ptr] \in Values
    BY <2>1, PendingVar
  <2>4. fr \in FrameType
    BY <1>1, <2>3 DEF FrameType, Modes
  <2>5. /\ fr.mode = "rhs" /\ fr.left = heap'[fr.ptr] /\ fr.env = Top.env
        /\ fr.node = Top.node /\ fr.ptr = Top.ptr
    BY <1>1, <2>1 DEF FrameType
  <2> HIDE DEF fr
  <2>6. Fine(fr)
    BY <2>1, <2>2, <2>5 DEF Fine, PendingIn
  <2> QED
    BY <1>2, <2>1, <2>4, <2>6
<1>18. ASSUME NEW v \in Values, CombineInLoop(v)  PROVE Goal
  <2> DEFINE fr == [Top EXCEPT !.mode = "cond", !.left = Zero]
  <2>1. Top.mode = "rhs" /\ SetTop(fr) /\ UNCHANGED <<parent, ptr, consts>>
    BY <1>18 DEF CombineInLoop
  <2>2. fr \in FrameType
    BY <1>1 DEF FrameType, Modes
  <2>3. /\ fr.mode = "cond" /\ fr.env = Top.env
        /\ fr.node = Top.node /\ fr.ptr = Top.ptr
    BY <1>1 DEF FrameType
  <2> HIDE DEF fr
  <2>4. Pending(Top)
    BY TopOf
  <2>5. Fine(fr)
    BY <2>1, <2>3, <2>4 DEF Fine, Pending, PendingIn, HomeIn
  <2> QED
    BY <1>2, <2>1, <2>2, <2>5
<1>19. ASSUME NEW x \in Names, RejectDeclaration(x) \/ DimArray(x)  PROVE Goal
  BY <1>7, <1>19 DEF RejectDeclaration, DimArray
<1>20. ASSUME NEW x \in Names, NEW v \in Values,
              Dim(x, v) \/ Const(x, v) \/ Public(x, v) \/ CatchVariable(x, v)
       PROVE  Goal
  BY <1>7, <1>20 DEF Dim, Const, Public, CatchVariable
<1>21. ASSUME NEW x \in Names, NEW v \in Values, LoopVariable(x, v)  PROVE Goal
  <2>1. CASE Top.mode = "idle"
    BY <1>7, <1>21, <2>1 DEF LoopVariable
  <2>2. CASE Top.mode = "cond" /\ Declared(E, x)
    <3>1. UNCHANGED <<parent, ptr, consts, stack>>
      BY <1>21, <2>2 DEF LoopVariable, PutInternal
    <3> QED
      BY <1>3, <1>5, <2>2, <3>1
  <2> QED
    BY <1>21, <2>1, <2>2 DEF LoopVariable
<1>22. ASSUME NEW x \in Names, NEW v \in Values, BindParam(x, v)  PROVE Goal
  <2> DEFINE fr == [Top EXCEPT !.mode =
        IF \A y \in Params[Top.proc] \ {x} : Declared(E, y) THEN "idle" ELSE "bind"]
  <2>1. fr \in FrameType /\ fr.mode \in {"idle", "bind"}
    BY <1>1 DEF FrameType, Modes
  <2>2. SetTop(fr)
    BY <1>22 DEF BindParam
  <2> HIDE DEF fr
  <2> QED
    BY <1>8, <2>1, <2>2
<1>23. ASSUME NEW p \in Procs, NEW e \in Env, Call(p, e)  PROVE Goal
  <2> DEFINE fr == [Frame(e, p) EXCEPT !.mode = IF Params[p] = {} THEN "idle" ELSE "bind"]
  <2>1. fr \in FrameType /\ fr.mode \in {"idle", "bind"}
    BY DEF Frame, FrameType, Modes
  <2>2. /\ stack' = Append(stack, fr) /\ Fresh(e) /\ parent' = [parent EXCEPT ![e] = Root]
        /\ UNCHANGED <<ptr, heap, consts, cache>>
    BY <1>23 DEF Call
  <2> HIDE DEF fr
  <2>3. /\ Depth' = Depth + 1 /\ stack'[Depth + 1] = fr
        /\ \A i \in 1 .. Depth : stack'[i] = stack[i]
    BY <1>1, <2>1, <2>2, PushType
  <2>4. ASSUME NEW i \in 1 .. Depth  PROVE Fine(stack[i])
    <3>1. /\ Pending(stack[i]) /\ stack[i].env \in Env /\ ~Fresh(stack[i].env)
          /\ parent \in [Env -> Env \cup {NoEnv}] /\ Root \in Env
      BY <1>1, RunningScope DEF RefInv, TypeOK
    <3>2. parent'[stack[i].env] = parent[stack[i].env]
      BY <2>2, <3>1
    <3> QED
      BY <2>2, <3>1, <3>2 DEF Fine, Pending, PendingIn, HomeIn
  <2>5. \A i \in 1 .. Depth + 1 : i \in 1 .. Depth \/ i = Depth + 1
    BY TopOf
  <2>6. \A i \in 1 .. Depth + 1 : Fine(stack'[i])
    BY <1>4, <2>1, <2>3, <2>4, <2>5
  <2> QED
    BY <2>3, <2>6 DEF Goal, AllPending, Fine
<1>24. ASSUME NEW v \in Values, Leave(v)  PROVE Goal
  <2>1. Depth > 1 /\ stack' = SubSeq(stack, 1, Depth - 1)
    BY <1>24 DEF Leave
  <2>2. Len(stack') = Depth - 1 /\ \A i \in 1 .. Depth - 1 : stack'[i] = stack[i]
    BY <1>1, <2>1, PopType
  <2>3. Depth' = Depth - 1
    BY <2>2 DEF Depth
  <2>4. \A i \in 1 .. Depth - 1 : Fine(stack'[i])
    BY <2>2, BelowPending DEF Fine
  <2> QED
    BY <2>3, <2>4 DEF Goal, AllPending, Fine
<1>25. ASSUME LeaveWithError  PROVE Goal
  <2> DEFINE t  == SubSeq(stack, 1, Depth - 1)
             fr == IF t[Depth - 1].mode = "bind" THEN t[Depth - 1] ELSE Settled(t[Depth - 1])
  <2>1. Depth > 1 /\ stack' = [t EXCEPT ![Depth - 1] = fr] /\ Depth \in Nat
    BY <1>25, TopOf DEF LeaveWithError
  <2>2. /\ t \in Seq(FrameType) /\ Len(t) = Depth - 1 /\ Depth - 1 \in 1 .. Len(t)
        /\ \A i \in 1 .. Depth - 1 : t[i] = stack[i]
    BY <1>1, <2>1, PopType
  <2>3. t[Depth - 1] \in FrameType
    BY <2>2, ElementOfSeq
  <2>4. fr \in FrameType /\ fr.mode \in {"idle", "bind"}
    <3>1. Settled(t[Depth - 1]) \in FrameType /\ Settled(t[Depth - 1]).mode = "idle"
      BY <1>1, <2>3, SettledType DEF TypeOK, Settled, Frame
    <3> HIDE DEF t
    <3> QED
      BY <2>3, <3>1
  <2> HIDE DEF t, fr
  <2>5. /\ Len(stack') = Depth - 1
        /\ \A i \in 1 .. Depth - 1 : stack'[i] = IF i = Depth - 1 THEN fr ELSE t[i]
    BY <2>1, <2>2, <2>4, ExceptSeq
  <2>6. Depth' = Depth - 1
    BY <2>5 DEF Depth
  <2>7. \A i \in 1 .. Depth - 1 : Fine(stack[i])
    BY BelowPending DEF Fine
  <2>8. \A i \in 1 .. Depth - 1 : Fine(stack'[i])
    BY <1>4, <2>2, <2>4, <2>5, <2>7
  <2> QED
    BY <2>6, <2>8 DEF Goal, AllPending, Fine
<1>26. ASSUME UNCHANGED vars  PROVE Goal
  BY <1>3, <1>5, <1>26 DEF vars
<1>27. Goal
  BY <1>10, <1>12, <1>13, <1>14, <1>15, <1>16, <1>17, <1>18, <1>19, <1>20,
     <1>21, <1>22, <1>23, <1>24, <1>25, <1>26 DEF Next
<1> QED
  BY <1>27 DEF Goal

\* The script starts with empty scopes and nothing pending.
LEMMA InitRefInv == Init => RefInv
<1> SUFFICES ASSUME Init  PROVE RefInv
  OBVIOUS
<1>1. TypeOK
  BY InitType
<1>2. Depth = 1 /\ stack[1].env = Root /\ stack[1].mode = "idle"
  BY DEF Init, Frame, Depth
<1>3. \A n \in Nodes : cache[n].env = NoEnv
  BY DEF Init, NoCache
<1>4. ScopeChain /\ CacheCoherent
  BY <1>2, <1>3 DEF Init, ScopeChain, CacheCoherent, Live
<1>5. \A e \in Env : consts[e] = {} /\ \A x \in Names : ~Declared(e, x)
  BY DEF Init, Declared
<1>6. Distinct /\ Blank
  BY <1>5 DEF Distinct, Blank
<1>7. OwnScopes /\ \A i \in 1 .. Depth : Pending(stack[i])
  BY <1>2 DEF OwnScopes, Pending, PendingIn
<1> QED
  BY <1>1, <1>4, <1>6, <1>7 DEF RefInv

\* An interpreter that remembers where it found a name, on nodes that all
\* activations of a procedure share, does what looking every name up does, for a
\* script with none of the habits: at every step, at any depth of recursion.
THEOREM Implementation ==
  ASSUME Features = {} PROVE Spec => RefinesLexicalScope
<1>1. Init => Lexical!Init
  <2> SUFFICES ASSUME Init  PROVE Lexical!Init
    OBVIOUS
  <2>1. scopeBar = [e \in Env |-> [x \in Names |-> Undeclared]]
    BY DEF Init, scopeBar, Value, Declared
  <2>2. stackBar = <<Lexical!Frame(Root, Main)>>
    <3>1. FrameBar(Frame(Root, Main)) = Lexical!Frame(Root, Main)
      BY DEF FrameBar, Frame, Lexical!Frame, Lexical!Idle
    <3>2. stackBar = [i \in 1 .. 1 |-> FrameBar(Frame(Root, Main))]
      BY DEF Init, stackBar, Depth
    <3> QED
      BY <3>1, <3>2
  <2> QED
    BY <2>1, <2>2 DEF Init, Lexical!Init
<1>2. RefInv /\ [Next]_vars => RefInv'
  <2> SUFFICES ASSUME RefInv, [Next]_vars  PROVE RefInv'
    OBVIOUS
  <2>1. TypeOK' /\ ScopeChain'
    BY TypeStep, ChainStep DEF RefInv
  <2>2. CacheCoherent'
    BY CacheStep DEF RefInv
  <2>3. Distinct' /\ Blank' /\ OwnScopes'
    BY DistinctStep, BlankStep, OwnScopesStep DEF RefInv
  <2>4. (\A i \in 1 .. Depth : Pending(stack[i]))'
    BY PendingStep DEF AllPending, Pending
  <2> QED
    BY <2>1, <2>2, <2>3, <2>4 DEF RefInv
<1>3. RefInv /\ [Next]_vars => [Lexical!Next]_Lexical!vars
  BY StepImplements
<1> QED
  BY <1>1, <1>2, <1>3, InitRefInv, PTL DEF Spec, RefinesLexicalScope, Lexical!Spec

================================================================================
