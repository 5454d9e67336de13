--------------------------- MODULE Positions_proofs ---------------------------
(***************************************************************************)
(* Theorems about the frames of a walk: each pairs a value with the old    *)
(* value of the same position, and only those of the whole object carry    *)
(* the RootContext.  First for any Traversal whose children step down from *)
(* their parents, then for the two walks, whose children do.  And what     *)
(* defaulting may do to a document before it is walked.                    *)
(***************************************************************************)
EXTENDS Positions, Traversal_proofs, Walks_proofs

RawW      == INSTANCE RawWalk
CompiledW == INSTANCE CompiledWalk

---------------------------------------------------------------------------
\* A recursive function on the segments of a path exists: a trail.
LEMMA TrailExists ==
  ASSUME NEW opt, NEW path, NEW n \in Nat
  PROVE  \E at : at = [i \in 0..n |-> IF i = 0 THEN opt ELSE Step(at[i - 1], path[i])]
<1> DEFINE Is(at, m) ==
             at = [i \in 0..m |-> IF i = 0 THEN opt ELSE Step(at[i - 1], path[i])]
           S == {m \in Nat : \E at : Is(at, m)}
<1>1. 0 \in S
  <2>1. Is([i \in 0..0 |-> opt], 0)
    OBVIOUS
  <2> QED BY <2>1
<1>2. ASSUME NEW m \in S
      PROVE  m + 1 \in S
  <2>1. PICK at : Is(at, m)
    OBVIOUS
  <2> DEFINE longer == [i \in 0..m + 1 |->
                          IF i = m + 1 THEN Step(at[m], path[m + 1]) ELSE at[i]]
  <2>2. ASSUME NEW i \in 0..m + 1
        PROVE  longer[i] = IF i = 0 THEN opt ELSE Step(longer[i - 1], path[i])
    <3>1. CASE i = m + 1
      BY <3>1
    <3>2. CASE i \in 0..m
      BY <3>2, <2>1
    <3> QED BY <3>1, <3>2
  <2>3. Is(longer, m + 1)
    BY <2>2
  <2>4. \E g : Is(g, m + 1)
    BY <2>3
  <2> QED BY <2>4
<1>3. n \in S
  <2> HIDE DEF S
  <2> QED BY <1>1, <1>2, Induct
<1> QED BY <1>3

\* A trail begins at what it starts from, and each segment is one step more.
LEMMA TrailStep ==
  ASSUME NEW opt, NEW path, Len(path) \in Nat
  PROVE  Trail(opt, path) =
           [i \in 0..Len(path) |->
              IF i = 0 THEN opt ELSE Step(Trail(opt, path)[i - 1], path[i])]
  BY TrailExists DEF Trail

\* The empty path leads nowhere else.
LEMMA ResolveNothing ==
  ASSUME NEW opt
  PROVE  Resolve(opt, <<>>) = opt
  BY TrailStep DEF Resolve

\* A path with a segment more leads through where the path leads.
LEMMA TrailAppend ==
  ASSUME NEW S, NEW path \in Seq(S), NEW segment, NEW opt
  PROVE  /\ Trail(opt, Append(path, segment))[Len(path)] = Resolve(opt, path)
         /\ Trail(opt, Append(path, segment))[Len(path) + 1] =
              Step(Resolve(opt, path), segment)
<1> DEFINE longer == Append(path, segment)
           p == Trail(opt, path)
           q == Trail(opt, longer)
           n == Len(path)
           T == {i \in Nat : i <= n => q[i] = p[i]}
<1>1. /\ longer \in Seq(S \cup {segment})
      /\ Len(longer) = n + 1 /\ longer[n + 1] = segment
      /\ \A i \in 1..n : longer[i] = path[i]
  OBVIOUS
<1>2. p = [i \in 0..n |-> IF i = 0 THEN opt ELSE Step(p[i - 1], path[i])]
  BY TrailStep
<1>3. q = [i \in 0..n + 1 |-> IF i = 0 THEN opt ELSE Step(q[i - 1], longer[i])]
  <2>1. Len(longer) \in Nat
    BY <1>1
  <2> HIDE DEF longer
  <2>2. q = [i \in 0..Len(longer) |->
               IF i = 0 THEN opt ELSE Step(q[i - 1], longer[i])]
    BY <2>1, TrailStep
  <2> QED BY <2>2, <1>1
<1> HIDE DEF p, q, longer
<1>4. 0 \in T
  BY <1>2, <1>3
<1>5. ASSUME NEW i \in Nat, i \in T
      PROVE  i + 1 \in T
  <2> SUFFICES ASSUME i + 1 <= n
               PROVE  q[i + 1] = p[i + 1]
    OBVIOUS
  <2>1. q[i + 1] = Step(q[i], longer[i + 1]) /\ p[i + 1] = Step(p[i], path[i + 1])
    BY <1>2, <1>3
  <2> QED BY <2>1, <1>1, <1>5
<1>6. q[n] = p[n]
  <2> HIDE DEF T
  <2>1. n \in T
    BY <1>4, <1>5, Induct
  <2> QED BY <2>1 DEF T
<1>7. q[n + 1] = Step(q[n], segment)
  BY <1>1, <1>3
<1> QED BY <1>6, <1>7 DEF Resolve, p, q, longer

\* One segment more is one step more.
LEMMA ResolveAppend ==
  ASSUME NEW S, NEW path \in Seq(S), NEW segment, NEW opt
  PROVE  Resolve(opt, Append(path, segment)) = Step(Resolve(opt, path), segment)
<1>1. Len(Append(path, segment)) = Len(path) + 1
  OBVIOUS
<1> QED BY <1>1, TrailAppend DEF Resolve

---------------------------------------------------------------------------
\* The RootContext goes no further than the branches of the root's own node.
ContextStaysUp ==
  /\ \A c \in Call : RootFrame(c).root => c.root
  /\ \A f \in Frame : ~TooDeep(f) =>
       \A g \in ChildSet(f) : g.root => f.root /\ g.value = f.value

\* The frames that may carry the RootContext of a call.
OfTheWhole(c, f) == f.root => c.root /\ f.value = RootFrame(c).value

WholeInv == Scheduled \subseteq {f \in Frame : OfTheWhole(call, f)}

\* Rules see the RootContext variables at the object as a whole and at no part
\* of it, even under a field whose name is empty and whose path is therefore
\* the root's (the None that the walkers pass to children).
THEOREM ContextOnlyAtRoot ==
  ASSUME ContextStaysUp
  PROVE  Spec => []RootVariablesOnlyAtRoot
<1> DEFINE G == [c \in Call |-> {f \in Frame : OfTheWhole(c, f)}]
<1>1. Init => WholeInv
  BY DEF Init, WholeInv, Scheduled, ToSet
<1>2. IInv /\ WholeInv /\ [Next]_vars => WholeInv'
  <2> SUFFICES ASSUME IInv, WholeInv, [Next]_vars
               PROVE  WholeInv'
    OBVIOUS
  <2>1. \A c \in Call : RootFrame(c) \in G[c]
    BY FrameAssumption DEF ContextStaysUp, OfTheWhole
  <2>2. ASSUME NEW c \in Call, NEW f \in Frame \cap G[c], ~TooDeep(f)
        PROVE  ChildSet(f) \subseteq G[c]
    <3>1. ChildSet(f) \subseteq Frame
      BY <2>2, ChildrenAreFrames
    <3> QED BY <2>2, <3>1 DEF ContextStaysUp, OfTheWhole
  <2>3. call \in Call /\ call' \in Call
    BY StepInvariant DEF IInv, TypeOK
  <2>4. Scheduled \subseteq G[call]
    BY <2>3 DEF WholeInv
  <2>5. Scheduled' \subseteq G[call']
    <3> HIDE DEF G
    <3> QED BY <2>1, <2>2, <2>4, WalkStaysWithin
  <2> QED BY <2>3, <2>5 DEF WholeInv
<1>3. IInv /\ WholeInv => RootVariablesOnlyAtRoot
  <2> SUFFICES ASSUME IInv, WholeInv, stage = "evaluate", scope.root
               PROVE  call.root /\ Head(frames).value = RootFrame(call).value
    BY DEF RootVariablesOnlyAtRoot
  <2>1. Head(frames) \in answered /\ scope = ScopeOf(Head(frames))
    BY DEF IInv, TypeOK, Settled
  <2>2. Head(frames).root
    BY <2>1 DEF ScopeOf
  <2> QED BY <2>1, <2>2 DEF WholeInv, Scheduled, OfTheWhole
<1> QED BY <1>1, <1>2, <1>3, AlwaysInvariant, PTL DEF Spec

---------------------------------------------------------------------------
\* A path with a segment more is a path.
LEMMA PathAppend ==
  ASSUME NEW path, IsSequence(path), NEW segment
  PROVE  IsSequence(Append(path, segment))
<1> DEFINE longer == Append(path, segment)
<1>1. /\ longer \in Seq(ToSet(path) \cup {segment})
      /\ DOMAIN longer = 1..Len(path) + 1 /\ longer[Len(path) + 1] = segment
      /\ \A i \in DOMAIN path : longer[i] = path[i] /\ i \in DOMAIN longer
  BY DEF IsSequence
<1> HIDE DEF longer
<1>2. ToSet(path) \cup {segment} \subseteq ToSet(longer)
  BY <1>1 DEF ToSet, IsSequence
<1>3. longer \in Seq(ToSet(longer))
  BY <1>1, <1>2
<1> QED BY <1>3 DEF IsSequence, longer

\* A frame one call below another: for a branch of the same node at the same
\* place, or for a child one segment further down, in both documents.
SamePlace(f, g) == g.path = f.path /\ g.value = f.value /\ g.old = f.old

OneSegmentBelow(f, g) ==
  \E segment :
    /\ g.path = Append(f.path, segment)
    /\ {g.value} = Step({f.value}, segment)
    /\ g.old = Step(f.old, segment)

\* No field at the root's path has the empty name, which would join to that
\* same path.
Nameable(f) == f.path = <<>> => <<>> \notin Keys(f.value)

PlacesFollow ==
  /\ \A c \in Call : RootFrame(c).path = <<>>
  /\ \A f \in Frame : ~TooDeep(f) /\ IsSequence(f.path) /\ Nameable(f) =>
       \A g \in ChildSet(f) : SamePlace(f, g) \/ OneSegmentBelow(f, g)

\* The frames of a call that hold what their path leads to in both documents.
Paired(c, f) ==
  /\ IsSequence(f.path)
  /\ Resolve({RootFrame(c).value}, f.path) = {f.value}
  /\ Resolve(RootFrame(c).old, f.path) = f.old

PairedIn(c) == {f \in Frame : Nameable(RootFrame(c)) => Paired(c, f)}

PairedInv == Scheduled \subseteq PairedIn(call)

\* At the root's path a frame has the root's value.
LEMMA NameableBelow ==
  ASSUME NEW c \in Call, Nameable(RootFrame(c)), RootFrame(c).path = <<>>,
         NEW f, Paired(c, f)
  PROVE  Nameable(f)
<1> SUFFICES ASSUME f.path = <<>>
             PROVE  <<>> \notin Keys(f.value)
  BY DEF Nameable
<1>1. {RootFrame(c).value} = {f.value}
  BY ResolveNothing DEF Paired
<1> QED BY <1>1 DEF Nameable

\* What is paired stays paired one call further down.
LEMMA PairedBelow ==
  ASSUME NEW c \in Call, Nameable(RootFrame(c)), NEW f \in Frame, Paired(c, f),
         ~TooDeep(f), NEW g \in ChildSet(f), PlacesFollow
  PROVE  Paired(c, g)
<1>1. Nameable(f)
  BY NameableBelow DEF PlacesFollow
<1>2. CASE SamePlace(f, g)
  BY <1>2 DEF SamePlace, Paired
<1>3. CASE OneSegmentBelow(f, g)
  <2>1. PICK segment : /\ g.path = Append(f.path, segment)
                       /\ {g.value} = Step({f.value}, segment)
                       /\ g.old = Step(f.old, segment)
    BY <1>3 DEF OneSegmentBelow
  <2>2. f.path \in Seq(ToSet(f.path))
    BY DEF Paired, IsSequence
  <2>3. \A opt : Resolve(opt, g.path) = Step(Resolve(opt, f.path), segment)
    BY <2>1, <2>2, ResolveAppend
  <2>4. IsSequence(g.path)
    BY <2>1, PathAppend DEF Paired
  <2> QED BY <2>1, <2>3, <2>4 DEF Paired
<1> QED BY <1>1, <1>2, <1>3 DEF PlacesFollow, Paired

\* The root frame pairs the two documents themselves.
LEMMA PairedStart ==
  ASSUME NEW c \in Call, PlacesFollow
  PROVE  RootFrame(c) \in PairedIn(c)
<1>1. RootFrame(c).path = <<>> /\ RootFrame(c) \in Frame
  BY FrameAssumption DEF PlacesFollow
<1>2. IsSequence(RootFrame(c).path)
  BY <1>1 DEF IsSequence
<1> QED BY <1>1, <1>2, ResolveNothing DEF Paired, PairedIn

\* Every frame pairs a value with the old value of the same position, and both
\* are found under the frame's path in the defaulted documents (the child_old,
\* old_item and old_val of the walkers).
THEOREM ValuesPaired ==
  ASSUME PlacesFollow
  PROVE  Spec => []OldOfTheSamePosition
<1> DEFINE G == [c \in Call |-> PairedIn(c)]
<1>1. Init => PairedInv
  BY DEF Init, PairedInv, Scheduled, ToSet
<1>2. IInv /\ PairedInv /\ [Next]_vars => PairedInv'
  <2> SUFFICES ASSUME IInv, PairedInv, [Next]_vars
               PROVE  PairedInv'
    OBVIOUS
  <2>1. \A c \in Call : RootFrame(c) \in G[c]
    BY PairedStart
  <2>2. ASSUME NEW c \in Call, NEW f \in Frame \cap G[c], ~TooDeep(f)
        PROVE  ChildSet(f) \subseteq G[c]
    <3>1. ChildSet(f) \subseteq Frame
      BY <2>2, ChildrenAreFrames
    <3> QED BY <2>2, <3>1, PairedBelow DEF PairedIn
  <2>3. call \in Call /\ call' \in Call
    BY StepInvariant DEF IInv, TypeOK
  <2>4. Scheduled \subseteq G[call]
    BY <2>3 DEF PairedInv
  <2>5. Scheduled' \subseteq G[call']
    <3> HIDE DEF G
    <3> QED BY <2>1, <2>2, <2>4, WalkStaysWithin
  <2> QED BY <2>3, <2>5 DEF PairedInv
<1>3. PairedInv => OldOfTheSamePosition
  BY DEF PairedInv, PairedIn, Scheduled, ToSet, Paired, OldOfTheSamePosition,
     PathsNamePlaces, Nameable
<1> QED BY <1>1, <1>2, <1>3, AlwaysInvariant, PTL DEF Spec

---------------------------------------------------------------------------
(***************************************************************************)
(* The two walks of the code visit the same children below a frame, those  *)
(* of ChildrenOf, whatever the order.                                      *)
(***************************************************************************)
\* Every frame's children are those of one of the two walks.
WalkOfTheCode ==
  \A f \in Frame : ~TooDeep(f) =>
    Children(f) \in {RawW!RawChildren(f), CompiledW!CompiledChildren(f)}

---------------------------------------------------------------------------
\* The children of the raw walk are the four loops, properties in the order of a map
\* (walk_schema).
LEMMA RawLoops ==
  ASSUME NEW f
  PROVE  RawW!RawChildren(f) =
           {PropertyLoop(f, MapOrder(Declared(f) \cap Keys(f.value)))
              \o ItemLoop(f) \o MapLoop(f) \o BranchLoop(f)}
<1>1. RawW!PropertyFrames(f) = PropertyLoop(f, MapOrder(Declared(f) \cap Keys(f.value)))
  BY DEF RawW!PropertyFrames, PropertyLoop, FieldChild, Declared, RawW!ChildFrame,
     ChildFrame, RawW!FieldOf, FieldOf, RawW!JoinPath, JoinPath, RawW!Keys, Keys,
     RawW!IsObject, IsObject
<1>2. RawW!ItemFrames(f) = ItemLoop(f)
  BY DEF RawW!ItemFrames, ItemLoop, ItemChild, RawW!IsArray, IsArray, RawW!ChildFrame,
     ChildFrame, RawW!ItemOf, ItemOf, RawW!JoinPathIndex, JoinPathIndex
<1>3. RawW!AdditionalFrames(f) = MapLoop(f)
  BY DEF RawW!AdditionalFrames, MapLoop, FieldChild, Declared, RawW!ChildFrame,
     ChildFrame, RawW!FieldOf, FieldOf, RawW!JoinPath, JoinPath, RawW!Keys, Keys,
     RawW!IsObject, IsObject
<1>4. RawW!BranchFrames(f) = BranchLoop(f)
  BY DEF RawW!BranchFrames, BranchLoop, RawW!BranchFrame, BranchFrame
<1> QED BY <1>1, <1>2, <1>3, <1>4 DEF RawW!RawChildren

\* The children of the compiled walk are the four loops, properties in any order
\* (walk_compiled and its HashMap).
LEMMA CompiledLoops ==
  ASSUME NEW f
  PROVE  CompiledW!CompiledChildren(f) =
           {PropertyLoop(f, names) \o ItemLoop(f) \o MapLoop(f) \o BranchLoop(f) :
              names \in SetToSeqs(Declared(f) \cap Keys(f.value))}
<1>1. \A names : CompiledW!PropertyFrames(f, names) = PropertyLoop(f, names)
  BY DEF CompiledW!PropertyFrames, PropertyLoop, FieldChild, CompiledW!ChildFrame,
     ChildFrame, CompiledW!FieldOf, FieldOf, CompiledW!JoinPath, JoinPath,
     CompiledW!Keys, Keys, CompiledW!IsObject, IsObject
<1>2. CompiledW!ItemFrames(f) = ItemLoop(f)
  BY DEF CompiledW!ItemFrames, ItemLoop, ItemChild, CompiledW!IsArray, IsArray,
     CompiledW!ChildFrame, ChildFrame, CompiledW!ItemOf, ItemOf,
     CompiledW!JoinPathIndex, JoinPathIndex
<1>3. CompiledW!AdditionalFrames(f) = MapLoop(f)
  BY DEF CompiledW!AdditionalFrames, MapLoop, FieldChild, Declared,
     CompiledW!ChildFrame, ChildFrame, CompiledW!FieldOf, FieldOf,
     CompiledW!JoinPath, JoinPath, CompiledW!Keys, Keys, CompiledW!IsObject, IsObject
<1>4. CompiledW!BranchFrames(f) = BranchLoop(f)
  BY DEF CompiledW!BranchFrames, BranchLoop, CompiledW!BranchFrame, BranchFrame
<1>5. CompiledW!Keys(f.value) = Keys(f.value)
  BY DEF CompiledW!Keys, Keys, CompiledW!IsObject, IsObject
<1>6. \A K : CompiledW!SetToSeqs(K) = SetToSeqs(K)
  <2> TAKE K
  <2>1. CompiledW!Cardinality(K) = Cardinality(K)
    BY Zenon DEF CompiledW!Cardinality, Cardinality
  <2> QED BY <2>1 DEF CompiledW!SetToSeqs, SetToSeqs
<1> QED BY <1>1, <1>2, <1>3, <1>4, <1>5, <1>6 DEF CompiledW!CompiledChildren, Declared

\* Whichever walk and whatever order: a frame has the same children.
LEMMA ChildrenOfWalk ==
  ASSUME WalkOfTheCode, NEW f \in Frame, ~TooDeep(f)
  PROVE  ChildSet(f) = ChildrenOf(f)
<1> DEFINE K == Declared(f) \cap Keys(f.value)
           order(names) == PropertyLoop(f, names) \o ItemLoop(f) \o MapLoop(f)
                             \o BranchLoop(f)
<1>1. IsFrame(f)
  BY WalkAssumption
<1>2. IsFiniteSet(K)
  BY <1>1, KeysOfFrame
<1>3. Children(f) # {}
  BY FrameAssumption
<1>4. ASSUME NEW names \in Seq(K), K \subseteq ToSet(names)
      PROVE  ToSet(order(names)) = ChildrenOf(f)
  BY <1>1, <1>4, LoopsVisit
<1>5. MapOrder(K) \in Seq(K) /\ K \subseteq ToSet(MapOrder(K))
  BY <1>1 DEF IsFrame, Lists
<1>6. \A names \in SetToSeqs(K) : names \in Seq(K) /\ K \subseteq ToSet(names)
  <2> HIDE DEF K
  <2> QED BY <1>2, PermutationsList
<1>7. \/ Children(f) = {order(MapOrder(K))}
      \/ Children(f) = {order(names) : names \in SetToSeqs(K)}
  BY RawLoops, CompiledLoops DEF WalkOfTheCode
<1> HIDE DEF order, K
<1>8. \A o \in Children(f) : ToSet(o) = ChildrenOf(f)
  BY <1>4, <1>5, <1>6, <1>7
<1> QED BY <1>3, <1>8 DEF ChildSet

---------------------------------------------------------------------------
\* What a walk passes to a recursive call.
CalledBelow(f, g) ==
  \/ SamePlace(f, g) /\ g.root = f.root
  \/ g.root = FALSE /\ (Nameable(f) => OneSegmentBelow(f, g))

\* A field's frame is one name further down (child_old and child_path).
LEMMA FieldBelow ==
  ASSUME NEW f, NEW k \in Keys(f.value), NEW node
  PROVE  CalledBelow(f, FieldChild(f, node, k))
<1> DEFINE segment == <<"name", k>>
           g == FieldChild(f, node, k)
<1>1. /\ g.path = JoinPath(f.path, k) /\ g.value = f.value.fields[k]
      /\ g.old = FieldOf(f.old, k) /\ g.root = FALSE
  BY DEF FieldChild, ChildFrame
<1>2. /\ Step({f.value}, segment) = FieldOf({f.value}, k)
      /\ Step(f.old, segment) = FieldOf(f.old, k)
  BY DEF Step
<1>3. FieldOf({f.value}, k) = {f.value.fields[k]}
  BY DEF FieldOf
<1>4. ASSUME Nameable(f)
      PROVE  JoinPath(f.path, k) = Append(f.path, segment)
  BY <1>4 DEF Nameable, JoinPath
<1> HIDE DEF segment, g
<1>5. CalledBelow(f, g)
  BY <1>1, <1>2, <1>3, <1>4 DEF CalledBelow, OneSegmentBelow
<1> QED BY <1>5 DEF g

\* An item's frame is one index further down (old_item).
LEMMA ItemBelow ==
  ASSUME NEW f, IsArray(f.value), NEW i \in DOMAIN f.value.elems, NEW node
  PROVE  CalledBelow(f, ItemChild(f, node, i))
<1> DEFINE segment == <<"index", i>>
           g == ItemChild(f, node, i)
<1>1. /\ g.path = Append(f.path, segment) /\ g.value = f.value.elems[i]
      /\ g.old = ItemOf(f.old, i) /\ g.root = FALSE
  BY DEF ItemChild, ChildFrame, JoinPathIndex
<1>2. /\ Step({f.value}, segment) = ItemOf({f.value}, i)
      /\ Step(f.old, segment) = ItemOf(f.old, i)
  BY DEF Step
<1>3. ItemOf({f.value}, i) = {f.value.elems[i]}
  BY DEF ItemOf
<1> HIDE DEF segment, g
<1>4. CalledBelow(f, g)
  BY <1>1, <1>2, <1>3 DEF CalledBelow, OneSegmentBelow
<1> QED BY <1>4 DEF g

\* A branch's frame stays where its parent is and keeps its RootContext.
LEMMA BranchBelow ==
  ASSUME NEW f, IsFrame(f), NEW node
  PROVE  CalledBelow(f, BranchFrame(f, node))
<1>1. /\ BranchFrame(f, node).path = f.path /\ BranchFrame(f, node).value = f.value
      /\ BranchFrame(f, node).old = f.old /\ BranchFrame(f, node).root = f.root
  BY DEF BranchFrame, IsFrame
<1> QED BY <1>1 DEF CalledBelow, SamePlace

\* So every recursive call of either walk stays or goes one segment down.
LEMMA ChildBelow ==
  ASSUME WalkOfTheCode, NEW f \in Frame, ~TooDeep(f), NEW g \in ChildSet(f)
  PROVE  CalledBelow(f, g)
<1>1. g \in ChildrenOf(f) /\ IsFrame(f)
  BY ChildrenOfWalk, WalkAssumption
<1>2. CASE g \in FieldChildren(f)
  BY <1>2, FieldBelow DEF FieldChildren
<1>3. CASE g \in ItemChildren(f)
  BY <1>3, ItemBelow DEF ItemChildren
<1>4. CASE g \in MapChildren(f)
  BY <1>4, FieldBelow DEF MapChildren
<1>5. CASE g \in BranchChildren(f)
  BY <1>1, <1>5, BranchBelow DEF BranchChildren
<1> QED BY <1>1, <1>2, <1>3, <1>4, <1>5 DEF ChildrenOf

\* In either walk of the code the RootContext reaches the object as a whole and
\* no part of it (the None that walk_schema and walk_compiled pass on).
THEOREM WalksKeepContext ==
  ASSUME WalkOfTheCode
  PROVE  Spec => []RootVariablesOnlyAtRoot
<1>1. ContextStaysUp
  <2>1. \A c \in Call : RootFrame(c).root => c.root
    BY WalkAssumption
  <2>2. \A f \in Frame : ~TooDeep(f) => \A g \in ChildSet(f) : CalledBelow(f, g)
    BY ChildBelow
  <2> QED BY <2>1, <2>2 DEF ContextStaysUp, CalledBelow, SamePlace
<1> QED BY <1>1, ContextOnlyAtRoot

\* In either walk of the code every value is paired with the old value of the
\* same position (child_old, old_item and old_val), for every schema and every
\* two documents.
THEOREM WalksPairValues ==
  ASSUME WalkOfTheCode
  PROVE  Spec => []OldOfTheSamePosition
<1>1. PlacesFollow
  <2>1. \A c \in Call : RootFrame(c).path = <<>>
    BY WalkAssumption
  <2>2. \A f \in Frame : ~TooDeep(f) => \A g \in ChildSet(f) : CalledBelow(f, g)
    BY ChildBelow
  <2> QED BY <2>1, <2>2 DEF PlacesFollow, CalledBelow
<1> QED BY <1>1, ValuesPaired

---------------------------------------------------------------------------
(***************************************************************************)
(* No position escapes.  A set of frames that is closed under the walk     *)
(* judges whatever the tables of Positions call for: along a path position *)
(* by position, and at each position nesting by nesting.                   *)
(***************************************************************************)
\* The frames of a walk that has come to its end without a refusal.
Closed(W) ==
  \A f \in W : IsFrame(f) /\ ChildrenOf(f) \subseteq W

Judged(W, path, v, n) ==
  \E f \in W : f.path = path /\ f.value = v /\ f.node = n

\* The table of nested branches exists.
LEMMA NestingExists ==
  ASSUME NEW nodes, NEW n \in Nat
  PROVE  \E at : at = [i \in 0..n |-> IF i = 0 THEN nodes
                                      ELSE AndBranches(at[i - 1])]
<1> DEFINE Is(at, m) == at = [i \in 0..m |-> IF i = 0 THEN nodes
                                      ELSE AndBranches(at[i - 1])]
           S == {m \in Nat : \E at : Is(at, m)}
<1>1. 0 \in S
  <2>1. Is([i \in 0..0 |-> nodes], 0)
    OBVIOUS
  <2>2. \E at : Is(at, 0)
    BY <2>1
  <2> QED BY <2>2
<1>2. ASSUME NEW m \in S
      PROVE  m + 1 \in S
  <2>1. PICK at : Is(at, m)
    OBVIOUS
  <2> DEFINE longer == [i \in 0..m + 1 |->
                          IF i = m + 1 THEN AndBranches(at[m]) ELSE at[i]]
  <2>2. ASSUME NEW i \in 0..m + 1
        PROVE  longer[i] = IF i = 0 THEN nodes
                           ELSE AndBranches(longer[i - 1])
    <3>1. CASE i = m + 1
      BY <3>1
    <3>2. CASE i \in 0..m
      <4>1. at[i] = IF i = 0 THEN nodes ELSE AndBranches(at[i - 1])
        BY <3>2, <2>1
      <4>2. longer[i] = at[i] /\ (i # 0 => longer[i - 1] = at[i - 1])
        BY <3>2
      <4> QED BY <4>1, <4>2, Zenon
    <3> QED BY <3>1, <3>2
  <2>3. Is(longer, m + 1)
    BY <2>2
  <2>4. \E g : Is(g, m + 1)
    BY <2>3
  <2> QED BY <2>4
<1>3. n \in S
  <2> HIDE DEF S
  <2> QED BY <1>1, <1>2, Induct
<1> QED BY <1>3

\* A frame's branches are walked at the frame's own place.
LEMMA JudgedBranches ==
  ASSUME NEW W, Closed(W), NEW nodes, NEW path, NEW v,
         \A n \in nodes : Judged(W, path, v, n)
  PROVE  \A n \in Branches(nodes) : Judged(W, path, v, n)
<1> SUFFICES ASSUME NEW n \in Branches(nodes)
             PROVE  Judged(W, path, v, n)
  OBVIOUS
<1>1. PICK m \in nodes : n \in Branches({m})
  BY DEF Branches
<1>2. PICK f \in W : f.path = path /\ f.value = v /\ f.node = m
  BY DEF Judged
<1>3. BranchFrame(f, n) \in W
  BY <1>1, <1>2 DEF Closed, ChildrenOf, BranchChildren, BranchesOf, Branches
<1>4. IsFrame(f)
  BY DEF Closed
<1>5. /\ BranchFrame(f, n).path = path /\ BranchFrame(f, n).value = v
      /\ BranchFrame(f, n).node = n
  BY <1>2, <1>4 DEF BranchFrame, IsFrame
<1> QED BY <1>3, <1>5 DEF Judged

\* And so are the branches of the branches, as deep as they nest.
LEMMA JudgedWithBranches ==
  ASSUME NEW W, Closed(W), NEW nodes, NEW path, NEW v,
         \A n \in nodes : Judged(W, path, v, n)
  PROVE  \A n \in WithBranches(nodes) : Judged(W, path, v, n)
<1> DEFINE upTo == CHOOSE at : at = [i \in 0..MaxDepth |->
                      IF i = 0 THEN nodes ELSE AndBranches(at[i - 1])]
           S == {i \in Nat : i <= MaxDepth =>
                               \A n \in upTo[i] : Judged(W, path, v, n)}
<1>1. upTo = [i \in 0..MaxDepth |->
                IF i = 0 THEN nodes ELSE AndBranches(upTo[i - 1])]
  <2>1. MaxDepth \in Nat
    BY DepthAssumption
  <2>2. \E at : at = [i \in 0..MaxDepth |->
                      IF i = 0 THEN nodes ELSE AndBranches(at[i - 1])]
    BY ONLY <2>1, NestingExists
  <2> QED BY ONLY <2>2, Zenon
<1>2. WithBranches(nodes) = upTo[MaxDepth]
  BY DEF WithBranches
<1> HIDE DEF upTo
<1>3. 0 \in S
  BY <1>1, DepthAssumption
<1>4. ASSUME NEW i \in Nat, i \in S
      PROVE  i + 1 \in S
  <2> SUFFICES ASSUME i + 1 <= MaxDepth
               PROVE  \A n \in upTo[i + 1] : Judged(W, path, v, n)
    OBVIOUS
  <2>1. \A n \in upTo[i] : Judged(W, path, v, n)
    BY <1>4, DepthAssumption
  <2>2. upTo[i + 1] = AndBranches(upTo[i])
    <3>1. i + 1 \in 0..MaxDepth /\ i + 1 # 0 /\ (i + 1) - 1 = i
      BY DepthAssumption
    <3>2. upTo[i + 1] = IF i + 1 = 0 THEN nodes
                        ELSE AndBranches(upTo[(i + 1) - 1])
      BY ONLY <1>1, <3>1
    <3> QED BY ONLY <3>1, <3>2
  <2>3. \A n \in Branches(upTo[i]) : Judged(W, path, v, n)
    BY <2>1, JudgedBranches
  <2> QED BY <2>1, <2>2, <2>3 DEF AndBranches
<1>5. MaxDepth \in S
  <2> HIDE DEF S
  <2> QED BY <1>3, <1>4, Induct, DepthAssumption
<1> QED BY <1>2, <1>5, DepthAssumption

\* One segment further down, every node that governs there is walked there.
LEMMA JudgedBelow ==
  ASSUME NEW W, Closed(W), NEW f \in W, Nameable(f), NEW segment,
         segment[1] = "name" \/ segment[1] = "index",
         segment = <<segment[1], segment[2]>>,
         NEW here, \A u \in here : u = f.value, NEW w \in Step(here, segment),
         NEW n \in NodesBelow(f.node, segment)
  PROVE  Judged(W, Append(f.path, segment), w, n)
<1> DEFINE k == segment[2]
<1>1. ChildrenOf(f) \subseteq W
  BY DEF Closed
<1>2. CASE segment[1] = "index"
  <2>1. w \in ItemOf(here, k) /\ n \in f.node.items
    BY <1>2 DEF Step, NodesBelow
  <2>2. IsArray(f.value) /\ k \in DOMAIN f.value.elems /\ w = f.value.elems[k]
    BY <2>1 DEF ItemOf
  <2>3. ItemChild(f, n, k) \in W
    BY <1>1, <2>1, <2>2 DEF ChildrenOf, ItemChildren
  <2>4. /\ ItemChild(f, n, k).path = Append(f.path, <<"index", k>>)
        /\ ItemChild(f, n, k).value = w /\ ItemChild(f, n, k).node = n
    BY <2>2 DEF ItemChild, ChildFrame, JoinPathIndex
  <2> QED BY <1>2, <2>3, <2>4 DEF Judged
<1>3. CASE segment[1] = "name"
  <2>1. w \in FieldOf(here, k)
    BY <1>3 DEF Step
  <2>2. k \in Keys(f.value) /\ w = f.value.fields[k]
    BY <2>1 DEF FieldOf
  <2>3. FieldChild(f, n, k) \in W
    <3>1. CASE k \in Declared(f)
      <4>1. n = f.node.properties[k]
        BY <1>3, <3>1 DEF NodesBelow, Declared
      <4> QED BY <1>1, <2>2, <3>1, <4>1 DEF ChildrenOf, FieldChildren
    <3>2. CASE k \notin Declared(f)
      <4>1. n \in f.node.additional /\ ~f.node.preserveUnknown
        BY <1>3, <3>2 DEF NodesBelow, Declared
      <4>2. FieldChild(f, n, k) \in MapChildren(f)
        BY <2>2, <3>2, <4>1 DEF MapChildren
      <4> QED BY <1>1, <4>2 DEF ChildrenOf
    <3> QED BY <3>1, <3>2
  <2>4. JoinPath(f.path, k) = Append(f.path, <<"name", k>>)
    BY <2>2 DEF Nameable, JoinPath
  <2>5. /\ FieldChild(f, n, k).path = Append(f.path, <<"name", k>>)
        /\ FieldChild(f, n, k).value = w /\ FieldChild(f, n, k).node = n
    BY <2>2, <2>4 DEF FieldChild, ChildFrame
  <2> QED BY <1>3, <2>3, <2>5 DEF Judged
<1> QED BY <1>2, <1>3

\* The table of governing nodes exists: each row is given by the one above it.
LEMMA GovernorsExist ==
  ASSUME NEW nodes, NEW path, NEW n \in Nat
  PROVE  \E at : at = [i \in 0..n |-> IF i = 0 THEN nodes
                                      ELSE GoverningBelow(at[i - 1], path[i])]
<1> DEFINE Is(at, m) == at = [i \in 0..m |-> IF i = 0 THEN nodes
                                      ELSE GoverningBelow(at[i - 1], path[i])]
           S == {m \in Nat : \E at : Is(at, m)}
<1>1. 0 \in S
  <2>1. Is([i \in 0..0 |-> nodes], 0)
    OBVIOUS
  <2>2. \E at : Is(at, 0)
    BY <2>1
  <2> QED BY <2>2
<1>2. ASSUME NEW m \in S
      PROVE  m + 1 \in S
  <2>1. PICK at : Is(at, m)
    OBVIOUS
  <2> DEFINE longer == [i \in 0..m + 1 |->
                          IF i = m + 1 THEN GoverningBelow(at[m], path[m + 1])
                          ELSE at[i]]
  <2>2. ASSUME NEW i \in 0..m + 1
        PROVE  longer[i] = IF i = 0 THEN nodes
                           ELSE GoverningBelow(longer[i - 1], path[i])
    <3>1. CASE i = m + 1
      BY <3>1
    <3>2. CASE i \in 0..m
      <4>1. at[i] = IF i = 0 THEN nodes
                    ELSE GoverningBelow(at[i - 1], path[i])
        BY <3>2, <2>1
      <4>2. longer[i] = at[i] /\ (i # 0 => longer[i - 1] = at[i - 1])
        BY <3>2
      <4> QED BY <4>1, <4>2, Zenon
    <3> QED BY <3>1, <3>2
  <2>3. Is(longer, m + 1)
    BY <2>2
  <2>4. \E g : Is(g, m + 1)
    BY <2>3
  <2> QED BY <2>4
<1>3. n \in S
  <2> HIDE DEF S
  <2> QED BY <1>1, <1>2, Induct
<1> QED BY <1>3

\* The table of governing nodes, row by row.
LEMMA GovernorsStep ==
  ASSUME NEW nodes, NEW path, Len(path) \in Nat
  PROVE  Governors(nodes, path) =
           [i \in 0..Len(path) |->
              IF i = 0 THEN nodes
              ELSE GoverningBelow(Governors(nodes, path)[i - 1], path[i])]
  BY GovernorsExist DEF Governors

\* The part of a path up to a segment.
Upto(path, i) == [j \in 1..i |-> path[j]]

\* A path up to a segment: nothing at first, one segment more at each, all at last.
LEMMA UptoStep ==
  ASSUME NEW path, IsSequence(path)
  PROVE  /\ Upto(path, 0) = <<>>
         /\ Upto(path, Len(path)) = path
         /\ \A i \in 0..Len(path) - 1 :
              /\ Upto(path, i + 1) = Append(Upto(path, i), path[i + 1])
              /\ Upto(path, i + 1) # <<>>
<1> DEFINE S == ToSet(path)
<1>1. path \in Seq(S)
  BY DEF IsSequence
<1> HIDE DEF S
<1>2. Upto(path, 0) = <<>>
  BY DEF Upto
<1>3. Upto(path, Len(path)) = path
  BY <1>1 DEF Upto
<1>4. ASSUME NEW i \in 0..Len(path) - 1
      PROVE  /\ Upto(path, i + 1) = Append(Upto(path, i), path[i + 1])
             /\ Upto(path, i + 1) # <<>>
  <2>1. /\ Upto(path, i) \in Seq(S) /\ Len(Upto(path, i)) = i
        /\ Upto(path, i + 1) \in Seq(S) /\ Len(Upto(path, i + 1)) = i + 1
        /\ path[i + 1] \in S
    BY <1>1 DEF Upto
  <2>2. \A j \in 1..i + 1 :
          Upto(path, i + 1)[j] = Append(Upto(path, i), path[i + 1])[j]
    BY <2>1 DEF Upto
  <2>3. Append(Upto(path, i), path[i + 1]) \in Seq(S)
        /\ Len(Append(Upto(path, i), path[i + 1])) = i + 1
    BY <2>1
  <2> QED BY <2>1, <2>2, <2>3
<1> QED BY <1>2, <1>3, <1>4

\* Position by position along a path: whatever governs it is walked there.
LEMMA JudgedAlong ==
  ASSUME NEW W, Closed(W), NEW r \in W, r.path = <<>>, <<>> \notin Keys(r.value),
         NEW p \in Path
  PROVE  \A v \in Resolve({r.value}, p) : \A n \in Governing(r.node, p) :
           Judged(W, p, v, n)
<1> DEFINE at    == Trail({r.value}, p)
           rows  == Governors(WithBranches({r.node}), p)
           S == {i \in Nat : i <= Len(p) =>
                   \A v \in at[i], n \in rows[i] : Judged(W, Upto(p, i), v, n)}
<1>1. /\ IsSequence(p) /\ Len(p) \in Nat /\ DOMAIN p = 1..Len(p)
      /\ \A i \in DOMAIN p : p[i][1] \in {"name", "index"} /\ p[i] = <<p[i][1], p[i][2]>>
  BY PathAssumption DEF IsSequence
<1>2. at = [i \in 0..Len(p) |-> IF i = 0 THEN {r.value} ELSE Step(at[i - 1], p[i])]
  <2> DEFINE opt == {r.value}
  <2> HIDE DEF opt
  <2>1. Trail(opt, p) =
          [i \in 0..Len(p) |-> IF i = 0 THEN opt ELSE Step(Trail(opt, p)[i - 1], p[i])]
    BY <1>1, TrailStep
  <2> QED BY <2>1 DEF opt
<1>3. rows = [i \in 0..Len(p) |-> IF i = 0 THEN WithBranches({r.node})
                                 ELSE GoverningBelow(rows[i - 1], p[i])]
  <2> DEFINE nodes == WithBranches({r.node})
  <2> HIDE DEF nodes
  <2>1. Governors(nodes, p) =
          [i \in 0..Len(p) |-> IF i = 0 THEN nodes
             ELSE GoverningBelow(Governors(nodes, p)[i - 1], p[i])]
    BY <1>1, GovernorsStep
  <2> QED BY <2>1 DEF nodes
<1> DEFINE start == WithBranches({r.node})
           here  == {r.value}
<1>4. /\ at[0] = here /\ rows[0] = start
      /\ \A i \in 1..Len(p) : /\ at[i] = Step(at[i - 1], p[i])
                              /\ rows[i] = GoverningBelow(rows[i - 1], p[i])
  <2> HIDE DEF at, rows, start, here
  <2>1. at = [i \in 0..Len(p) |-> IF i = 0 THEN here ELSE Step(at[i - 1], p[i])]
    BY <1>2 DEF here
  <2>2. rows = [i \in 0..Len(p) |-> IF i = 0 THEN start
                                   ELSE GoverningBelow(rows[i - 1], p[i])]
    BY <1>3 DEF start
  <2>3. Len(p) \in Nat
    BY <1>1
  <2>4. \A i \in 0..Len(p) : at[i] = IF i = 0 THEN here ELSE Step(at[i - 1], p[i])
    BY ONLY <2>1
  <2>5. \A i \in 0..Len(p) : rows[i] = IF i = 0 THEN start
                                       ELSE GoverningBelow(rows[i - 1], p[i])
    BY ONLY <2>2
  <2>6. 0 \in 0..Len(p) /\ \A i \in 1..Len(p) : i \in 0..Len(p) /\ i # 0
    BY ONLY <2>3
  <2> QED BY ONLY <2>4, <2>5, <2>6, Zenon
<1> HIDE DEF at, rows, start, here
<1>5. 0 \in S
  <2>1. \A n \in {r.node} : Judged(W, <<>>, r.value, n)
    BY DEF Judged
  <2>2. \A n \in start : Judged(W, <<>>, r.value, n)
    BY <2>1, JudgedWithBranches DEF start
  <2>3. Upto(p, 0) = <<>>
    BY <1>1, UptoStep
  <2> QED BY <2>2, <2>3, <1>4 DEF here
<1>6. ASSUME NEW i \in Nat, i \in S
      PROVE  i + 1 \in S
  <2> SUFFICES ASSUME i + 1 <= Len(p), NEW v \in at[i + 1]
               PROVE  \A n \in rows[i + 1] : Judged(W, Upto(p, i + 1), v, n)
    OBVIOUS
  <2> DEFINE segment == p[i + 1]
             below   == UNION {NodesBelow(n, segment) : n \in rows[i]}
  <2>1. i + 1 \in 1..Len(p) /\ (i + 1) - 1 = i /\ i \in 0..Len(p) - 1 /\ i <= Len(p)
    BY <1>1
  <2>2. at[i + 1] = Step(at[i], segment) /\ rows[i + 1] = GoverningBelow(rows[i], segment)
    BY <1>4, <2>1
  <2>3. /\ Upto(p, i + 1) = Append(Upto(p, i), segment)
        /\ Upto(p, i) = <<>> => i = 0
    <3>1. Upto(p, i + 1) = Append(Upto(p, i), segment)
      BY <1>1, <2>1, UptoStep
    <3>2. ASSUME i # 0
          PROVE  Upto(p, i) # <<>>
      <4>1. i - 1 \in 0..Len(p) - 1 /\ (i - 1) + 1 = i
        BY <2>1, <3>2
      <4>2. Upto(p, (i - 1) + 1) # <<>>
        BY <1>1, <4>1, UptoStep
      <4> QED BY ONLY <4>1, <4>2
    <3> QED BY <3>1, <3>2
  <2>4. /\ segment[1] = "name" \/ segment[1] = "index"
        /\ segment = <<segment[1], segment[2]>>
    BY <1>1, <2>1
  <2>5. \A w \in at[i], n \in rows[i] : Judged(W, Upto(p, i), w, n)
    BY <1>6, <2>1
  <2> HIDE DEF segment
  <2>6. PICK w \in at[i] : v \in Step({w}, segment)
    BY <2>2 DEF Step, FieldOf, ItemOf
  <2>7. ASSUME NEW n \in below
        PROVE  Judged(W, Upto(p, i + 1), v, n)
    <3>1. PICK m \in rows[i] : n \in NodesBelow(m, segment)
      OBVIOUS
    <3>2. PICK f \in W : f.path = Upto(p, i) /\ f.value = w /\ f.node = m
      BY <2>5, <2>6, <3>1 DEF Judged
    <3>3. Nameable(f)
      BY <2>3, <3>2, <2>6, <1>4 DEF Nameable, here
    <3>4. v \in Step({f.value}, segment) /\ n \in NodesBelow(f.node, segment)
      BY <2>6, <3>1, <3>2
    <3>5. Judged(W, Append(f.path, segment), v, n)
      <4> DEFINE place == {f.value}
      <4>1. (\A u \in place : u = f.value) /\ v \in Step(place, segment)
        BY <3>4
      <4> HIDE DEF place
      <4> QED BY <2>4, <3>3, <3>4, <4>1, JudgedBelow
    <3> QED BY <2>3, <3>2, <3>5
  <2> HIDE DEF below
  <2>8. \A n \in WithBranches(below) : Judged(W, Upto(p, i + 1), v, n)
    BY <2>7, JudgedWithBranches
  <2>9. GoverningBelow(rows[i], segment) = WithBranches(below)
    BY DEF GoverningBelow, below
  <2> QED BY <2>2, <2>8, <2>9
<1>7. Len(p) \in S
  <2> HIDE DEF S
  <2> QED BY <1>1, <1>5, <1>6, Induct
<1>8. Upto(p, Len(p)) = p
  BY <1>1, UptoStep
<1> QED BY <1>1, <1>7, <1>8 DEF Resolve, Governing, at, rows

\* No position escapes either walk of the code: once a call has answered and no
\* subtree was refused for its depth, every schema node that governs a position
\* of the defaulted object, reached by whatever properties, items, map schema
\* and junctors, was walked at that position with the value found there (the
\* four loops of walk_schema and walk_compiled).
THEOREM JudgesEveryPosition ==
  ASSUME WalkOfTheCode
  PROVE  Spec => []EveryPositionJudged
<1>1. PInv => EveryPositionJudged
  <2> SUFFICES ASSUME PInv, verdict # "running", PathsNamePlaces,
                      \A i \in DOMAIN errors : errors[i].kind # "SchemaTooDeep",
                      NEW p \in Path, NEW v \in Resolve({RootFrame(call).value}, p),
                      NEW n \in Governing(call.schema, p)
               PROVE  \E f \in answered : f.path = p /\ f.value = v /\ f.node = n
    BY DEF EveryPositionJudged
  <2> DEFINE r == RootFrame(call)
  <2>1. stage = "return" /\ frames = <<>> /\ call \in Call /\ answered \subseteq Frame
    BY DEF PInv, IInv, Settled, TypeOK
  <2>2. Scheduled = answered
    BY <2>1 DEF Scheduled, ToSet
  <2>3. r \in answered
    BY <2>1, <2>2 DEF PInv, IInv, RootScheduled
  <2>4. \A f \in answered : ~TooDeep(f)
    <3> SUFFICES ASSUME NEW f \in answered, TooDeep(f)
                 PROVE  FALSE
      OBVIOUS
    <3>1. SchemaTooDeepError(f.path) \in ToSet(errors)
      BY DEF PInv, ReportInv, ReportedSoFar
    <3>2. SchemaTooDeepError(f.path).kind = "SchemaTooDeep"
      BY DEF SchemaTooDeepError, ErrorAt
    <3> QED BY <3>1, <3>2 DEF ToSet
  <2>5. Closed(answered)
    <3> SUFFICES ASSUME NEW f \in answered
                 PROVE  IsFrame(f) /\ ChildrenOf(f) \subseteq answered
      BY DEF Closed
    <3>1. f \in Frame /\ ~TooDeep(f)
      BY <2>1, <2>4
    <3>2. ChildSet(f) \subseteq answered
      BY <2>1, <2>2, <3>1 DEF PInv, IInv, ChildrenScheduled, Current
    <3> QED BY <3>1, <3>2, ChildrenOfWalk, WalkAssumption
  <2>6. r.path = <<>> /\ r.node = call.schema /\ <<>> \notin Keys(r.value)
    BY <2>1, WalkAssumption DEF PathsNamePlaces
  <2>7. Judged(answered, p, v, n)
    BY <2>3, <2>5, <2>6, JudgedAlong
  <2> QED BY <2>7 DEF Judged
<1> QED BY <1>1, AlwaysPromising, PTL

---------------------------------------------------------------------------
\* What may stand in a filled document where v stands in the given one, d calls
\* down, when the nodes govern there: v itself, or what a call answered for v.
Standing(schema, given, d, nodes, v, w) ==
  \/ w = v
  \/ /\ d \in 0..MaxDepth + 1
     /\ \E s \in nodes :
          /\ <<s, v>> \in CallsAt(schema, given)[d]
          /\ w = AnswersAt(schema, given)[MaxDepth + 1 - d][<<s, v>>]

\* What stands for a value in the answer of a call is given by the call below.
LEMMA AnswerStands ==
  ASSUME NEW schema, NEW given, NEW d \in 0..MaxDepth, NEW nodes, NEW v, NEW schemas,
         schemas \subseteq nodes,
         schemas \X {v} \subseteq CallsAt(schema, given)[d + 1]
  PROVE  Standing(schema, given, d + 1, nodes, v,
           AnswerFor(schemas, v, AnswersAt(schema, given)[MaxDepth - d]))
<1> DEFINE w == AnswerFor(schemas, v, AnswersAt(schema, given)[MaxDepth - d])
<1>1. CASE schemas = {}
  BY <1>1 DEF AnswerFor, Standing
<1>2. CASE schemas # {}
  <2> DEFINE s == CHOOSE s \in schemas : TRUE
  <2>1. s \in schemas
    BY <1>2
  <2>2. <<s, v>> \in CallsAt(schema, given)[d + 1]
    BY <2>1
  <2>3. MaxDepth + 1 - (d + 1) = MaxDepth - d /\ d + 1 \in 0..MaxDepth + 1
    BY DepthAssumption
  <2>4. w = AnswersAt(schema, given)[MaxDepth + 1 - (d + 1)][<<s, v>>]
    BY <1>2, <2>3, Zenon DEF AnswerFor
  <2> HIDE DEF s, w
  <2>5. s \in nodes
    BY <2>1
  <2> QED BY <2>2, <2>3, <2>4, <2>5, Zenon DEF Standing, w
<1> QED BY <1>1, <1>2

\* One call: the value's kind and indices stay, what it had is answered by the
\* calls below, and a field it lacked has the declared default.
LEMMA CallFills ==
  ASSUME NEW s, NEW v, NEW answer
  PROVE  LET w == ApplyDefaultsInner(s, v, answer) IN
         /\ IsObject(v) =>
              /\ IsObject(w)
              /\ Keys(v) \subseteq Keys(w)
              /\ \A k \in Keys(v) :
                   w.fields[k] = AnswerFor(SchemaOfField(s, k), v.fields[k], answer)
              /\ \A k \in Keys(w) \ Keys(v) :
                   k \in DOMAIN s.properties /\ w.fields[k] \in s.properties[k].default
         /\ IsArray(v) =>
              /\ IsArray(w) /\ DOMAIN w.elems = DOMAIN v.elems
              /\ \A i \in DOMAIN v.elems :
                   w.elems[i] = AnswerFor(s.items, v.elems[i], answer)
         /\ ~IsObject(v) /\ ~IsArray(v) => w = v
<1> DEFINE w == ApplyDefaultsInner(s, v, answer)
<1>1. CASE IsObject(v)
  <2> DEFINE had == [k \in Keys(v) |->
                       AnswerFor(SchemaOfField(s, k), v.fields[k], answer)]
             has == FillMissing(had, s.properties)
  <2>1. w = Object(has)
    BY <1>1 DEF ApplyDefaultsInner
  <2>2. DOMAIN had = Keys(v)
    OBVIOUS
  <2>3. \A k \in Keys(v) :
          had[k] = AnswerFor(SchemaOfField(s, k), v.fields[k], answer)
    OBVIOUS
  <2> HIDE DEF had, w
  <2>4. /\ DOMAIN had \subseteq DOMAIN has
        /\ \A k \in DOMAIN had : has[k] = had[k]
        /\ \A k \in DOMAIN has \ DOMAIN had :
             k \in DOMAIN s.properties /\ has[k] \in s.properties[k].default
    BY DEF FillMissing
  <2> HIDE DEF has
  <2>5. IsObject(w) /\ Keys(w) = DOMAIN has /\ w.fields = has
    BY <2>1 DEF Object, IsObject, Keys
  <2>6. ~IsArray(v)
    BY <1>1 DEF IsObject, IsArray
  <2> QED BY <1>1, <2>2, <2>3, <2>4, <2>5, <2>6 DEF w
<1>2. CASE IsArray(v)
  BY <1>2 DEF IsObject, IsArray, ApplyDefaultsInner, Array
<1>3. CASE ~IsObject(v) /\ ~IsArray(v)
  BY <1>3 DEF ApplyDefaultsInner
<1> QED BY <1>1, <1>2, <1>3

\* What stands in another value's place was answered by a call before the cap.
LEMMA StandsByCall ==
  ASSUME NEW schema, NEW given, NEW d \in Nat, NEW nodes, NEW v, NEW w,
         Standing(schema, given, d, nodes, v, w), w # v
  PROVE  /\ d \in 0..MaxDepth
         /\ \E s \in nodes :
              /\ w = ApplyDefaultsInner(s, v, AnswersAt(schema, given)[MaxDepth - d])
              /\ CallsBelow(s, v) \subseteq CallsAt(schema, given)[d + 1]
<1>1. d \in 0..MaxDepth + 1
  BY DEF Standing
<1>2. PICK s \in nodes : /\ <<s, v>> \in CallsAt(schema, given)[d]
                         /\ w = AnswersAt(schema, given)[MaxDepth + 1 - d][<<s, v>>]
  BY DEF Standing
<1> DEFINE c == <<s, v>>
<1>3. c[1] = s /\ c[2] = v
  OBVIOUS
<1> HIDE DEF c
<1>4. AnswersAt(schema, given)[MaxDepth + 1 - d][c] =
        IF d = MaxDepth + 1 THEN c[2]
        ELSE ApplyDefaultsInner(c[1], c[2], AnswersAt(schema, given)[MaxDepth - d])
  BY <1>1, <1>2, AnswersStep DEF c
<1>5. d # MaxDepth + 1
  BY <1>2, <1>3, <1>4 DEF c
<1>6. d \in 0..MaxDepth
  BY <1>1, <1>5, DepthAssumption
<1>7. CallsBelow(c[1], c[2]) \subseteq CallsAt(schema, given)[d + 1]
  BY <1>2, <1>6, CallsStep DEF c
<1>8. w = ApplyDefaultsInner(s, v, AnswersAt(schema, given)[MaxDepth - d])
  BY <1>2, <1>3, <1>4, <1>5, Zenon DEF c
<1> QED BY <1>3, <1>6, <1>7, <1>8

\* It is of the same kind and has the same indices.
LEMMA KindStands ==
  ASSUME NEW schema, NEW given, NEW d \in Nat, NEW nodes, NEW v, NEW w,
         Standing(schema, given, d, nodes, v, w)
  PROVE  IF IsObject(v) THEN IsObject(w)
         ELSE IF IsArray(v) THEN IsArray(w) /\ DOMAIN w.elems = DOMAIN v.elems
         ELSE w = v
<1>1. CASE w = v
  BY <1>1
<1>2. CASE w # v
  <2>1. PICK s \in nodes :
          w = ApplyDefaultsInner(s, v, AnswersAt(schema, given)[MaxDepth - d])
    BY <1>2, StandsByCall
  <2> QED BY <2>1, CallFills
<1> QED BY <1>1, <1>2

\* A place of both documents: where the given one has a value, the filled one has
\* one that may stand for it.
Place(schema, given, d, nodes, here, there) ==
  \A v \in here :
    /\ here = {v}
    /\ \E w : there = {w} /\ Standing(schema, given, d, nodes, v, w)

\* The nodes below some nodes, and defaults that nodes declare.
LieBelow(nodes, segment, below) == \A n \in nodes : NodesBelow(n, segment) \subseteq below
AreDefaults(values, nodes)      == \A x \in values : \E n \in nodes : x \in n.default

IsSegment(segment) == segment[1] = "name" \/ segment[1] = "index"

\* Whatever a value holds one segment further down, something that may stand for it
\* stands in the filled document, and where it holds nothing, at most a default of
\* a node that governs there.
LEMMA FilledInside ==
  ASSUME NEW schema, NEW given, NEW d \in Nat, NEW nodes, NEW below, NEW v, NEW w,
         Standing(schema, given, d, nodes, v, w),
         NEW segment, IsSegment(segment), LieBelow(nodes, segment, below),
         NEW here, v \in here, \A u \in here : u = v,
         NEW there, w \in there, \A x \in there : x = w
  PROVE  /\ Place(schema, given, d + 1, below, Step(here, segment), Step(there, segment))
         /\ Step(here, segment) = {} => AreDefaults(Step(there, segment), below)
<1> USE DEF IsSegment, LieBelow
<1> SUFFICES /\ \A u \in Step(here, segment) :
                  /\ Step(here, segment) = {u}
                  /\ \E x : /\ Step(there, segment) = {x}
                            /\ Standing(schema, given, d + 1, below, u, x)
             /\ Step(here, segment) = {} =>
                  \A x \in Step(there, segment) : \E n \in below : x \in n.default
  BY DEF Place, AreDefaults
<1>1. CASE w = v
  BY <1>1 DEF Standing, Step, FieldOf, ItemOf
<1>2. CASE w # v
  <2> DEFINE answer == AnswersAt(schema, given)[MaxDepth - d]
  <2>1. PICK s \in nodes : /\ w = ApplyDefaultsInner(s, v, answer)
                           /\ CallsBelow(s, v) \subseteq CallsAt(schema, given)[d + 1]
    BY <1>2, StandsByCall
  <2>2. d \in 0..MaxDepth
    BY <1>2, StandsByCall
  <2>3. NodesBelow(s, segment) \subseteq below
    OBVIOUS
  <2>4. ASSUME NEW schemas, schemas \subseteq below, NEW u,
               schemas \X {u} \subseteq CallsBelow(s, v)
        PROVE  Standing(schema, given, d + 1, below, u, AnswerFor(schemas, u, answer))
    <3>1. schemas \X {u} \subseteq CallsAt(schema, given)[d + 1]
      BY <2>1, <2>4
    <3> QED BY <2>2, <2>4, <3>1, AnswerStands
  <2> HIDE DEF answer
  <2> DEFINE k == segment[2]
  <2>5. CASE IsObject(v)
    <3>1. /\ IsObject(w) /\ Keys(v) \subseteq Keys(w)
          /\ \A f \in Keys(v) :
               w.fields[f] = AnswerFor(SchemaOfField(s, f), v.fields[f], answer)
          /\ \A f \in Keys(w) \ Keys(v) :
               f \in DOMAIN s.properties /\ w.fields[f] \in s.properties[f].default
      BY <2>1, <2>5, CallFills
    <3>2. ~IsArray(v) /\ ~IsArray(w)
      BY <2>5, <3>1 DEF IsObject, IsArray
    <3>3. CASE segment[1] = "index"
      BY <2>5, <3>1, <3>2, <3>3 DEF Step, ItemOf
    <3>4. CASE segment[1] = "name" /\ k \in Keys(v)
      <4>1. Step(here, segment) = {v.fields[k]} /\ Step(there, segment) = {w.fields[k]}
        BY <3>1, <3>4 DEF Step, FieldOf
      <4>2. SchemaOfField(s, k) \subseteq below
        BY <2>3, <3>4 DEF SchemaOfField, NodesBelow
      <4>3. SchemaOfField(s, k) \X {v.fields[k]} \subseteq CallsBelow(s, v)
        BY <2>5, <3>4 DEF CallsBelow
      <4>4. Standing(schema, given, d + 1, below, v.fields[k], w.fields[k])
        BY <2>4, <3>1, <3>4, <4>2, <4>3
      <4> QED BY <2>5, <3>1, <4>1, <4>4
    <3>5. CASE segment[1] = "name" /\ k \notin Keys(v)
      <4>1. Step(here, segment) = {}
        BY <3>5 DEF Step, FieldOf
      <4>2. ASSUME NEW x \in Step(there, segment)
            PROVE  \E n \in below : x \in n.default
        <5>1. k \in Keys(w) /\ x = w.fields[k]
          BY <3>5 DEF Step, FieldOf
        <5>2. k \in DOMAIN s.properties /\ x \in s.properties[k].default
          BY <3>1, <3>5, <5>1
        <5>3. s.properties[k] \in below
          BY <2>3, <3>5, <5>2 DEF NodesBelow
        <5> QED BY <5>2, <5>3
      <4> QED BY <2>5, <3>1, <4>1, <4>2
    <3> QED BY <3>3, <3>4, <3>5
  <2>6. CASE IsArray(v)
    <3>1. /\ IsArray(w) /\ DOMAIN w.elems = DOMAIN v.elems
          /\ \A i \in DOMAIN v.elems :
               w.elems[i] = AnswerFor(s.items, v.elems[i], answer)
      BY <2>1, <2>6, CallFills
    <3>2. ~IsObject(v) /\ ~IsObject(w)
      BY <2>6, <3>1 DEF IsObject, IsArray
    <3>3. CASE segment[1] = "name"
      BY <2>6, <3>1, <3>2, <3>3 DEF Step, FieldOf, Keys
    <3>4. CASE segment[1] = "index" /\ k \in DOMAIN v.elems
      <4>1. Step(here, segment) = {v.elems[k]} /\ Step(there, segment) = {w.elems[k]}
        BY <2>6, <3>1, <3>4 DEF Step, ItemOf
      <4>2. s.items \subseteq below
        BY <2>3, <3>4 DEF NodesBelow
      <4>3. s.items \X {v.elems[k]} \subseteq CallsBelow(s, v)
        BY <2>6, <3>2, <3>4 DEF CallsBelow
      <4>4. Standing(schema, given, d + 1, below, v.elems[k], w.elems[k])
        BY <2>4, <3>1, <3>4, <4>2, <4>3
      <4> QED BY <2>6, <3>1, <3>2, <4>1, <4>4
    <3>5. CASE segment[1] = "index" /\ k \notin DOMAIN v.elems
      BY <2>6, <3>1, <3>2, <3>5 DEF Step, ItemOf
    <3> QED BY <3>3, <3>4, <3>5
  <2>7. CASE ~IsObject(v) /\ ~IsArray(v)
    BY <1>2, <2>1, <2>7, CallFills
  <2> QED BY <2>5, <2>6, <2>7
<1> QED BY <1>1, <1>2

\* Nodes are among those that govern with their branches.
LEMMA NodesGovern ==
  ASSUME NEW nodes
  PROVE  nodes \subseteq WithBranches(nodes)
<1> DEFINE upTo == CHOOSE at : at = [i \in 0..MaxDepth |->
                      IF i = 0 THEN nodes ELSE AndBranches(at[i - 1])]
           S == {i \in Nat : i <= MaxDepth => nodes \subseteq upTo[i]}
<1>1. upTo = [i \in 0..MaxDepth |->
                IF i = 0 THEN nodes ELSE AndBranches(upTo[i - 1])]
  <2>1. MaxDepth \in Nat
    BY DepthAssumption
  <2>2. \E at : at = [i \in 0..MaxDepth |->
                      IF i = 0 THEN nodes ELSE AndBranches(at[i - 1])]
    BY ONLY <2>1, NestingExists
  <2> QED BY ONLY <2>2, Zenon
<1>2. WithBranches(nodes) = upTo[MaxDepth]
  BY DEF WithBranches
<1> HIDE DEF upTo
<1>3. 0 \in S
  BY <1>1, DepthAssumption
<1>4. ASSUME NEW i \in Nat, i \in S
      PROVE  i + 1 \in S
  <2> SUFFICES ASSUME i + 1 <= MaxDepth
               PROVE  nodes \subseteq upTo[i + 1]
    OBVIOUS
  <2>1. upTo[i + 1] = AndBranches(upTo[i])
    <3>1. i + 1 \in 0..MaxDepth /\ i + 1 # 0 /\ (i + 1) - 1 = i
      BY DepthAssumption
    <3>2. upTo[i + 1] = IF i + 1 = 0 THEN nodes
                        ELSE AndBranches(upTo[(i + 1) - 1])
      BY ONLY <1>1, <3>1
    <3> QED BY ONLY <3>1, <3>2
  <2>2. nodes \subseteq upTo[i]
    BY <1>4, DepthAssumption
  <2> QED BY <2>1, <2>2 DEF AndBranches
<1>5. MaxDepth \in S
  <2> HIDE DEF S
  <2> QED BY <1>3, <1>4, Induct, DepthAssumption
<1> QED BY <1>2, <1>5, DepthAssumption

\* What lies below a node governs below it.
LEMMA BelowGoverns ==
  ASSUME NEW nodes, NEW segment
  PROVE  LieBelow(nodes, segment, GoverningBelow(nodes, segment))
<1> DEFINE all == UNION {NodesBelow(n, segment) : n \in nodes}
<1>1. \A n \in nodes : NodesBelow(n, segment) \subseteq all
  OBVIOUS
<1>2. GoverningBelow(nodes, segment) = WithBranches(all)
  BY DEF GoverningBelow
<1> HIDE DEF all
<1>3. all \subseteq WithBranches(all)
  BY NodesGovern
<1> QED BY <1>1, <1>2, <1>3 DEF LieBelow

\* So a place of both is one a segment further down, with the nodes that govern
\* there.
LEMMA FilledBelow ==
  ASSUME NEW schema, NEW given, NEW d \in Nat, NEW nodes, NEW here, NEW there,
         Place(schema, given, d, nodes, here, there),
         NEW segment, IsSegment(segment)
  PROVE  /\ Place(schema, given, d + 1, GoverningBelow(nodes, segment),
                  Step(here, segment), Step(there, segment))
         /\ here # {} /\ Step(here, segment) = {} =>
              AreDefaults(Step(there, segment), GoverningBelow(nodes, segment))
<1> DEFINE below == GoverningBelow(nodes, segment)
<1>1. LieBelow(nodes, segment, below)
  BY BelowGoverns
<1> HIDE DEF below
<1>2. CASE here = {}
  <2>1. Step(here, segment) = {}
    BY <1>2 DEF Step, FieldOf, ItemOf
  <2> QED BY <1>2, <2>1 DEF Place
<1>3. CASE here # {}
  <2>1. PICK v, w : here = {v} /\ there = {w} /\ Standing(schema, given, d, nodes, v, w)
    BY <1>3 DEF Place
  <2>2. /\ v \in here /\ (\A u \in here : u = v)
        /\ w \in there /\ (\A x \in there : x = w)
    BY <2>1
  <2>3. Standing(schema, given, d, nodes, v, w)
    BY <2>1
  <2>4. /\ Place(schema, given, d + 1, below, Step(here, segment), Step(there, segment))
        /\ Step(here, segment) = {} => AreDefaults(Step(there, segment), below)
    BY <1>1, <2>2, <2>3, FilledInside
  <2> QED BY <2>4 DEF below
<1> QED BY <1>2, <1>3

---------------------------------------------------------------------------
\* The segments of a path.
IsPath(p) ==
  /\ IsSequence(p)
  /\ \A i \in DOMAIN p : IsSegment(p[i])

\* Row by row: a trail, and the nodes that govern along a path.
LEMMA TrailRows ==
  ASSUME NEW opt, NEW p, Len(p) \in Nat
  PROVE  /\ Trail(opt, p)[0] = opt
         /\ \A i \in 0..Len(p) - 1 : Trail(opt, p)[i + 1] = Step(Trail(opt, p)[i], p[i + 1])
<1> DEFINE at == Trail(opt, p)
<1>1. at = [i \in 0..Len(p) |-> IF i = 0 THEN opt ELSE Step(at[i - 1], p[i])]
  BY TrailStep
<1> HIDE DEF at
<1>2. at[0] = opt
  BY <1>1
<1>3. ASSUME NEW i \in 0..Len(p) - 1
      PROVE  at[i + 1] = Step(at[i], p[i + 1])
  <2>1. i + 1 \in 0..Len(p) /\ i + 1 # 0 /\ (i + 1) - 1 = i
    OBVIOUS
  <2>2. at[i + 1] = IF i + 1 = 0 THEN opt ELSE Step(at[(i + 1) - 1], p[i + 1])
    BY ONLY <1>1, <2>1
  <2> QED BY ONLY <2>1, <2>2, Zenon
<1> QED BY <1>2, <1>3 DEF at

\* (The rows of the table.)
LEMMA GovernorRows ==
  ASSUME NEW nodes, NEW p, Len(p) \in Nat
  PROVE  /\ Governors(nodes, p)[0] = nodes
         /\ \A i \in 0..Len(p) - 1 :
              Governors(nodes, p)[i + 1] = GoverningBelow(Governors(nodes, p)[i], p[i + 1])
<1> DEFINE at == Governors(nodes, p)
<1>1. at = [i \in 0..Len(p) |-> IF i = 0 THEN nodes ELSE GoverningBelow(at[i - 1], p[i])]
  BY GovernorsStep
<1> HIDE DEF at
<1>2. at[0] = nodes
  BY <1>1
<1>3. ASSUME NEW i \in 0..Len(p) - 1
      PROVE  at[i + 1] = GoverningBelow(at[i], p[i + 1])
  <2>1. i + 1 \in 0..Len(p) /\ i + 1 # 0 /\ (i + 1) - 1 = i
    OBVIOUS
  <2>2. at[i + 1] = IF i + 1 = 0 THEN nodes ELSE GoverningBelow(at[(i + 1) - 1], p[i + 1])
    BY ONLY <1>1, <2>1
  <2> QED BY ONLY <2>1, <2>2, Zenon
<1> QED BY <1>2, <1>3 DEF at

\* All along a path the two documents have such a place.
LEMMA FilledAlong ==
  ASSUME NEW schema, NEW given, NEW p, IsPath(p)
  PROVE  \A i \in 0..Len(p) :
           Place(schema, given, i, Governors(WithBranches({schema}), p)[i],
                 Trail({given}, p)[i], Trail({ApplyDefaults(schema, given)}, p)[i])
<1> DEFINE start == {given}
           fills == {ApplyDefaults(schema, given)}
           first == WithBranches({schema})
           here  == Trail(start, p)
           there == Trail(fills, p)
           rows  == Governors(first, p)
           At(i) == Place(schema, given, i, rows[i], here[i], there[i])
           S == {i \in Nat : i <= Len(p) => At(i)}
<1>1. /\ Len(p) \in Nat /\ DOMAIN p = 1..Len(p)
      /\ \A i \in DOMAIN p : IsSegment(p[i])
  BY DEF IsPath, IsSequence
<1>2. /\ here[0] = start /\ there[0] = fills /\ rows[0] = first
      /\ \A i \in 0..Len(p) - 1 :
           /\ here[i + 1] = Step(here[i], p[i + 1])
           /\ there[i + 1] = Step(there[i], p[i + 1])
           /\ rows[i + 1] = GoverningBelow(rows[i], p[i + 1])
  <2> HIDE DEF start, fills, first
  <2> QED BY <1>1, TrailRows, GovernorRows
<1> HIDE DEF here, there, rows
<1>3. 0 \in S
  <2> DEFINE c == <<schema, given>>
  <2>1. c \in CallsAt(schema, given)[0]
    BY CallsStep
  <2>2. ApplyDefaults(schema, given) = AnswersAt(schema, given)[MaxDepth + 1 - 0][c]
    <3>1. MaxDepth + 1 - 0 = MaxDepth + 1
      BY DepthAssumption
    <3> QED BY <3>1, Zenon DEF ApplyDefaults
  <2>3. schema \in first
    BY NodesGovern
  <2> HIDE DEF first
  <2>4. 0 \in 0..MaxDepth + 1
    BY DepthAssumption
  <2>5. Standing(schema, given, 0, first, given, ApplyDefaults(schema, given))
    BY <2>1, <2>2, <2>3, <2>4, Zenon DEF Standing
  <2> QED BY <2>5, <1>2 DEF Place
<1>4. ASSUME NEW i \in Nat, i \in S
      PROVE  i + 1 \in S
  <2> SUFFICES ASSUME i + 1 <= Len(p)
               PROVE  At(i + 1)
    OBVIOUS
  <2> DEFINE segment == p[i + 1]
             nodes   == rows[i]
             a       == here[i]
             b       == there[i]
  <2>1. i \in 0..Len(p) - 1 /\ i + 1 \in 1..Len(p) /\ i <= Len(p)
    BY <1>1
  <2>2. IsSegment(segment)
    BY <1>1, <2>1
  <2>3. Place(schema, given, i, nodes, a, b)
    BY <1>4, <2>1
  <2>4. At(i + 1) <=> Place(schema, given, i + 1, GoverningBelow(nodes, segment),
                            Step(a, segment), Step(b, segment))
    BY <1>2, <2>1
  <2> HIDE DEF segment, nodes, a, b, At
  <2> QED BY <2>2, <2>3, <2>4, FilledBelow
<1>5. \A i \in Nat : i \in S
  <2> HIDE DEF S
  <2> QED BY <1>3, <1>4, Induct
<1>6. \A i \in 0..Len(p) : At(i)
  BY <1>1, <1>5
<1> QED BY <1>6 DEF here, there, rows

\* A document defaulted is a document filled in.
LEMMA DefaultsFill ==
  ASSUME NEW schema, NEW given
  PROVE  OnlyFilled(schema, given, ApplyDefaults(schema, given))
<1> SUFFICES ASSUME NEW p \in Path
             PROVE  /\ \A v \in Resolve({given}, p) :
                         \E w \in Resolve({ApplyDefaults(schema, given)}, p) :
                           IF IsObject(v) THEN IsObject(w)
                           ELSE IF IsArray(v)
                           THEN IsArray(w) /\ DOMAIN w.elems = DOMAIN v.elems
                           ELSE w = v
                    /\ Resolve({given}, p) = {} /\ Resolve({given}, Front(p)) # {} =>
                         \A w \in Resolve({ApplyDefaults(schema, given)}, p) :
                           \E n \in Governing(schema, p) : w \in n.default
  BY DEF OnlyFilled
<1> DEFINE start == {given}
           fills == {ApplyDefaults(schema, given)}
           here  == Trail(start, p)
           there == Trail(fills, p)
           rows  == Governors(WithBranches({schema}), p)
           n     == Len(p)
<1>1. IsPath(p) /\ IsSequence(p) /\ n \in Nat
  BY PathAssumption DEF IsPath, IsSequence, IsSegment
<1>2. \A i \in 0..n : Place(schema, given, i, rows[i], here[i], there[i])
  BY <1>1, FilledAlong
<1>3. /\ Resolve(start, p) = here[n] /\ Resolve(fills, p) = there[n]
      /\ Governing(schema, p) = rows[n]
  BY DEF Resolve, Governing
<1>4. ASSUME NEW v \in Resolve(start, p)
      PROVE  \E w \in Resolve(fills, p) :
               IF IsObject(v) THEN IsObject(w)
               ELSE IF IsArray(v) THEN IsArray(w) /\ DOMAIN w.elems = DOMAIN v.elems
               ELSE w = v
  <2> DEFINE nodes == rows[n]
  <2> HIDE DEF here, there, nodes
  <2>1. n \in 0..n
    BY <1>1
  <2>2. PICK w : there[n] = {w} /\ Standing(schema, given, n, nodes, v, w)
    BY <1>2, <1>3, <2>1 DEF Place, nodes
  <2>3. w \in Resolve(fills, p)
    BY <1>3, <2>2
  <2> HIDE DEF n
  <2>4. IF IsObject(v) THEN IsObject(w)
        ELSE IF IsArray(v) THEN IsArray(w) /\ DOMAIN w.elems = DOMAIN v.elems
        ELSE w = v
    BY <1>1, <2>2, KindStands
  <2> QED BY <2>3, <2>4
<1>5. ASSUME Resolve(start, p) = {}, Resolve(start, Front(p)) # {},
             NEW x \in Resolve(fills, p)
      PROVE  \E m \in Governing(schema, p) : x \in m.default
  <2> DEFINE q       == Upto(p, n - 1)
             d       == n - 1
             segment == p[n]
             nodes   == rows[d]
             a       == here[d]
             b       == there[d]
  <2>1. n # 0
    <3>1. here[0] = start
      <4> HIDE DEF start
      <4> QED BY <1>1, TrailRows
    <3> QED BY <1>3, <1>5, <3>1
  <2>2. d \in Nat /\ d \in 0..n /\ d \in 0..n - 1 /\ d + 1 = n /\ n \in 1..n
    BY <1>1, <2>1
  <2>3. /\ here[n] = Step(a, segment) /\ there[n] = Step(b, segment)
        /\ rows[n] = GoverningBelow(nodes, segment)
    <3> DEFINE first == WithBranches({schema})
    <3> HIDE DEF start, fills, first, d
    <3>1. /\ here[d + 1] = Step(here[d], p[d + 1])
          /\ there[d + 1] = Step(there[d], p[d + 1])
          /\ Governors(first, p)[d + 1] = GoverningBelow(Governors(first, p)[d], p[d + 1])
      BY <1>1, <2>2, TrailRows, GovernorRows
    <3> QED BY ONLY <2>2, <3>1 DEF first
  <2>4. a = Resolve(start, Front(p))
    <3> DEFINE S == ToSet(p)
    <3>1. p \in Seq(S)
      BY <1>1 DEF IsSequence
    <3>2. q = Front(p) /\ q \in Seq(S) /\ Len(q) = d
      BY <2>2, <3>1 DEF Upto, Front
    <3>3. p = Append(q, segment)
      <4>1. Upto(p, d + 1) = Append(Upto(p, d), p[d + 1])
        BY <1>1, <2>2, UptoStep
      <4>2. Upto(p, n) = p
        BY <1>1, UptoStep
      <4> QED BY ONLY <2>2, <4>1, <4>2
    <3> HIDE DEF S, q, start, segment
    <3>4. Trail(start, Append(q, segment))[Len(q)] = Resolve(start, q)
      BY <3>2, TrailAppend
    <3> QED BY ONLY <3>2, <3>3, <3>4
  <2>5. IsSegment(segment)
    BY <1>1, <2>2 DEF IsPath, IsSequence
  <2>6. Place(schema, given, d, nodes, a, b)
    BY <1>2, <2>2
  <2> HIDE DEF here, there, rows, nodes, a, b, segment, d
  <2>7. AreDefaults(Step(b, segment), GoverningBelow(nodes, segment))
    <3>1. a # {} /\ Step(a, segment) = {}
      BY <1>3, <1>5, <2>3, <2>4
    <3>2. d \in Nat
      BY <2>2
    <3> QED BY ONLY <2>5, <2>6, <3>1, <3>2, FilledBelow
  <2> QED BY <1>3, <2>3, <2>7 DEF AreDefaults
<1> QED BY <1>4, <1>5

\* Defaulting only fills gaps, in the object and in the old object of every
\* call, whichever copy of the code does it: nothing that was given is dropped,
\* replaced or moved, and whatever is new is a default that the schema declares
\* there (the contains_key test and the recursion of apply_defaults_inner and
\* apply_defaults_compiled_inner).
THEOREM DefaultsFillOnly ==
  ASSUME \A c \in Call : \/ RootFrame(c) = RawRootFrame(c)
                         \/ RootFrame(c) = CompiledRootFrame(c)
  PROVE  Spec => []DefaultsOnlyFill
<1>1. TypeOK => DefaultsOnlyFill
  <2> SUFFICES ASSUME call \in Call
               PROVE  /\ OnlyFilled(call.schema, call.object, RootFrame(call).value)
                      /\ \A old \in call.old : \E filled \in RootFrame(call).old :
                           OnlyFilled(call.schema, old, filled)
    BY DEF TypeOK, DefaultsOnlyFill
  <2>1. /\ RootFrame(call).value = ApplyDefaults(call.schema, call.object)
        /\ RootFrame(call).old = {ApplyDefaults(call.schema, o) : o \in call.old}
    BY DEF RawRootFrame, CompiledRootFrame, ApplyDefaultsCompiled
  <2> QED BY <2>1, DefaultsFill
<1> QED BY <1>1, TypeCorrect, PTL
=============================================================================
