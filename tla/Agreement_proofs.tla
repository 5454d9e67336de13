--------------------------- MODULE Agreement_proofs ---------------------------
(***************************************************************************)
(* The two walks of Agreement report the same errors, each as often.       *)
(***************************************************************************)
EXTENDS Agreement, Walks_proofs

RawEntries      == UNION {ToSet(ResultsR(f)) : f \in RawFrames}
CompiledEntries == UNION {ToSet(ResultsC(f)) : f \in CompiledFrames}

\* The two walks again, with the frames they pass through.
RawP ==
  INSTANCE Traversal_proofs
    WITH Call <- RawCall, Frame <- RawFrames, Result <- RawEntries,
         RootFrame <- RawRootFrame, Results <- ResultsR, Children <- ChildrenR,
         Convert <- JsonToCelWithSchema

TreeP ==
  INSTANCE Traversal_proofs
    WITH Call <- CompiledCalls, Frame <- CompiledFrames, Result <- CompiledEntries,
         RootFrame <- CompiledRootFrame, Results <- ResultsC, Children <- ChildrenC,
         Convert <- JsonToCelWithCompiled,
         call <- callC, stage <- stageC, frames <- framesC, next <- nextC,
         scope <- scopeC, errors <- errorsC, verdict <- verdictC,
         answered <- answeredC

\* They begin and step as the walks of Agreement do.
LEMMA RawInit == Raw!Init => RawP!Init
  BY DEF Raw!Init, RawP!Init, Raw!NoScope, RawP!NoScope, Raw!Null, RawP!Null

\* (They evaluate a result alike.)
LEMMA RawEvaluates ==
  ASSUME NEW res, NEW s, NEW path
  PROVE  Raw!EvaluateResult(res, s, path) = RawP!EvaluateResult(res, s, path)
  BY DEF Raw!EvaluateResult, RawP!EvaluateResult, Raw!EvaluateRule, RawP!EvaluateRule,
     Raw!EffectiveScope, RawP!EffectiveScope, Raw!ErrorAt, RawP!ErrorAt,
     Raw!FailureKind, RawP!FailureKind, Raw!EffectivePath, RawP!EffectivePath,
     Raw!Skipped, RawP!Skipped, Raw!ResolveMessage, RawP!ResolveMessage,
     Raw!SchemaTooDeepError, RawP!SchemaTooDeepError, Raw!Null, RawP!Null

\* (Action by action.)
LEMMA RawNext == Raw!Next => RawP!Next
<1>1. \A f : Raw!TooDeep(f) = RawP!TooDeep(f)
  BY DEF Raw!TooDeep, RawP!TooDeep
<1>2. \A f : Raw!ScopeOf(f) = RawP!ScopeOf(f)
  BY DEF Raw!ScopeOf, RawP!ScopeOf
<1>3. \A path : Raw!SchemaTooDeepError(path) = RawP!SchemaTooDeepError(path)
  BY DEF Raw!SchemaTooDeepError, RawP!SchemaTooDeepError, Raw!ErrorAt, RawP!ErrorAt
<1>4. Raw!Start => RawP!Start
  BY DEF Raw!Start, RawP!Start
<1>5. Raw!RefuseDeep => RawP!RefuseDeep
  BY <1>1, <1>3 DEF Raw!RefuseDeep, RawP!RefuseDeep
<1>6. Raw!EnterNode => RawP!EnterNode
  BY <1>1, <1>2 DEF Raw!EnterNode, RawP!EnterNode
<1>7. Raw!EvaluateNext => RawP!EvaluateNext
  BY RawEvaluates DEF Raw!EvaluateNext, RawP!EvaluateNext
<1>8. Raw!Descend => RawP!Descend
  BY DEF Raw!Descend, RawP!Descend
<1>9. Raw!Return => RawP!Return
  BY DEF Raw!Return, RawP!Return
<1> QED BY <1>4, <1>5, <1>6, <1>7, <1>8, <1>9 DEF Raw!Next, RawP!Next

\* So does the other: it begins and steps as the walk of the compiled tree does.
LEMMA TreeInit == Tree!Init => TreeP!Init
  BY DEF Tree!Init, TreeP!Init, Tree!NoScope, TreeP!NoScope, Tree!Null, TreeP!Null

\* (Results.)
LEMMA TreeEvaluates ==
  ASSUME NEW res, NEW s, NEW path
  PROVE  Tree!EvaluateResult(res, s, path) = TreeP!EvaluateResult(res, s, path)
  BY DEF Tree!EvaluateResult, TreeP!EvaluateResult, Tree!EvaluateRule, TreeP!EvaluateRule,
     Tree!EffectiveScope, TreeP!EffectiveScope, Tree!ErrorAt, TreeP!ErrorAt,
     Tree!FailureKind, TreeP!FailureKind, Tree!EffectivePath, TreeP!EffectivePath,
     Tree!Skipped, TreeP!Skipped, Tree!ResolveMessage, TreeP!ResolveMessage,
     Tree!SchemaTooDeepError, TreeP!SchemaTooDeepError, Tree!Null, TreeP!Null

\* (Actions.)
LEMMA TreeNext == Tree!Next => TreeP!Next
<1>1. \A f : Tree!TooDeep(f) = TreeP!TooDeep(f)
  BY DEF Tree!TooDeep, TreeP!TooDeep
<1>2. \A f : Tree!ScopeOf(f) = TreeP!ScopeOf(f)
  BY DEF Tree!ScopeOf, TreeP!ScopeOf
<1>3. \A path : Tree!SchemaTooDeepError(path) = TreeP!SchemaTooDeepError(path)
  BY DEF Tree!SchemaTooDeepError, TreeP!SchemaTooDeepError, Tree!ErrorAt, TreeP!ErrorAt
<1>4. Tree!Start => TreeP!Start
  BY DEF Tree!Start, TreeP!Start
<1>5. Tree!RefuseDeep => TreeP!RefuseDeep
  BY <1>1, <1>3 DEF Tree!RefuseDeep, TreeP!RefuseDeep
<1>6. Tree!EnterNode => TreeP!EnterNode
  BY <1>1, <1>2 DEF Tree!EnterNode, TreeP!EnterNode
<1>7. Tree!EvaluateNext => TreeP!EvaluateNext
  BY TreeEvaluates DEF Tree!EvaluateNext, TreeP!EvaluateNext
<1>8. Tree!Descend => TreeP!Descend
  BY DEF Tree!Descend, TreeP!Descend
<1>9. Tree!Return => TreeP!Return
  BY DEF Tree!Return, TreeP!Return
<1> QED BY <1>4, <1>5, <1>6, <1>7, <1>8, <1>9 DEF Tree!Next, TreeP!Next

---------------------------------------------------------------------------
\* The orders in which the children of a frame may be walked.
Loops(f, names) ==
  PropertyLoop(f, names) \o ItemLoop(f) \o MapLoop(f) \o BranchLoop(f)

Fields(f) == Declared(f) \cap Keys(f.value)

Orders(f) == {Loops(f, names) : names \in SetToSeqs(Fields(f))}

\* The raw walk takes the order of a map (walk_schema).
LEMMA RawLoops ==
  ASSUME NEW f
  PROVE  ChildrenR(f) = {Loops(f, MapOrder(Fields(f)))}
<1>1. RawW!PropertyFrames(f) = PropertyLoop(f, MapOrder(Fields(f)))
  BY DEF RawW!PropertyFrames, PropertyLoop, FieldChild, Declared, Fields, RawW!ChildFrame,
     ChildFrame, RawW!FieldOf, FieldOf, RawW!JoinPath, JoinPath, RawW!Keys, Keys,
     RawW!IsObject, IsObject
<1>2. RawW!ItemFrames(f) = ItemLoop(f)
  BY DEF RawW!ItemFrames, ItemLoop, ItemChild, RawW!IsArray, IsArray, RawW!ChildFrame,
     ChildFrame, RawW!ItemOf, ItemOf, RawW!JoinPathIndex, JoinPathIndex
<1>3. RawW!AdditionalFrames(f) = MapLoop(f)
  BY DEF RawW!AdditionalFrames, MapLoop, FieldChild, Declared, RawW!ChildFrame,
     ChildFrame, RawW!FieldOf, FieldOf, RawW!JoinPath, JoinPath, RawW!Keys, Keys,
     RawW!IsObject, IsObject
<1>4. RawW!BranchFrames(f) = BranchLoop(f)
  BY DEF RawW!BranchFrames, BranchLoop, RawW!BranchFrame, BranchFrame
<1> QED BY <1>1, <1>2, <1>3, <1>4 DEF ChildrenR, RawW!RawChildren, Loops

\* The compiled walk takes any (walk_compiled and its HashMap).
LEMMA CompiledLoops ==
  ASSUME NEW f
  PROVE  ChildrenC(f) = Orders(f)
<1>1. \A names : CompiledW!PropertyFrames(f, names) = PropertyLoop(f, names)
  BY DEF CompiledW!PropertyFrames, PropertyLoop, FieldChild, CompiledW!ChildFrame,
     ChildFrame, CompiledW!FieldOf, FieldOf, CompiledW!JoinPath, JoinPath,
     CompiledW!Keys, Keys, CompiledW!IsObject, IsObject
<1>2. CompiledW!ItemFrames(f) = ItemLoop(f)
  BY DEF CompiledW!ItemFrames, ItemLoop, ItemChild, CompiledW!IsArray, IsArray,
     CompiledW!ChildFrame, ChildFrame, CompiledW!ItemOf, ItemOf,
     CompiledW!JoinPathIndex, JoinPathIndex
<1>3. CompiledW!AdditionalFrames(f) = MapLoop(f)
  BY DEF CompiledW!AdditionalFrames, MapLoop, FieldChild, Declared,
     CompiledW!ChildFrame, ChildFrame, CompiledW!FieldOf, FieldOf,
     CompiledW!JoinPath, JoinPath, CompiledW!Keys, Keys, CompiledW!IsObject, IsObject
<1>4. CompiledW!BranchFrames(f) = BranchLoop(f)
  BY DEF CompiledW!BranchFrames, BranchLoop, CompiledW!BranchFrame, BranchFrame
<1>5. CompiledW!Keys(f.value) = Keys(f.value)
  BY DEF CompiledW!Keys, Keys, CompiledW!IsObject, IsObject
<1>6. \A K : CompiledW!SetToSeqs(K) = SetToSeqs(K)
  <2> TAKE K
  <2>1. CompiledW!Cardinality(K) = Cardinality(K)
    BY Zenon DEF CompiledW!Cardinality, Cardinality
  <2> QED BY <2>1 DEF CompiledW!SetToSeqs, SetToSeqs
<1> QED BY <1>1, <1>2, <1>3, <1>4, <1>5, <1>6
     DEF ChildrenC, CompiledW!CompiledChildren, Declared, Fields, Orders, Loops

\* Every order is a sequence of the same children, each as often, and the order
\* of a map is one of them.
LEMMA OrdersVisit ==
  ASSUME NEW f, IsFrame(f)
  PROVE  /\ Loops(f, MapOrder(Fields(f))) \in Orders(f)
         /\ \A order \in Orders(f) : IsSequence(order) /\ ToSet(order) = ChildrenOf(f)
         /\ \A p \in Orders(f), q \in Orders(f) : Reorders(q, p)
<1> DEFINE K == Fields(f)
<1>1. IsFiniteSet(K)
  BY KeysOfFrame DEF Fields
<1>2. MapOrder(K) \in SetToSeqs(K)
  <2>1. Lists(MapOrder(K), K)
    BY DEF IsFrame, Fields
  <2> HIDE DEF K
  <2> QED BY <1>1, <2>1, ListsArePermutations
<1>3. ASSUME NEW names \in SetToSeqs(K)
      PROVE  /\ IsSequence(Loops(f, names)) /\ ToSet(Loops(f, names)) = ChildrenOf(f)
  <2>1. names \in Seq(K) /\ K \subseteq ToSet(names)
    <3> HIDE DEF K
    <3> QED BY <1>1, <1>3, PermutationsList
  <2> QED BY <2>1, LoopsVisit DEF Fields, Loops
<1>4. \A names \in SetToSeqs(K), others \in SetToSeqs(K) :
        Reorders(Loops(f, names), Loops(f, others))
  BY LoopsReorder DEF Fields, Loops
<1> HIDE DEF K
<1>5. Orders(f) = {Loops(f, names) : names \in SetToSeqs(K)}
  BY DEF Orders, K
<1> QED BY <1>2, <1>3, <1>4, <1>5 DEF K

---------------------------------------------------------------------------
\* The table of the raw walk's frames, level by level.
LEMMA RawLevelsExist ==
  ASSUME NEW start, NEW n \in Nat
  PROVE  \E at : at = [d \in 0..n |-> IF d = 0 THEN start ELSE Raw!CalledFrom(at[d - 1])]
<1> DEFINE Is(at, m) ==
             at = [d \in 0..m |-> IF d = 0 THEN start ELSE Raw!CalledFrom(at[d - 1])]
           S == {m \in Nat : \E at : Is(at, m)}
<1>1. 0 \in S
  <2>1. Is([d \in 0..0 |-> start], 0)
    OBVIOUS
  <2> QED BY <2>1
<1>2. ASSUME NEW m \in S
      PROVE  m + 1 \in S
  <2>1. PICK at : Is(at, m)
    OBVIOUS
  <2> DEFINE longer == [d \in 0..m + 1 |->
                          IF d = m + 1 THEN Raw!CalledFrom(at[m]) ELSE at[d]]
  <2>2. ASSUME NEW d \in 0..m + 1
        PROVE  longer[d] = IF d = 0 THEN start ELSE Raw!CalledFrom(longer[d - 1])
    <3>1. CASE d = m + 1
      BY <3>1
    <3>2. CASE d \in 0..m
      BY <3>2, <2>1
    <3> QED BY <3>1, <3>2
  <2>3. Is(longer, m + 1)
    BY <2>2
  <2>4. \E g : Is(g, m + 1)
    BY <2>3
  <2> QED BY <2>4
<1>3. n \in S
  <2> HIDE DEF S
  <2> QED BY <1>1, <1>2, Induct
<1> QED BY <1>3

\* (It has the rows that its definition says.)
LEMMA RawLevelStep ==
  ASSUME NEW c
  PROVE  /\ Raw!Levels(c)[0] = {RawRootFrame(c)}
         /\ \A d \in 0..MaxDepth : Raw!Levels(c)[d + 1] = Raw!CalledFrom(Raw!Levels(c)[d])
<1> DEFINE n     == MaxDepth + 1
           start == {RawRootFrame(c)}
           Is(at) == at = [d \in 0..n |-> IF d = 0 THEN start
                                          ELSE Raw!CalledFrom(at[d - 1])]
           table == Raw!Levels(c)
<1>1. table = CHOOSE at : Is(at)
  BY DEF Raw!Levels
<1>2. n \in Nat
  BY DepthAssumption
<1>3. Is(table)
  <2>1. \E at : Is(at)
    <3> HIDE DEF start, n
    <3> QED BY <1>2, RawLevelsExist
  <2> QED BY <1>1, <2>1, Zenon
<1> HIDE DEF start, table
<1>4. table[0] = start
  BY <1>2, <1>3
<1>5. \A d \in 0..MaxDepth : table[d + 1] = Raw!CalledFrom(table[d])
  <2> TAKE d \in 0..MaxDepth
  <2>1. d + 1 \in 0..n /\ d + 1 # 0 /\ (d + 1) - 1 = d
    BY DepthAssumption
  <2>2. table[d + 1] = Raw!CalledFrom(table[(d + 1) - 1])
    BY <1>3, <2>1
  <2> QED BY <2>1, <2>2
<1> QED BY <1>4, <1>5 DEF start, table

\* A frame's children are those of the loops.
LEMMA RawChildSet ==
  ASSUME NEW f, IsFrame(f)
  PROVE  /\ ChildrenR(f) # {} /\ ChildrenR(f) \subseteq Orders(f)
         /\ Raw!ChildSet(f) = ChildrenOf(f)
<1>1. ChildrenR(f) # {} /\ ChildrenR(f) \subseteq Orders(f)
  BY RawLoops, CompiledLoops, OrdersVisit
<1>2. \A s : Raw!ToSet(s) = ToSet(s)
  BY DEF Raw!ToSet, ToSet
<1>3. \A order \in ChildrenR(f) : ToSet(order) = ChildrenOf(f)
  BY <1>1, OrdersVisit
<1>4. Raw!ChildSet(f) = UNION {ToSet(order) : order \in ChildrenR(f)}
  BY <1>2 DEF Raw!ChildSet
<1> QED BY <1>1, <1>3, <1>4

\* A frame on a level has that depth, and before the cap its children are frames of
\* the next level.
LEMMA RawLevels ==
  ASSUME NEW c \in RawCall, NEW d \in 0..MaxDepth + 1, NEW f \in Raw!Levels(c)[d]
  PROVE  /\ f \in RawFrames /\ IsFrame(f) /\ f.depth = d
         /\ ~Raw!TooDeep(f) => /\ d \in 0..MaxDepth
                               /\ Raw!ChildSet(f) \subseteq Raw!Levels(c)[d + 1]
<1>1. \A j \in 0..MaxDepth + 1 : Raw!Levels(c)[j] \subseteq RawFrames
  BY DEF RawFrames, Raw!Walked
<1>2. \A g \in RawFrames : IsFrame(g)
  BY WalksAssumption
<1> DEFINE S == {j \in Nat : j <= MaxDepth + 1 => \A g \in Raw!Levels(c)[j] : g.depth = j}
<1>3. 0 \in S
  BY RawLevelStep DEF RawRootFrame
<1>4. ASSUME NEW j \in S
      PROVE  j + 1 \in S
  <2> SUFFICES ASSUME j + 1 <= MaxDepth + 1, NEW g \in Raw!Levels(c)[j + 1]
               PROVE  g.depth = j + 1
    OBVIOUS
  <2>1. j \in 0..MaxDepth /\ j \in 0..MaxDepth + 1 /\ j <= MaxDepth + 1
    BY DepthAssumption
  <2>2. g \in Raw!CalledFrom(Raw!Levels(c)[j])
    BY <2>1, RawLevelStep
  <2>3. PICK h \in Raw!Levels(c)[j] : g \in Raw!ChildSet(h)
    BY <2>2 DEF Raw!CalledFrom
  <2>4. IsFrame(h) /\ h.depth = j
    BY <1>1, <1>2, <2>1, <2>3
  <2>5. g \in ChildrenOf(h)
    BY <2>3, <2>4, RawChildSet
  <2> QED BY <2>4, <2>5, ChildrenDeeper
<1>5. f.depth = d
  <2>1. Nat \subseteq S
    <3> HIDE DEF S
    <3> QED BY <1>3, <1>4, Induct
  <2>2. d \in Nat /\ d <= MaxDepth + 1
    BY DepthAssumption
  <2> QED BY <2>1, <2>2
<1>6. ASSUME ~Raw!TooDeep(f)
      PROVE  d \in 0..MaxDepth /\ Raw!ChildSet(f) \subseteq Raw!Levels(c)[d + 1]
  <2>1. d \in 0..MaxDepth
    BY <1>5, <1>6, DepthAssumption DEF Raw!TooDeep
  <2>2. Raw!Levels(c)[d + 1] = Raw!CalledFrom(Raw!Levels(c)[d])
    BY <2>1, RawLevelStep
  <2> QED BY <1>6, <2>1, <2>2 DEF Raw!CalledFrom
<1> QED BY <1>1, <1>2, <1>5, <1>6

\* So the frames are closed under what the walk calls.
LEMMA RawClosed ==
  /\ \A c \in RawCall : RawRootFrame(c) \in RawFrames
  /\ \A f \in RawFrames : f.depth \in Nat /\ IsFrame(f)
  /\ \A f \in RawFrames : ~Raw!TooDeep(f) => Raw!ChildSet(f) \subseteq RawFrames
<1>1. ASSUME NEW c \in RawCall
      PROVE  RawRootFrame(c) \in RawFrames
  <2>1. RawRootFrame(c) \in Raw!Levels(c)[0] /\ 0 \in 0..MaxDepth + 1
    BY RawLevelStep, DepthAssumption
  <2> QED BY <2>1, RawLevels
<1>2. ASSUME NEW f \in RawFrames
      PROVE  /\ f.depth \in Nat /\ IsFrame(f)
             /\ ~Raw!TooDeep(f) => Raw!ChildSet(f) \subseteq RawFrames
  <2>1. PICK c \in RawCall, d \in 0..MaxDepth + 1 : f \in Raw!Levels(c)[d]
    BY DEF RawFrames, Raw!Walked
  <2>2. f.depth = d /\ IsFrame(f)
    BY <2>1, RawLevels
  <2>3. d \in Nat
    BY DepthAssumption
  <2>4. ASSUME ~Raw!TooDeep(f)
        PROVE  Raw!ChildSet(f) \subseteq RawFrames
    <3>1. d \in 0..MaxDepth /\ Raw!ChildSet(f) \subseteq Raw!Levels(c)[d + 1]
      BY <2>1, <2>4, RawLevels
    <3>2. d + 1 \in 0..MaxDepth + 1
      BY <3>1, DepthAssumption
    <3> QED BY <3>1, <3>2 DEF RawFrames, Raw!Walked
  <2> QED BY <2>2, <2>3, <2>4
<1> QED BY <1>1, <1>2

---------------------------------------------------------------------------
\* The same of the compiled walk.
LEMMA TreeLevelsExist ==
  ASSUME NEW start, NEW n \in Nat
  PROVE  \E at : at = [d \in 0..n |-> IF d = 0 THEN start ELSE Tree!CalledFrom(at[d - 1])]
<1> DEFINE Is(at, m) ==
             at = [d \in 0..m |-> IF d = 0 THEN start ELSE Tree!CalledFrom(at[d - 1])]
           S == {m \in Nat : \E at : Is(at, m)}
<1>1. 0 \in S
  <2>1. Is([d \in 0..0 |-> start], 0)
    OBVIOUS
  <2> QED BY <2>1
<1>2. ASSUME NEW m \in S
      PROVE  m + 1 \in S
  <2>1. PICK at : Is(at, m)
    OBVIOUS
  <2> DEFINE longer == [d \in 0..m + 1 |->
                          IF d = m + 1 THEN Tree!CalledFrom(at[m]) ELSE at[d]]
  <2>2. ASSUME NEW d \in 0..m + 1
        PROVE  longer[d] = IF d = 0 THEN start ELSE Tree!CalledFrom(longer[d - 1])
    <3>1. CASE d = m + 1
      BY <3>1
    <3>2. CASE d \in 0..m
      BY <3>2, <2>1
    <3> QED BY <3>1, <3>2
  <2>3. Is(longer, m + 1)
    BY <2>2
  <2>4. \E g : Is(g, m + 1)
    BY <2>3
  <2> QED BY <2>4
<1>3. n \in S
  <2> HIDE DEF S
  <2> QED BY <1>1, <1>2, Induct
<1> QED BY <1>3

\* (Its rows.)
LEMMA TreeLevelStep ==
  ASSUME NEW c
  PROVE  /\ Tree!Levels(c)[0] = {CompiledRootFrame(c)}
         /\ \A d \in 0..MaxDepth : Tree!Levels(c)[d + 1] = Tree!CalledFrom(Tree!Levels(c)[d])
<1> DEFINE n     == MaxDepth + 1
           start == {CompiledRootFrame(c)}
           Is(at) == at = [d \in 0..n |-> IF d = 0 THEN start
                                          ELSE Tree!CalledFrom(at[d - 1])]
           table == Tree!Levels(c)
<1>1. table = CHOOSE at : Is(at)
  BY DEF Tree!Levels
<1>2. n \in Nat
  BY DepthAssumption
<1>3. Is(table)
  <2>1. \E at : Is(at)
    <3> HIDE DEF start, n
    <3> QED BY <1>2, TreeLevelsExist
  <2> QED BY <1>1, <2>1, Zenon
<1> HIDE DEF start, table
<1>4. table[0] = start
  BY <1>2, <1>3
<1>5. \A d \in 0..MaxDepth : table[d + 1] = Tree!CalledFrom(table[d])
  <2> TAKE d \in 0..MaxDepth
  <2>1. d + 1 \in 0..n /\ d + 1 # 0 /\ (d + 1) - 1 = d
    BY DepthAssumption
  <2>2. table[d + 1] = Tree!CalledFrom(table[(d + 1) - 1])
    BY <1>3, <2>1
  <2> QED BY <2>1, <2>2
<1> QED BY <1>4, <1>5 DEF start, table

\* A frame's children are those of the loops.
LEMMA TreeChildSet ==
  ASSUME NEW f, IsFrame(f)
  PROVE  /\ ChildrenC(f) # {} /\ ChildrenC(f) \subseteq Orders(f)
         /\ Tree!ChildSet(f) = ChildrenOf(f)
<1>1. ChildrenC(f) # {} /\ ChildrenC(f) \subseteq Orders(f)
  BY CompiledLoops, OrdersVisit
<1>2. \A s : Tree!ToSet(s) = ToSet(s)
  BY DEF Tree!ToSet, ToSet
<1>3. \A order \in ChildrenC(f) : ToSet(order) = ChildrenOf(f)
  BY <1>1, OrdersVisit
<1>4. Tree!ChildSet(f) = UNION {ToSet(order) : order \in ChildrenC(f)}
  BY <1>2 DEF Tree!ChildSet
<1> QED BY <1>1, <1>3, <1>4

\* A frame on a level has that depth, and before the cap its children are frames of
\* the next level.
LEMMA TreeLevels ==
  ASSUME NEW c \in CompiledCalls, NEW d \in 0..MaxDepth + 1, NEW f \in Tree!Levels(c)[d]
  PROVE  /\ f \in CompiledFrames /\ IsFrame(f) /\ f.depth = d
         /\ ~Tree!TooDeep(f) => /\ d \in 0..MaxDepth
                               /\ Tree!ChildSet(f) \subseteq Tree!Levels(c)[d + 1]
<1>1. \A j \in 0..MaxDepth + 1 : Tree!Levels(c)[j] \subseteq CompiledFrames
  BY DEF CompiledFrames, Tree!Walked
<1>2. \A g \in CompiledFrames : IsFrame(g)
  BY WalksAssumption
<1> DEFINE S == {j \in Nat : j <= MaxDepth + 1 => \A g \in Tree!Levels(c)[j] : g.depth = j}
<1>3. 0 \in S
  BY TreeLevelStep DEF CompiledRootFrame
<1>4. ASSUME NEW j \in S
      PROVE  j + 1 \in S
  <2> SUFFICES ASSUME j + 1 <= MaxDepth + 1, NEW g \in Tree!Levels(c)[j + 1]
               PROVE  g.depth = j + 1
    OBVIOUS
  <2>1. j \in 0..MaxDepth /\ j \in 0..MaxDepth + 1 /\ j <= MaxDepth + 1
    BY DepthAssumption
  <2>2. g \in Tree!CalledFrom(Tree!Levels(c)[j])
    BY <2>1, TreeLevelStep
  <2>3. PICK h \in Tree!Levels(c)[j] : g \in Tree!ChildSet(h)
    BY <2>2 DEF Tree!CalledFrom
  <2>4. IsFrame(h) /\ h.depth = j
    BY <1>1, <1>2, <2>1, <2>3
  <2>5. g \in ChildrenOf(h)
    BY <2>3, <2>4, TreeChildSet
  <2> QED BY <2>4, <2>5, ChildrenDeeper
<1>5. f.depth = d
  <2>1. Nat \subseteq S
    <3> HIDE DEF S
    <3> QED BY <1>3, <1>4, Induct
  <2>2. d \in Nat /\ d <= MaxDepth + 1
    BY DepthAssumption
  <2> QED BY <2>1, <2>2
<1>6. ASSUME ~Tree!TooDeep(f)
      PROVE  d \in 0..MaxDepth /\ Tree!ChildSet(f) \subseteq Tree!Levels(c)[d + 1]
  <2>1. d \in 0..MaxDepth
    BY <1>5, <1>6, DepthAssumption DEF Tree!TooDeep
  <2>2. Tree!Levels(c)[d + 1] = Tree!CalledFrom(Tree!Levels(c)[d])
    BY <2>1, TreeLevelStep
  <2> QED BY <1>6, <2>1, <2>2 DEF Tree!CalledFrom
<1> QED BY <1>1, <1>2, <1>5, <1>6

\* So the frames are closed under what the walk calls.
LEMMA TreeClosed ==
  /\ \A c \in CompiledCalls : CompiledRootFrame(c) \in CompiledFrames
  /\ \A f \in CompiledFrames : f.depth \in Nat /\ IsFrame(f)
  /\ \A f \in CompiledFrames : ~Tree!TooDeep(f) => Tree!ChildSet(f) \subseteq CompiledFrames
<1>1. ASSUME NEW c \in CompiledCalls
      PROVE  CompiledRootFrame(c) \in CompiledFrames
  <2>1. CompiledRootFrame(c) \in Tree!Levels(c)[0] /\ 0 \in 0..MaxDepth + 1
    BY TreeLevelStep, DepthAssumption
  <2> QED BY <2>1, TreeLevels
<1>2. ASSUME NEW f \in CompiledFrames
      PROVE  /\ f.depth \in Nat /\ IsFrame(f)
             /\ ~Tree!TooDeep(f) => Tree!ChildSet(f) \subseteq CompiledFrames
  <2>1. PICK c \in CompiledCalls, d \in 0..MaxDepth + 1 : f \in Tree!Levels(c)[d]
    BY DEF CompiledFrames, Tree!Walked
  <2>2. f.depth = d /\ IsFrame(f)
    BY <2>1, TreeLevels
  <2>3. d \in Nat
    BY DepthAssumption
  <2>4. ASSUME ~Tree!TooDeep(f)
        PROVE  Tree!ChildSet(f) \subseteq CompiledFrames
    <3>1. d \in 0..MaxDepth /\ Tree!ChildSet(f) \subseteq Tree!Levels(c)[d + 1]
      BY <2>1, <2>4, TreeLevels
    <3>2. d + 1 \in 0..MaxDepth + 1
      BY <3>1, DepthAssumption
    <3> QED BY <3>1, <3>2 DEF CompiledFrames, Tree!Walked
  <2> QED BY <2>2, <2>3, <2>4
<1> QED BY <1>1, <1>2

---------------------------------------------------------------------------
\* A table of a schema's nodes at each depth exists.
LEMMA NodesExist ==
  ASSUME NEW start, NEW n \in Nat
  PROVE  \E at : at = [d \in 0..n |-> IF d = 0 THEN start ELSE AllSubSchemas(at[d - 1])]
<1> DEFINE Is(at, m) == at = [d \in 0..m |-> IF d = 0 THEN start ELSE AllSubSchemas(at[d - 1])]
           S == {m \in Nat : \E at : Is(at, m)}
<1>1. 0 \in S
  <2>1. Is([d \in 0..0 |-> start], 0)
    OBVIOUS
  <2> QED BY <2>1
<1>2. ASSUME NEW m \in S
      PROVE  m + 1 \in S
  <2>1. PICK at : Is(at, m)
    OBVIOUS
  <2> DEFINE longer == [d \in 0..m + 1 |-> IF d = m + 1 THEN AllSubSchemas(at[m]) ELSE at[d]]
  <2>2. ASSUME NEW d \in 0..m + 1
        PROVE  longer[d] = IF d = 0 THEN start ELSE AllSubSchemas(longer[d - 1])
    <3>1. CASE d = m + 1
      BY <3>1
    <3>2. CASE d \in 0..m
      BY <3>2, <2>1
    <3> QED BY <3>1, <3>2
  <2>3. Is(longer, m + 1)
    BY <2>2
  <2>4. \E g : Is(g, m + 1)
    BY <2>3
  <2> QED BY <2>4
<1>3. n \in S
  <2> HIDE DEF S
  <2> QED BY <1>1, <1>2, Induct
<1> QED BY <1>3

\* The schema itself, and below a node its subschemas.
LEMMA NodesStep ==
  ASSUME NEW schema
  PROVE  /\ NodesAt(schema)[0] = {schema}
         /\ \A d \in 0..MaxDepth : \A n \in NodesAt(schema)[d] :
              SubSchemas(n) \subseteq NodesAt(schema)[d + 1]
<1> DEFINE n     == MaxDepth + 1
           start == {schema}
           Is(at) == at = [depth \in 0..n |-> IF depth = 0 THEN start
                                              ELSE AllSubSchemas(at[depth - 1])]
           table == NodesAt(schema)
<1>1. table = CHOOSE at : Is(at)
  BY DEF NodesAt
<1>2. n \in Nat
  BY DepthAssumption
<1>3. Is(table)
  <2>1. \E at : Is(at)
    <3> HIDE DEF start, n
    <3> QED BY <1>2, NodesExist
  <2> QED BY <1>1, <2>1, Zenon
<1> HIDE DEF start, table
<1>4. table[0] = start
  BY <1>2, <1>3
<1>5. \A d \in 0..MaxDepth : table[d + 1] = AllSubSchemas(table[d])
  <2> TAKE d \in 0..MaxDepth
  <2>1. d + 1 \in 0..n /\ d + 1 # 0 /\ (d + 1) - 1 = d
    BY DepthAssumption
  <2>2. table[d + 1] = AllSubSchemas(table[(d + 1) - 1])
    BY <1>3, <2>1
  <2> QED BY <2>1, <2>2
<1>6. \A ns : \A s \in ns : SubSchemas(s) \subseteq AllSubSchemas(ns)
  BY DEF AllSubSchemas
<1>7. \A d \in 0..MaxDepth : \A s \in table[d] : SubSchemas(s) \subseteq table[d + 1]
  BY <1>5, <1>6
<1> QED BY <1>4, <1>7 DEF start, table

\* A table of compiled nodes exists for any nodes.
LEMMA CompiledExist ==
  ASSUME NEW nodes, NEW n \in Nat
  PROVE  \E at : at = [left \in 0..n |-> CompiledOf(nodes[left], left, at[left - 1])]
<1> DEFINE Is(at, m) == at = [left \in 0..m |-> CompiledOf(nodes[left], left, at[left - 1])]
           S == {m \in Nat : \E at : Is(at, m)}
<1>1. 0 \in S
  <2> DEFINE first == CompiledOf(nodes[0], 0, {})
             at    == [left \in 0..0 |-> first]
  <2>1. \A below : CompiledOf(nodes[0], 0, below) = first
    BY DEF CompiledOf
  <2> HIDE DEF first
  <2>2. Is(at, 0)
    BY <2>1
  <2>3. \E g : Is(g, 0)
    BY <2>2
  <2> QED BY <2>3
<1>2. ASSUME NEW m \in S
      PROVE  m + 1 \in S
  <2>1. PICK at : Is(at, m)
    OBVIOUS
  <2> DEFINE longer == [left \in 0..m + 1 |->
                          IF left = m + 1 THEN CompiledOf(nodes[m + 1], m + 1, at[m])
                          ELSE at[left]]
  <2>2. ASSUME NEW left \in 0..m + 1
        PROVE  longer[left] = CompiledOf(nodes[left], left, longer[left - 1])
    <3>1. CASE left = m + 1
      BY <3>1
    <3>2. CASE left \in 1..m
      BY <3>2, <2>1
    <3>3. CASE left = 0
      <4>1. longer[0] = CompiledOf(nodes[0], 0, at[0 - 1])
        BY <3>3, <2>1
      <4>2. \A x, y : CompiledOf(nodes[0], 0, x) = CompiledOf(nodes[0], 0, y)
        BY DEF CompiledOf
      <4> HIDE DEF longer
      <4>3. longer[0] = CompiledOf(nodes[0], 0, longer[0 - 1])
        BY <4>1, <4>2, Zenon
      <4> QED BY <3>3, <4>3
    <3> QED BY <3>1, <3>2, <3>3
  <2>3. Is(longer, m + 1)
    BY <2>2
  <2> HIDE DEF Is
  <2>4. m + 1 \in Nat
    OBVIOUS
  <2> QED BY <2>3, <2>4
<1>3. n \in S
  <2> HIDE DEF S
  <2> QED BY <1>1, <1>2, Induct
<1> QED BY <1>3

\* The node that is compiled from a node: past the cap the marker.
LEMMA TwinStep ==
  ASSUME NEW schema, NEW d \in 0..MaxDepth + 1, NEW s \in NodesAt(schema)[d]
  PROVE  CompiledAt(schema, MaxDepth)[MaxDepth + 1 - d][s] =
           IF d = MaxDepth + 1 THEN MarkerNode
           ELSE CompileSchemaInner(s, CompiledAt(schema, MaxDepth)[MaxDepth - d])
<1> DEFINE Is(at) == at = [left \in 0..MaxDepth + 1 |->
                       CompiledOf(NodesAt(schema)[MaxDepth + 1 - left], left, at[left - 1])]
           table == CompiledAt(schema, MaxDepth)
           nodes == [left \in 0..MaxDepth + 1 |-> NodesAt(schema)[MaxDepth + 1 - left]]
<1>1. table = CHOOSE at : Is(at)
  BY DEF CompiledAt
<1>2. Is(table)
  <2>1. MaxDepth + 1 \in Nat
    BY DepthAssumption
  <2>2. PICK at : at = [l \in 0..MaxDepth + 1 |-> CompiledOf(nodes[l], l, at[l - 1])]
    <3> DEFINE n == MaxDepth + 1
    <3> HIDE DEF nodes, n
    <3>1. \E at : at = [l \in 0..n |-> CompiledOf(nodes[l], l, at[l - 1])]
      BY <2>1, CompiledExist DEF n
    <3> QED BY <3>1 DEF n
  <2>3. \A l \in 0..MaxDepth + 1 : nodes[l] = NodesAt(schema)[MaxDepth + 1 - l]
    OBVIOUS
  <2> HIDE DEF nodes
  <2>4. Is(at)
    BY <2>2, <2>3
  <2>5. \E a : Is(a)
    BY <2>4
  <2> QED BY <1>1, <2>5, Zenon
<1> HIDE DEF table
<1> DEFINE left == MaxDepth + 1 - d
<1>3. /\ left \in 0..MaxDepth + 1 /\ MaxDepth + 1 - left = d
      /\ left = 0 <=> d = MaxDepth + 1
      /\ left - 1 = MaxDepth - d
  BY DepthAssumption
<1> HIDE DEF left
<1>4. table[left] = CompiledOf(NodesAt(schema)[MaxDepth + 1 - left], left, table[left - 1])
  BY ONLY <1>2, <1>3
<1>5. table[left] = CompiledOf(NodesAt(schema)[d], left, table[MaxDepth - d])
  BY ONLY <1>3, <1>4, Zenon
<1>6. table[left][s] = IF left = 0 THEN MarkerNode
                       ELSE CompileSchemaInner(s, table[MaxDepth - d])
  BY <1>5 DEF CompiledOf
<1>7. table[left][s] = IF d = MaxDepth + 1 THEN MarkerNode
                       ELSE CompileSchemaInner(s, table[MaxDepth - d])
  BY ONLY <1>3, <1>6, Zenon
<1> QED BY ONLY <1>7, Zenon DEF table, left

---------------------------------------------------------------------------
\* What the nodes at a depth are compiled into.
Twin(schema, d) == CompiledAt(schema, MaxDepth)[MaxDepth + 1 - d]

\* A node of the compiled tree has the fields of its raw twin, and the twins of
\* the nodes below it; only past the cap it is the marker.
LEMMA TwinNodes ==
  ASSUME NEW schema, NEW d \in 0..MaxDepth + 1, NEW n \in NodesAt(schema)[d]
  PROVE  /\ d = MaxDepth + 1 => Twin(schema, d)[n] = MarkerNode
         /\ d \in 0..MaxDepth => Twin(schema, d)[n] = CompileSchemaInner(n, Twin(schema, d + 1))
<1>1. d \in 0..MaxDepth => d # MaxDepth + 1 /\ MaxDepth + 1 - (d + 1) = MaxDepth - d
  BY DepthAssumption
<1>2. Twin(schema, d)[n] = IF d = MaxDepth + 1 THEN MarkerNode
                           ELSE CompileSchemaInner(n, CompiledAt(schema, MaxDepth)[MaxDepth - d])
  BY TwinStep DEF Twin
<1>3. ASSUME d \in 0..MaxDepth
      PROVE  Twin(schema, d + 1) = CompiledAt(schema, MaxDepth)[MaxDepth - d]
  <2>1. MaxDepth + 1 - (d + 1) = MaxDepth - d
    BY <1>1, <1>3
  <2> QED BY ONLY <2>1, Zenon DEF Twin
<1> QED BY <1>1, <1>2, <1>3, Zenon

\* compile_schema answers the twin of the root.
LEMMA RootTwin ==
  ASSUME NEW schema
  PROVE  /\ 0 \in 0..MaxDepth /\ schema \in NodesAt(schema)[0]
         /\ CompileSchema(schema) = Twin(schema, 0)[schema]
<1>1. 0 \in 0..MaxDepth /\ MaxDepth + 1 - 0 = MaxDepth + 1
  BY DepthAssumption
<1>2. schema \in NodesAt(schema)[0]
  BY NodesStep
<1>3. CompileSchema(schema) = Twin(schema, 0)[schema]
  BY <1>1, Zenon DEF CompileSchema, Twin
<1> QED BY <1>1, <1>2, <1>3

\* The fields of a compiled node.
LEMMA InnerFields ==
  ASSUME NEW n, NEW t, NEW m, m = CompileSchemaInner(n, t)
  PROVE  /\ m.validations = CompileSchemaValidations(n.validations)
         /\ m.properties = [k \in DOMAIN n.properties |-> t[n.properties[k]]]
         /\ m.items = {t[s] : s \in n.items}
         /\ m.additional = {t[s] : s \in n.additional}
         /\ m.isMap = (n.additionalProperties \notin {"absent", "false"})
         /\ m.preserveUnknown = n.preserveUnknown
         /\ m.embedded = n.embedded
         /\ m.format = SchemaFormat(n)
         /\ m.default = n.default
         /\ m.allOf = [i \in DOMAIN n.allOf |-> t[n.allOf[i]]]
         /\ m.oneOf = [i \in DOMAIN n.oneOf |-> t[n.oneOf[i]]]
         /\ m.anyOf = [i \in DOMAIN n.anyOf |-> t[n.anyOf[i]]]
  BY DEF CompileSchemaInner

\* The subschemas of a twin are twins of the node's.
LEMMA SubSchemasOfTwin ==
  ASSUME NEW n, NEW t, NEW m, m = CompileSchemaInner(n, t), NEW s \in SubSchemas(m)
  PROVE  \E r \in SubSchemas(n) : s = t[r]
<1>1. /\ m.properties = [k \in DOMAIN n.properties |-> t[n.properties[k]]]
      /\ m.items = {t[r] : r \in n.items}
      /\ m.additional = {t[r] : r \in n.additional}
      /\ m.allOf = [i \in DOMAIN n.allOf |-> t[n.allOf[i]]]
      /\ m.oneOf = [i \in DOMAIN n.oneOf |-> t[n.oneOf[i]]]
      /\ m.anyOf = [i \in DOMAIN n.anyOf |-> t[n.anyOf[i]]]
  BY InnerFields
<1>2. \A a, b : (a = [i \in DOMAIN b |-> t[b[i]]]) => ToSet(a) = {t[r] : r \in ToSet(b)}
  BY DEF ToSet
<1>3. /\ ToSet(m.allOf) = {t[r] : r \in ToSet(n.allOf)}
      /\ ToSet(m.oneOf) = {t[r] : r \in ToSet(n.oneOf)}
      /\ ToSet(m.anyOf) = {t[r] : r \in ToSet(n.anyOf)}
  BY <1>1, <1>2
<1>4. CASE s \in {m.properties[k] : k \in DOMAIN m.properties}
  BY <1>1, <1>4 DEF SubSchemas
<1>5. CASE s \in m.items \cup m.additional
  BY <1>1, <1>5 DEF SubSchemas
<1>6. CASE s \in ToSet(m.allOf) \cup ToSet(m.oneOf) \cup ToSet(m.anyOf)
  BY <1>3, <1>6 DEF SubSchemas
<1> QED BY <1>4, <1>5, <1>6 DEF SubSchemas

\* A recursive call is made for a subschema.
LEMMA ChildNodes ==
  ASSUME NEW f, IsFrame(f), NEW g \in ChildrenOf(f)
  PROVE  g.node \in SubSchemas(f.node)
<1>1. ASSUME NEW node
      PROVE  BranchFrame(f, node).node = node
  BY DEF BranchFrame, IsFrame
<1>2. ASSUME NEW node, NEW k
      PROVE  FieldChild(f, node, k).node = node /\ ItemChild(f, node, k).node = node
  BY DEF FieldChild, ItemChild, ChildFrame
<1>3. CASE g \in FieldChildren(f)
  BY <1>2, <1>3 DEF FieldChildren, Declared, SubSchemas
<1>4. CASE g \in ItemChildren(f)
  <2>1. g \in {ItemChild(f, node, i) : node \in f.node.items, i \in DOMAIN f.value.elems}
    BY <1>4 DEF ItemChildren
  <2> QED BY <1>2, <2>1 DEF SubSchemas
<1>5. CASE g \in MapChildren(f)
  <2>1. g \in {FieldChild(f, node, k) : node \in f.node.additional,
                                        k \in Keys(f.value) \ Declared(f)}
    BY <1>5 DEF MapChildren
  <2> QED BY <1>2, <2>1 DEF SubSchemas
<1>6. CASE g \in BranchChildren(f)
  BY <1>1, <1>6 DEF BranchChildren, BranchesOf, SubSchemas
<1> QED BY <1>3, <1>4, <1>5, <1>6 DEF ChildrenOf

---------------------------------------------------------------------------
\* The compiled call is the call with its schema compiled.
LEMMA CompiledCallIs ==
  ASSUME NEW c \in RawCall
  PROVE  /\ CompiledCall(c) \in CompiledCalls
         /\ CompiledCall(c).schema = Twin(c.schema, 0)[c.schema]
         /\ CompiledCall(c).object = c.object /\ CompiledCall(c).old = c.old
         /\ CompiledCall(c).root = c.root
<1>1. c = [schema |-> c.schema, object |-> c.object, old |-> c.old, root |-> c.root]
  BY CallAssumption
<1>2. CompiledCall(c) = [c EXCEPT !.schema = Twin(c.schema, 0)[c.schema]]
  BY RootTwin DEF CompiledCall
<1>3. CompiledCall(c) \in CompiledCalls
  BY DEF CompiledCalls
<1> QED BY <1>1, <1>2, <1>3

\* Every frame of the compiled walk carries the twin of a node at its depth.
LEMMA TreeNodes ==
  ASSUME NEW c \in RawCall, NEW d \in 0..MaxDepth + 1, NEW f \in Tree!Levels(CompiledCall(c))[d]
  PROVE  \E n \in NodesAt(c.schema)[d] : f.node = Twin(c.schema, d)[n]
<1> DEFINE cc == CompiledCall(c)
           Is(g, j) == \E n \in NodesAt(c.schema)[j] : g.node = Twin(c.schema, j)[n]
           S == {j \in Nat : j <= MaxDepth + 1 => \A g \in Tree!Levels(cc)[j] : Is(g, j)}
<1>1. cc \in CompiledCalls /\ cc.schema = Twin(c.schema, 0)[c.schema]
  BY CompiledCallIs
<1>2. c.schema \in NodesAt(c.schema)[0]
  BY RootTwin
<1> HIDE DEF cc
<1>3. 0 \in S
  <2>1. Tree!Levels(cc)[0] = {CompiledRootFrame(cc)}
    BY TreeLevelStep
  <2>2. CompiledRootFrame(cc).node = cc.schema
    BY DEF CompiledRootFrame
  <2> QED BY <1>1, <1>2, <2>1, <2>2
<1>4. ASSUME NEW j \in S
      PROVE  j + 1 \in S
  <2> SUFFICES ASSUME j + 1 <= MaxDepth + 1, NEW g \in Tree!Levels(cc)[j + 1]
               PROVE  Is(g, j + 1)
    OBVIOUS
  <2>1. j \in 0..MaxDepth /\ j \in 0..MaxDepth + 1 /\ j <= MaxDepth + 1
    BY DepthAssumption
  <2>2. g \in Tree!CalledFrom(Tree!Levels(cc)[j])
    BY <2>1, TreeLevelStep
  <2>3. PICK h \in Tree!Levels(cc)[j] : g \in Tree!ChildSet(h)
    BY <2>2 DEF Tree!CalledFrom
  <2>4. IsFrame(h)
    BY <1>1, <2>1, <2>3, TreeLevels
  <2>5. g.node \in SubSchemas(h.node)
    BY <2>3, <2>4, TreeChildSet, ChildNodes
  <2>6. PICK n \in NodesAt(c.schema)[j] : h.node = Twin(c.schema, j)[n]
    BY <2>1, <2>3
  <2>7. h.node = CompileSchemaInner(n, Twin(c.schema, j + 1))
    BY <2>1, <2>6, TwinNodes
  <2>8. PICK s \in SubSchemas(n) : g.node = Twin(c.schema, j + 1)[s]
    BY <2>5, <2>7, SubSchemasOfTwin
  <2>9. s \in NodesAt(c.schema)[j + 1]
    BY <2>1, <2>6, <2>8, NodesStep
  <2> QED BY <2>8, <2>9
<1>5. Nat \subseteq S
  <2> HIDE DEF S
  <2> QED BY <1>3, <1>4, Induct
<1>6. d \in Nat /\ d <= MaxDepth + 1
  BY DepthAssumption
<1> QED BY <1>5, <1>6 DEF cc

\* (CallAssumption, for one node.)
LEMMA NodesAreNodes ==
  ASSUME NEW c \in RawCall, NEW d \in 0..MaxDepth + 1, NEW n \in NodesAt(c.schema)[d]
  PROVE  IsNode(n)
<1>1. \A k \in 0..MaxDepth + 1 : \A m \in NodesAt(c.schema)[k] : IsNode(m)
  BY CallAssumption
<1> HIDE DEF IsNode
<1> QED BY ONLY <1>1, d \in 0..MaxDepth + 1, n \in NodesAt(c.schema)[d]

\* The compiled rules of a node, and the entries of a frame before the cap.
IsEntry(res) ==
  /\ res.status = "compiled" => res = Compiled(res.raw)
  /\ res.status \in {"compiled", "Parse", "MessageExpressionParse", "InvalidRule"}

\* Compiling the rules of a node gives one such entry for each rule.
LEMMA EntriesAreCompiled ==
  ASSUME NEW rules, IsSequence(rules)
  PROVE  /\ IsSequence(CompileSchemaValidations(rules))
         /\ \A i \in DOMAIN CompileSchemaValidations(rules) :
              IsEntry(CompileSchemaValidations(rules)[i])
<1> DEFINE t == CompileSchemaValidations(rules)
<1>1. t = [i \in DOMAIN rules |-> IF rules[i].wellFormed THEN CompileRule(rules[i])
                                  ELSE Failed("InvalidRule", "")]
  BY DEF CompileSchemaValidations
<1> HIDE DEF t
<1>2. t = [i \in DOMAIN rules |-> t[i]]
  BY <1>1
<1>3. IsSequence(t)
  BY ONLY <1>2, IsSequence(rules), MappedSequence
<1>4. ASSUME NEW i \in DOMAIN t
      PROVE  IsEntry(t[i])
  <2>1. \/ t[i] = Compiled(rules[i])
        \/ t[i].status \in {"Parse", "MessageExpressionParse", "InvalidRule"}
    BY <1>1, <1>4 DEF CompileRule, Failed
  <2>2. Compiled(rules[i]).status = "compiled" /\ Compiled(rules[i]).raw = rules[i]
    BY DEF Compiled
  <2> QED BY <2>1, <2>2 DEF IsEntry
<1> QED BY <1>3, <1>4 DEF t

\* Before the cap the entries of a frame are such rules in both walks.
LEMMA RawEntriesOf ==
  ASSUME NEW f
  PROVE  ResultsR(f) = CompileSchemaValidations(f.node.validations)
<1>1. \A r : RawW!CompileRule(r) = CompileRule(r) /\ RawW!Failed("InvalidRule", "") = Failed("InvalidRule", "")
  BY DEF RawW!CompileRule, CompileRule, RawW!Failed, Failed, RawW!Compiled, Compiled
<1>2. \A rules : RawW!CompileSchemaValidations(rules) = CompileSchemaValidations(rules)
  BY <1>1 DEF RawW!CompileSchemaValidations, CompileSchemaValidations
<1> QED BY <1>2 DEF ResultsR, RawW!RawResults

\* The entries of a compiled node are those of some raw node's rules.
LEMMA TreeEntriesOf ==
  ASSUME NEW f \in CompiledFrames, ~Tree!TooDeep(f)
  PROVE  \E rules : IsSequence(rules) /\ ResultsC(f) = CompileSchemaValidations(rules)
<1>1. PICK c \in RawCall, d \in 0..MaxDepth + 1 : f \in Tree!Levels(CompiledCall(c))[d]
  BY DEF CompiledFrames, Tree!Walked, CompiledCalls
<1>2. d \in 0..MaxDepth
  BY <1>1, CompiledCallIs, TreeLevels
<1>3. PICK n \in NodesAt(c.schema)[d] : f.node = Twin(c.schema, d)[n]
  BY <1>1, TreeNodes
<1>4. f.node = CompileSchemaInner(n, Twin(c.schema, d + 1))
  BY <1>2, <1>3, TwinNodes
<1>5. ResultsC(f) = CompileSchemaValidations(n.validations)
  <2> DEFINE t == Twin(c.schema, d + 1)
             m == f.node
  <2>1. m = CompileSchemaInner(n, t)
    BY <1>4
  <2>2. ResultsC(f) = m.validations
    BY DEF ResultsC, CompiledW!CompiledResults
  <2> HIDE DEF t, m
  <2>3. m.validations = CompileSchemaValidations(n.validations)
    BY ONLY <2>1 DEF CompileSchemaInner
  <2> QED BY <2>2, <2>3
<1>6. IsSequence(n.validations)
  BY <1>1, <1>3, NodesAreNodes DEF IsNode
<1> QED BY <1>5, <1>6

---------------------------------------------------------------------------
\* What the theorems about one walk assume holds of both.
LEMMA RawAssumed ==
  /\ \A c \in RawCall : RawRootFrame(c) \in RawFrames
  /\ \A f \in RawFrames : f.depth \in Nat /\ ResultsR(f) \in Seq(RawEntries)
  /\ \A f \in RawFrames : ~RawP!TooDeep(f) =>
       /\ ChildrenR(f) # {}
       /\ \A order : order \in ChildrenR(f) => order \in Seq(RawFrames)
  /\ \A c \in RawCall : RawRootFrame(c).depth = 0
  /\ \A f \in RawFrames : ~RawP!TooDeep(f) =>
       \A g \in RawP!ChildSet(f) : g.depth = f.depth + 1
  /\ \A f \in RawFrames : ~RawP!TooDeep(f) =>
       \A p, q \in ChildrenR(f) : RawP!Reorders(q, p)
  /\ \A f \in RawFrames : ~RawP!TooDeep(f) =>
       \A i \in DOMAIN ResultsR(f) :
         LET res == ResultsR(f)[i]
         IN  res.status = "compiled" => res = RawP!Compiled(res.raw)
  /\ \A f \in RawFrames : ~RawP!TooDeep(f) => RawP!DeclaredIfBound(f)
<1>1. \A f : RawP!TooDeep(f) = Raw!TooDeep(f)
  BY DEF RawP!TooDeep, Raw!TooDeep
<1>2. \A f : RawP!ChildSet(f) = Raw!ChildSet(f)
  BY DEF RawP!ChildSet, Raw!ChildSet, RawP!ToSet, Raw!ToSet
<1>3. \A p, q : RawP!Reorders(q, p) = Reorders(q, p)
  BY DEF RawP!Reorders, Reorders, RawP!Bijection, Bijection, RawP!Injection, Injection,
     RawP!Surjection, Surjection, RawP!IsInjective, IsInjective
<1>4. \A r : RawP!Compiled(r) = Compiled(r)
  BY DEF RawP!Compiled, Compiled
<1>5. \A f : RawP!DeclaredIfBound(f) = Raw!DeclaredIfBound(f)
  BY DEF RawP!DeclaredIfBound, Raw!DeclaredIfBound, RawP!EffectiveScope, Raw!EffectiveScope,
     RawP!ScopeOf, Raw!ScopeOf, RawP!Null, Raw!Null
<1>6. ASSUME NEW c \in RawCall
      PROVE  RawRootFrame(c) \in RawFrames /\ RawRootFrame(c).depth = 0
  BY RawClosed DEF RawRootFrame
<1>7. ASSUME NEW f \in RawFrames
      PROVE  /\ f.depth \in Nat /\ ResultsR(f) \in Seq(RawEntries)
             /\ \A i \in DOMAIN ResultsR(f) :
                  ResultsR(f)[i].status = "compiled" =>
                    ResultsR(f)[i] = Compiled(ResultsR(f)[i].raw)
  <2>1. IsFrame(f) /\ f.depth \in Nat
    BY RawClosed
  <2>2. IsSequence(f.node.validations)
    BY <2>1 DEF IsFrame, IsNode
  <2>3. IsSequence(ResultsR(f)) /\ \A i \in DOMAIN ResultsR(f) : IsEntry(ResultsR(f)[i])
    BY <2>2, EntriesAreCompiled, RawEntriesOf
  <2>4. ToSet(ResultsR(f)) \subseteq RawEntries
    BY DEF RawEntries
  <2>5. ResultsR(f) \in Seq(RawEntries)
    BY <2>3, <2>4 DEF IsSequence
  <2> QED BY <2>1, <2>3, <2>5 DEF IsEntry
<1>8. ASSUME NEW f \in RawFrames, ~Raw!TooDeep(f)
      PROVE  /\ ChildrenR(f) # {}
             /\ \A order \in ChildrenR(f) : order \in Seq(RawFrames)
             /\ \A g \in Raw!ChildSet(f) : g.depth = f.depth + 1
             /\ \A p \in ChildrenR(f), q \in ChildrenR(f) : Reorders(q, p)
  <2>1. IsFrame(f) /\ Raw!ChildSet(f) \subseteq RawFrames
    BY <1>8, RawClosed
  <2>2. /\ ChildrenR(f) # {} /\ ChildrenR(f) \subseteq Orders(f)
        /\ Raw!ChildSet(f) = ChildrenOf(f)
    BY <2>1, RawChildSet
  <2>3. \A order \in Orders(f) : IsSequence(order) /\ ToSet(order) = ChildrenOf(f)
    BY <2>1, OrdersVisit
  <2>4. \A p \in Orders(f), q \in Orders(f) : Reorders(q, p)
    BY <2>1, OrdersVisit
  <2>5. \A g \in ChildrenOf(f) : g.depth = f.depth + 1
    BY <2>1, ChildrenDeeper
  <2>6. \A order \in ChildrenR(f) : order \in Seq(RawFrames)
    BY <2>1, <2>2, <2>3 DEF IsSequence
  <2> QED BY <2>2, <2>4, <2>5, <2>6
<1>9. \A f \in RawFrames : ~Raw!TooDeep(f) => Raw!DeclaredIfBound(f)
  BY WalksAssumption
<1>10. \A f \in RawFrames : ~RawP!TooDeep(f) =>
         \A g \in RawP!ChildSet(f) : g.depth = f.depth + 1
  BY <1>1, <1>2, <1>8
<1>11. \A f \in RawFrames : ~RawP!TooDeep(f) =>
         \A p, q \in ChildrenR(f) : RawP!Reorders(q, p)
  BY <1>1, <1>3, <1>8
<1>12. \A f \in RawFrames : ~RawP!TooDeep(f) =>
         \A i \in DOMAIN ResultsR(f) :
           LET res == ResultsR(f)[i]
           IN  res.status = "compiled" => res = RawP!Compiled(res.raw)
  BY <1>4, <1>7
<1>13. \A f \in RawFrames : ~RawP!TooDeep(f) => RawP!DeclaredIfBound(f)
  BY <1>1, <1>5, <1>9
<1>14. \A f \in RawFrames : ~RawP!TooDeep(f) =>
         /\ ChildrenR(f) # {}
         /\ \A order : order \in ChildrenR(f) => order \in Seq(RawFrames)
  BY <1>1, <1>8
<1> QED BY <1>6, <1>7, <1>10, <1>11, <1>12, <1>13, <1>14

\* (The compiled walk.)
LEMMA TreeAssumed ==
  /\ \A c \in CompiledCalls : CompiledRootFrame(c) \in CompiledFrames
  /\ \A f \in CompiledFrames : f.depth \in Nat /\ ResultsC(f) \in Seq(CompiledEntries)
  /\ \A f \in CompiledFrames : ~TreeP!TooDeep(f) =>
       /\ ChildrenC(f) # {}
       /\ \A order : order \in ChildrenC(f) => order \in Seq(CompiledFrames)
  /\ \A c \in CompiledCalls : CompiledRootFrame(c).depth = 0
  /\ \A f \in CompiledFrames : ~TreeP!TooDeep(f) =>
       \A g \in TreeP!ChildSet(f) : g.depth = f.depth + 1
  /\ \A f \in CompiledFrames : ~TreeP!TooDeep(f) =>
       \A p, q \in ChildrenC(f) : TreeP!Reorders(q, p)
  /\ \A f \in CompiledFrames : ~TreeP!TooDeep(f) =>
       \A i \in DOMAIN ResultsC(f) :
         LET res == ResultsC(f)[i]
         IN  res.status = "compiled" => res = TreeP!Compiled(res.raw)
  /\ \A f \in CompiledFrames : ~TreeP!TooDeep(f) => TreeP!DeclaredIfBound(f)
<1>1. \A f : TreeP!TooDeep(f) = Tree!TooDeep(f)
  BY DEF TreeP!TooDeep, Tree!TooDeep
<1>2. \A f : TreeP!ChildSet(f) = Tree!ChildSet(f)
  BY DEF TreeP!ChildSet, Tree!ChildSet, TreeP!ToSet, Tree!ToSet
<1>3. \A p, q : TreeP!Reorders(q, p) = Reorders(q, p)
  BY DEF TreeP!Reorders, Reorders, TreeP!Bijection, Bijection, TreeP!Injection, Injection,
     TreeP!Surjection, Surjection, TreeP!IsInjective, IsInjective
<1>4. \A r : TreeP!Compiled(r) = Compiled(r)
  BY DEF TreeP!Compiled, Compiled
<1>5. \A f : TreeP!DeclaredIfBound(f) = Tree!DeclaredIfBound(f)
  BY DEF TreeP!DeclaredIfBound, Tree!DeclaredIfBound, TreeP!EffectiveScope, Tree!EffectiveScope,
     TreeP!ScopeOf, Tree!ScopeOf, TreeP!Null, Tree!Null
<1>6. ASSUME NEW c \in CompiledCalls
      PROVE  CompiledRootFrame(c) \in CompiledFrames /\ CompiledRootFrame(c).depth = 0
  BY TreeClosed DEF CompiledRootFrame
<1>7. ASSUME NEW f \in CompiledFrames
      PROVE  f.depth \in Nat /\ ResultsC(f) \in Seq(CompiledEntries)
  <2>1. IsFrame(f) /\ f.depth \in Nat
    BY TreeClosed
  <2>2. ResultsC(f) = f.node.validations
    BY DEF ResultsC, CompiledW!CompiledResults
  <2>3. IsSequence(ResultsC(f))
    BY <2>1, <2>2 DEF IsFrame, IsNode
  <2>4. ToSet(ResultsC(f)) \subseteq CompiledEntries
    BY DEF CompiledEntries
  <2>5. ResultsC(f) \in Seq(CompiledEntries)
    BY <2>3, <2>4 DEF IsSequence
  <2> QED BY <2>1, <2>5
<1>8. ASSUME NEW f \in CompiledFrames, ~Tree!TooDeep(f)
      PROVE  /\ ChildrenC(f) # {}
             /\ \A order \in ChildrenC(f) : order \in Seq(CompiledFrames)
             /\ \A g \in Tree!ChildSet(f) : g.depth = f.depth + 1
             /\ \A p \in ChildrenC(f), q \in ChildrenC(f) : Reorders(q, p)
  <2>1. IsFrame(f) /\ Tree!ChildSet(f) \subseteq CompiledFrames
    BY <1>8, TreeClosed
  <2>2. /\ ChildrenC(f) # {} /\ ChildrenC(f) \subseteq Orders(f)
        /\ Tree!ChildSet(f) = ChildrenOf(f)
    BY <2>1, TreeChildSet
  <2>3. \A order \in Orders(f) : IsSequence(order) /\ ToSet(order) = ChildrenOf(f)
    BY <2>1, OrdersVisit
  <2>4. \A p \in Orders(f), q \in Orders(f) : Reorders(q, p)
    BY <2>1, OrdersVisit
  <2>5. \A g \in ChildrenOf(f) : g.depth = f.depth + 1
    BY <2>1, ChildrenDeeper
  <2>6. \A order \in ChildrenC(f) : order \in Seq(CompiledFrames)
    BY <2>1, <2>2, <2>3 DEF IsSequence
  <2> QED BY <2>2, <2>4, <2>5, <2>6
<1>9. \A f \in CompiledFrames : ~Tree!TooDeep(f) => Tree!DeclaredIfBound(f)
  BY WalksAssumption
<1>10. \A f \in CompiledFrames : ~TreeP!TooDeep(f) =>
         \A g \in TreeP!ChildSet(f) : g.depth = f.depth + 1
  BY <1>1, <1>2, <1>8
<1>11. \A f \in CompiledFrames : ~TreeP!TooDeep(f) =>
         \A p, q \in ChildrenC(f) : TreeP!Reorders(q, p)
  BY <1>1, <1>3, <1>8
<1>12. \A f \in CompiledFrames : ~TreeP!TooDeep(f) =>
         \A i \in DOMAIN ResultsC(f) :
           LET res == ResultsC(f)[i]
           IN  res.status = "compiled" => res = TreeP!Compiled(res.raw)
  <2> SUFFICES ASSUME NEW f \in CompiledFrames, ~Tree!TooDeep(f),
                      NEW i \in DOMAIN ResultsC(f), ResultsC(f)[i].status = "compiled"
               PROVE  ResultsC(f)[i] = Compiled(ResultsC(f)[i].raw)
    BY <1>1, <1>4
  <2>1. PICK rules : IsSequence(rules) /\ ResultsC(f) = CompileSchemaValidations(rules)
    BY TreeEntriesOf
  <2>2. IsEntry(ResultsC(f)[i])
    BY <2>1, EntriesAreCompiled
  <2> QED BY <2>2 DEF IsEntry
<1>13. \A f \in CompiledFrames : ~TreeP!TooDeep(f) => TreeP!DeclaredIfBound(f)
  BY <1>1, <1>5, <1>9
<1>14. \A f \in CompiledFrames : ~TreeP!TooDeep(f) =>
         /\ ChildrenC(f) # {}
         /\ \A order : order \in ChildrenC(f) => order \in Seq(CompiledFrames)
  BY <1>1, <1>8
<1> QED BY <1>6, <1>7, <1>10, <1>11, <1>12, <1>13, <1>14

---------------------------------------------------------------------------
\* The recursion of a conversion is a table as well.
LEMMA ConversionsExist ==
  ASSUME NEW start, NEW n \in Nat
  PROVE  \E at : at = [d \in 0..n |-> IF d = 0 THEN start ELSE ConvertedBy(at[d - 1])]
<1> DEFINE Is(at, m) == at = [d \in 0..m |-> IF d = 0 THEN start ELSE ConvertedBy(at[d - 1])]
           S == {m \in Nat : \E at : Is(at, m)}
<1>1. 0 \in S
  <2>1. Is([d \in 0..0 |-> start], 0)
    OBVIOUS
  <2> QED BY <2>1
<1>2. ASSUME NEW m \in S
      PROVE  m + 1 \in S
  <2>1. PICK at : Is(at, m)
    OBVIOUS
  <2> DEFINE longer == [d \in 0..m + 1 |-> IF d = m + 1 THEN ConvertedBy(at[m]) ELSE at[d]]
  <2>2. ASSUME NEW d \in 0..m + 1
        PROVE  longer[d] = IF d = 0 THEN start ELSE ConvertedBy(longer[d - 1])
    <3>1. CASE d = m + 1
      BY <3>1
    <3>2. CASE d \in 0..m
      BY <3>2, <2>1
    <3> QED BY <3>1, <3>2
  <2>3. Is(longer, m + 1)
    BY <2>2
  <2>4. \E g : Is(g, m + 1)
    BY <2>3
  <2> QED BY <2>4
<1>3. n \in S
  <2> HIDE DEF S
  <2> QED BY <1>1, <1>2, Induct
<1> QED BY <1>3

\* What a conversion calls is nested one deeper.
LEMMA ConversionsStep ==
  ASSUME NEW nodes, NEW v
  PROVE  /\ ConversionsAt(nodes, v)[0] = {<<nodes, v>>}
         /\ \A d \in 0..MaxNesting : d # MaxNesting =>
              \A c \in ConversionsAt(nodes, v)[d] :
                ConversionsBelow(c[1], c[2]) \subseteq ConversionsAt(nodes, v)[d + 1]
<1> DEFINE start == {<<nodes, v>>}
           Is(at) == at = [nesting \in 0..MaxNesting |->
                             IF nesting = 0 THEN start ELSE ConvertedBy(at[nesting - 1])]
           table == ConversionsAt(nodes, v)
<1>1. table = CHOOSE at : Is(at)
  BY DEF ConversionsAt
<1>2. Is(table)
  <2>1. \E at : Is(at)
    <3> HIDE DEF start
    <3> QED BY NestingAssumption, ConversionsExist
  <2> QED BY <1>1, <2>1, Zenon
<1> HIDE DEF start, table
<1>3. table[0] = start
  BY <1>2, NestingAssumption
<1>4. \A d \in 0..MaxNesting : d # MaxNesting => table[d + 1] = ConvertedBy(table[d])
  <2> TAKE d \in 0..MaxNesting
  <2> HAVE d # MaxNesting
  <2>1. d + 1 \in 0..MaxNesting /\ d + 1 # 0 /\ (d + 1) - 1 = d
    BY NestingAssumption
  <2>2. table[d + 1] = ConvertedBy(table[(d + 1) - 1])
    BY <1>2, <2>1
  <2> QED BY <2>1, <2>2
<1>5. \A cs : \A c \in cs : ConversionsBelow(c[1], c[2]) \subseteq ConvertedBy(cs)
  BY DEF ConvertedBy
<1>6. \A d \in 0..MaxNesting : d # MaxNesting => \A c \in table[d] :
        ConversionsBelow(c[1], c[2]) \subseteq table[d + 1]
  BY <1>4, <1>5
<1> QED BY <1>3, <1>6 DEF start, table

\* (And a table of what is made.)
IsMade(copy, calls, n, at) ==
  at = [left \in 0..n |-> MadeOf(copy, calls[left], left, at[left - 1])]

\* There is such a table,
LEMMA MadeExist ==
  ASSUME NEW copy, NEW calls, NEW n \in Nat
  PROVE  \E at : IsMade(copy, calls, n, at)
<1> DEFINE Is(at, m) == at = [left \in 0..m |-> MadeOf(copy, calls[left], left, at[left - 1])]
           S == {m \in Nat : \E at : Is(at, m)}
<1>1. 0 \in S
  <2> DEFINE first == MadeOf(copy, calls[0], 0, {})
             at    == [left \in 0..0 |-> first]
  <2>1. \A below : MadeOf(copy, calls[0], 0, below) = first
    BY DEF MadeOf
  <2> HIDE DEF first
  <2>2. Is(at, 0)
    BY <2>1
  <2>3. \E g : Is(g, 0)
    BY <2>2
  <2> QED BY <2>3
<1>2. ASSUME NEW m \in S
      PROVE  m + 1 \in S
  <2>1. PICK at : Is(at, m)
    OBVIOUS
  <2> DEFINE longer == [left \in 0..m + 1 |->
                          IF left = m + 1 THEN MadeOf(copy, calls[m + 1], m + 1, at[m])
                          ELSE at[left]]
  <2>2. ASSUME NEW left \in 0..m + 1
        PROVE  longer[left] = MadeOf(copy, calls[left], left, longer[left - 1])
    <3>1. CASE left = m + 1
      BY <3>1
    <3>2. CASE left \in 1..m
      BY <3>2, <2>1
    <3>3. CASE left = 0
      <4>1. longer[0] = MadeOf(copy, calls[0], 0, at[0 - 1])
        BY <3>3, <2>1
      <4>2. \A x, y : MadeOf(copy, calls[0], 0, x) = MadeOf(copy, calls[0], 0, y)
        BY DEF MadeOf
      <4> HIDE DEF longer
      <4>3. longer[0] = MadeOf(copy, calls[0], 0, longer[0 - 1])
        BY <4>1, <4>2, Zenon
      <4> QED BY <3>3, <4>3
    <3> QED BY <3>1, <3>2, <3>3
  <2>3. Is(longer, m + 1)
    BY <2>2
  <2> HIDE DEF Is
  <2>4. m + 1 \in Nat
    OBVIOUS
  <2> QED BY <2>3, <2>4
<1>3. n \in S
  <2> HIDE DEF S
  <2> QED BY <1>1, <1>2, Induct
<1> QED BY <1>3 DEF IsMade

\* At the bound the value is left as it is; before it a conversion makes its value
\* of what those below it make.
LEMMA MadeStep ==
  ASSUME NEW copy, NEW nodes, NEW v, NEW d \in 0..MaxNesting, NEW c \in ConversionsAt(nodes, v)[d]
  PROVE  MadeAt(copy, nodes, v)[MaxNesting - d][c] =
           IF d = MaxNesting THEN c[2]
           ELSE ConvertInner(Reading(copy, c[1]), c[1], c[2], MadeAt(copy, nodes, v)[MaxNesting - d - 1])
<1> DEFINE Is(at) == at = [left \in 0..MaxNesting |->
                       MadeOf(copy, ConversionsAt(nodes, v)[MaxNesting - left], left, at[left - 1])]
           table == MadeAt(copy, nodes, v)
           calls == [left \in 0..MaxNesting |-> ConversionsAt(nodes, v)[MaxNesting - left]]
<1>1. table = CHOOSE at : Is(at)
  BY DEF MadeAt
<1>2. Is(table)
  <2>1. MaxNesting \in Nat
    BY NestingAssumption
  <2>2. PICK at : at = [l \in 0..MaxNesting |-> MadeOf(copy, calls[l], l, at[l - 1])]
    <3> DEFINE n == MaxNesting
    <3> HIDE DEF calls, n
    <3>0. n \in Nat
      BY <2>1 DEF n
    <3>1. \E at : IsMade(copy, calls, n, at)
      BY ONLY <3>0, MadeExist
    <3> QED BY <3>1 DEF n, IsMade
  <2>3. \A l \in 0..MaxNesting : calls[l] = ConversionsAt(nodes, v)[MaxNesting - l]
    OBVIOUS
  <2> HIDE DEF calls
  <2>4. Is(at)
    BY <2>2, <2>3
  <2>5. \E a : Is(a)
    BY <2>4
  <2> QED BY <1>1, <2>5, Zenon
<1> HIDE DEF table
<1> DEFINE left == MaxNesting - d
<1>3. /\ left \in 0..MaxNesting /\ MaxNesting - left = d
      /\ left = 0 <=> d = MaxNesting
      /\ left - 1 = MaxNesting - d - 1
  BY NestingAssumption
<1> HIDE DEF left
<1>4. table[left] = MadeOf(copy, ConversionsAt(nodes, v)[MaxNesting - left], left, table[left - 1])
  BY ONLY <1>2, <1>3
<1>5. table[left] = MadeOf(copy, ConversionsAt(nodes, v)[d], left, table[MaxNesting - d - 1])
  BY ONLY <1>3, <1>4, Zenon
<1>6. table[left][c] = IF left = 0 THEN c[2]
                       ELSE ConvertInner(Reading(copy, c[1]), c[1], c[2], table[MaxNesting - d - 1])
  BY <1>5 DEF MadeOf
<1>7. table[left][c] = IF d = MaxNesting THEN c[2]
                       ELSE ConvertInner(Reading(copy, c[1]), c[1], c[2], table[MaxNesting - d - 1])
  BY ONLY <1>3, <1>6, Zenon
<1> QED BY ONLY <1>7, Zenon DEF table, left

---------------------------------------------------------------------------
\* An Option that is not empty has one member.
LEMMA OneOfOption ==
  ASSUME NEW N, IsOption(N), N # {}
  PROVE  \E n \in N : N = {n}
<1>1. PICK n \in N : TRUE
  OBVIOUS
<1>2. N = {n}
  BY DEF IsOption
<1> QED BY <1>2

---------------------------------------------------------------------------
\* The default of a node is that of its twin, if none lies just past the cap.
LEMMA DefaultOfTwin ==
  ASSUME NEW schema, ~DefaultPastCap(schema), NEW d \in 0..MaxDepth + 1,
         NEW n \in NodesAt(schema)[d]
  PROVE  Twin(schema, d)[n].default = n.default
<1>1. CASE d = MaxDepth + 1
  <2>1. n.default = {}
    BY <1>1 DEF DefaultPastCap
  <2>2. Twin(schema, d)[n] = MarkerNode
    BY <1>1, TwinNodes
  <2>3. MarkerNode.default = {}
    BY DEF MarkerNode
  <2> QED BY <2>1, <2>2, <2>3
<1>2. CASE d \in 0..MaxDepth
  <2> DEFINE t == Twin(schema, d + 1)
             m == Twin(schema, d)[n]
  <2>1. m = CompileSchemaInner(n, t)
    BY <1>2, TwinNodes
  <2> HIDE DEF t, m
  <2>2. m.default = n.default
    BY ONLY <2>1 DEF CompileSchemaInner
  <2> QED BY <2>2 DEF m
<1> QED BY <1>1, <1>2, DepthAssumption

\* Filling in depends on the defaults of the properties alone.
LEMMA FillAlike ==
  ASSUME NEW fields, NEW p, NEW q, DOMAIN q = DOMAIN p,
         \A k \in DOMAIN p : q[k].default = p[k].default
  PROVE  FillMissing(fields, q) = FillMissing(fields, p)
<1> DEFINE mp == {k \in DOMAIN p \ DOMAIN fields : p[k].default # {}}
           mq == {k \in DOMAIN q \ DOMAIN fields : q[k].default # {}}
           fp == [k \in DOMAIN fields \cup mp |->
                    IF k \in DOMAIN fields THEN fields[k] ELSE CHOOSE d \in p[k].default : TRUE]
           fq == [k \in DOMAIN fields \cup mq |->
                    IF k \in DOMAIN fields THEN fields[k] ELSE CHOOSE d \in q[k].default : TRUE]
<1>1. mq = mp
  OBVIOUS
<1>2. \A k \in mp : (CHOOSE d \in q[k].default : TRUE) = CHOOSE d \in p[k].default : TRUE
  OBVIOUS
<1>3. fp = fq
  <2> HIDE DEF mp, mq
  <2> QED BY <1>1, <1>2
<1> QED BY <1>3 DEF FillMissing

\* An answer for an Option and for its twin.
AnsweredAlike(N, t, w, a, b) == \A s \in N : b[<<t[s], w>>] = a[<<s, w>>]

\* The defaulter goes on with the same answer.
LEMMA AnswerAlike ==
  ASSUME NEW N, IsOption(N), NEW t, NEW M, M = {t[s] : s \in N}, NEW w, NEW a, NEW b,
         AnsweredAlike(N, t, w, a, b)
  PROVE  AnswerFor(M, w, b) = AnswerFor(N, w, a)
<1>1. CASE N = {}
  BY <1>1 DEF AnswerFor
<1>2. CASE N # {}
  <2>0. PICK n \in N : N = {n}
    BY <1>2, OneOfOption
  <2>1. M = {t[n]}
    BY <2>0
  <2> DEFINE m == t[n]
  <2>2. AnswerFor(M, w, b) = b[<<m, w>>] /\ AnswerFor(N, w, a) = a[<<n, w>>]
    BY <2>0, <2>1 DEF AnswerFor
  <2>3. b[<<m, w>>] = a[<<n, w>>]
    BY <2>0 DEF AnsweredAlike
  <2> QED BY ONLY <2>2, <2>3
<1> QED BY <1>1, <1>2

\* The tables a and b answer the calls that a node, and its twin, have below.
AnswersAlike(n, m, t, w, a, b) ==
  \A s, u : <<s, u>> \in CallsBelow(n, w) /\ <<t[s], u>> \in CallsBelow(m, w)
            => b[<<t[s], u>>] = a[<<s, u>>]

\* One call of the defaulter on a node, and on its twin.
LEMMA InnerAlike ==
  ASSUME NEW n, IsNode(n), NEW t, NEW m, m = CompileSchemaInner(n, t), NEW w, NEW a, NEW b,
         \A k \in DOMAIN n.properties : t[n.properties[k]].default = n.properties[k].default,
         AnswersAlike(n, m, t, w, a, b)
  PROVE  ApplyDefaultsInner(m, w, b) = ApplyDefaultsInner(n, w, a)
<1>1. /\ m.properties = [k \in DOMAIN n.properties |-> t[n.properties[k]]]
      /\ m.items = {t[s] : s \in n.items}
      /\ m.additional = {t[s] : s \in n.additional}
      /\ m.preserveUnknown = n.preserveUnknown
  BY DEF CompileSchemaInner
<1>2. IsOption(n.items) /\ IsOption(n.additional)
  BY DEF IsNode
<1>3. CASE IsObject(w)
  <2>1. ASSUME NEW k \in Keys(w)
        PROVE  AnswerFor(SchemaOfField(m, k), w.fields[k], b)
                 = AnswerFor(SchemaOfField(n, k), w.fields[k], a)
    <3> DEFINE N == SchemaOfField(n, k)
               M == SchemaOfField(m, k)
               u == w.fields[k]
    <3>1. IsOption(N) /\ M = {t[s] : s \in N}
      <4>1. CASE k \in DOMAIN n.properties
        <5>1. N = {n.properties[k]} /\ M = {t[n.properties[k]]}
          BY <1>1, <4>1 DEF SchemaOfField
        <5> QED BY <5>1 DEF IsOption
      <4>2. CASE k \notin DOMAIN n.properties
        <5>1. /\ N = IF n.preserveUnknown THEN {} ELSE n.additional
              /\ M = IF n.preserveUnknown THEN {} ELSE m.additional
          BY <1>1, <4>2 DEF SchemaOfField
        <5> QED BY <5>1, <1>1, <1>2 DEF IsOption
      <4> QED BY <4>1, <4>2
    <3>2. N \X {u} \subseteq CallsBelow(n, w) /\ M \X {u} \subseteq CallsBelow(m, w)
      BY <1>3 DEF CallsBelow
    <3> HIDE DEF N, M, u
    <3>3. ASSUME NEW s \in N
          PROVE  b[<<t[s], u>>] = a[<<s, u>>]
      <4>1. <<s, u>> \in CallsBelow(n, w) /\ <<t[s], u>> \in CallsBelow(m, w)
        BY <3>1, <3>2
      <4> QED BY <4>1 DEF AnswersAlike
    <3>4. AnswerFor(M, u, b) = AnswerFor(N, u, a)
      <4>1. AnsweredAlike(N, t, u, a, b)
        BY <3>3 DEF AnsweredAlike
      <4> QED BY ONLY <3>1, <4>1, AnswerAlike
    <3> QED BY <3>4 DEF N, M, u
  <2> DEFINE fa == [k \in Keys(w) |-> AnswerFor(SchemaOfField(n, k), w.fields[k], a)]
             fb == [k \in Keys(w) |-> AnswerFor(SchemaOfField(m, k), w.fields[k], b)]
  <2>2. fb = fa
    BY <2>1
  <2>3. /\ ApplyDefaultsInner(n, w, a) = Object(FillMissing(fa, n.properties))
        /\ ApplyDefaultsInner(m, w, b) = Object(FillMissing(fb, m.properties))
    BY <1>3 DEF ApplyDefaultsInner
  <2> HIDE DEF fa, fb
  <2>4. FillMissing(fa, m.properties) = FillMissing(fa, n.properties)
    BY <1>1, FillAlike
  <2> QED BY <2>2, <2>3, <2>4
<1>4. CASE ~IsObject(w) /\ IsArray(w)
  <2>1. ASSUME NEW i \in DOMAIN w.elems
        PROVE  AnswerFor(m.items, w.elems[i], b) = AnswerFor(n.items, w.elems[i], a)
    <3> DEFINE N == n.items
               M == m.items
               u == w.elems[i]
    <3>1. IsOption(N) /\ M = {t[s] : s \in N}
      BY <1>1, <1>2
    <3>2. N \X {u} \subseteq CallsBelow(n, w) /\ M \X {u} \subseteq CallsBelow(m, w)
      BY <1>4 DEF CallsBelow
    <3> HIDE DEF N, M, u
    <3>3. ASSUME NEW s \in N
          PROVE  b[<<t[s], u>>] = a[<<s, u>>]
      <4>1. <<s, u>> \in CallsBelow(n, w) /\ <<t[s], u>> \in CallsBelow(m, w)
        BY <3>1, <3>2
      <4> QED BY <4>1 DEF AnswersAlike
    <3>4. AnswerFor(M, u, b) = AnswerFor(N, u, a)
      <4>1. AnsweredAlike(N, t, u, a, b)
        BY <3>3 DEF AnsweredAlike
      <4> QED BY ONLY <3>1, <4>1, AnswerAlike
    <3> QED BY <3>4 DEF N, M, u
  <2> QED BY <1>4, <2>1 DEF ApplyDefaultsInner
<1>5. CASE ~IsObject(w) /\ ~IsArray(w)
  BY <1>5 DEF ApplyDefaultsInner
<1> QED BY <1>3, <1>4, <1>5

\* Both copies of the defaulter answer the same.
LEMMA DefaultsAlike ==
  ASSUME NEW c \in RawCall, ~DefaultPastCap(c.schema), NEW v
  PROVE  ApplyDefaults(CompileSchema(c.schema), v) = ApplyDefaults(c.schema, v)
<1> DEFINE schema == c.schema
           tree   == CompileSchema(schema)
           R == CallsAt(schema, v)
           M == CallsAt(tree, v)
           A == AnswersAt(schema, v)
           B == AnswersAt(tree, v)
           Alike(d) == \A s \in NodesAt(schema)[d] : \A w :
                         <<s, w>> \in R[d] /\ <<Twin(schema, d)[s], w>> \in M[d] =>
                           B[MaxDepth + 1 - d][<<Twin(schema, d)[s], w>>]
                             = A[MaxDepth + 1 - d][<<s, w>>]
           S == {l \in Nat : l <= MaxDepth + 1 => Alike(MaxDepth + 1 - l)}
<1>1. 0 \in S
  <2>1. MaxDepth + 1 - 0 = MaxDepth + 1 /\ MaxDepth + 1 \in 0..MaxDepth + 1
    BY DepthAssumption
  <2>2. \A s, w : <<s, w>> \in R[MaxDepth + 1] => A[MaxDepth + 1 - (MaxDepth + 1)][<<s, w>>] = w
    BY <2>1, AnswersStep
  <2>3. \A s, w : <<s, w>> \in M[MaxDepth + 1] => B[MaxDepth + 1 - (MaxDepth + 1)][<<s, w>>] = w
    BY <2>1, AnswersStep
  <2>4. Alike(MaxDepth + 1)
    BY <2>2, <2>3
  <2> QED BY <2>1, <2>4
<1>2. ASSUME NEW l \in S
      PROVE  l + 1 \in S
  <2> SUFFICES ASSUME l + 1 <= MaxDepth + 1
               PROVE  Alike(MaxDepth + 1 - (l + 1))
    OBVIOUS
  <2> DEFINE d == MaxDepth - l
  <2>1. /\ MaxDepth + 1 - (l + 1) = d /\ MaxDepth + 1 - l = d + 1
        /\ d \in 0..MaxDepth /\ d \in 0..MaxDepth + 1 /\ d # MaxDepth + 1
        /\ d + 1 \in 0..MaxDepth + 1
        /\ MaxDepth + 1 - (d + 1) = MaxDepth - d
        /\ l <= MaxDepth + 1
    BY DepthAssumption
  <2>2. Alike(d + 1)
    BY <2>1
  <2> HIDE DEF d
  <2>3. ASSUME NEW s \in NodesAt(schema)[d], NEW w, <<s, w>> \in R[d],
               <<Twin(schema, d)[s], w>> \in M[d]
        PROVE  B[MaxDepth + 1 - d][<<Twin(schema, d)[s], w>>] = A[MaxDepth + 1 - d][<<s, w>>]
    <3> DEFINE t == Twin(schema, d + 1)
               m == Twin(schema, d)[s]
               a == A[MaxDepth - d]
               b == B[MaxDepth - d]
    <3>1. m = CompileSchemaInner(s, t)
      BY <2>1, TwinNodes
    <3>2. A[MaxDepth + 1 - d][<<s, w>>] = ApplyDefaultsInner(s, w, a)
      BY <2>1, <2>3, AnswersStep
    <3>3. B[MaxDepth + 1 - d][<<m, w>>] = ApplyDefaultsInner(m, w, b)
      BY <2>1, <2>3, AnswersStep
    <3>4. IsNode(s)
      BY <2>1, <2>3, NodesAreNodes
    <3>5. SubSchemas(s) \subseteq NodesAt(schema)[d + 1]
      BY <2>1, NodesStep
    <3>6. \A k \in DOMAIN s.properties : t[s.properties[k]].default = s.properties[k].default
      <4> TAKE k \in DOMAIN s.properties
      <4>1. s.properties[k] \in NodesAt(schema)[d + 1]
        BY <3>5 DEF SubSchemas
      <4> QED BY <2>1, <4>1, DefaultOfTwin
    <3>7. CallsBelow(s, w) \subseteq R[d + 1] /\ CallsBelow(m, w) \subseteq M[d + 1]
      <4>1. \A x \in R[d] : CallsBelow(x[1], x[2]) \subseteq R[d + 1]
        BY <2>1, CallsStep
      <4>2. \A x \in M[d] : CallsBelow(x[1], x[2]) \subseteq M[d + 1]
        BY <2>1, CallsStep
      <4> QED BY <2>3, <4>1, <4>2
    <3>8. \A x, u : <<x, u>> \in CallsBelow(s, w) => x \in SubSchemas(s)
      BY DEF CallsBelow, SchemaOfField, SubSchemas
    <3>9. AnswersAlike(s, m, t, w, a, b)
      <4> SUFFICES ASSUME NEW x, NEW u, <<x, u>> \in CallsBelow(s, w), <<t[x], u>> \in CallsBelow(m, w)
                   PROVE  b[<<t[x], u>>] = a[<<x, u>>]
        BY DEF AnswersAlike
      <4>1. x \in NodesAt(schema)[d + 1] /\ <<x, u>> \in R[d + 1] /\ <<t[x], u>> \in M[d + 1]
        BY <3>5, <3>7, <3>8
      <4>2. B[MaxDepth + 1 - (d + 1)][<<t[x], u>>] = A[MaxDepth + 1 - (d + 1)][<<x, u>>]
        BY <2>2, <4>1
      <4> QED BY <2>1, <4>2
    <3> HIDE DEF t, m, a, b
    <3>10. ApplyDefaultsInner(m, w, b) = ApplyDefaultsInner(s, w, a)
      BY ONLY <3>1, <3>4, <3>6, <3>9, InnerAlike
    <3>11. B[MaxDepth + 1 - d][<<m, w>>] = A[MaxDepth + 1 - d][<<s, w>>]
      BY ONLY <3>2, <3>3, <3>10
    <3> QED BY <3>11 DEF m
  <2>4. Alike(d)
    BY <2>3
  <2> QED BY <2>1, <2>4
<1>3. Nat \subseteq S
  <2> HIDE DEF S
  <2> QED BY <1>1, <1>2, Induct
<1>4. Alike(0)
  <2>1. MaxDepth + 1 \in Nat /\ MaxDepth + 1 <= MaxDepth + 1 /\ MaxDepth + 1 - (MaxDepth + 1) = 0
    BY DepthAssumption
  <2>2. MaxDepth + 1 \in S
    BY <1>3, <2>1
  <2>3. Alike(MaxDepth + 1 - (MaxDepth + 1))
    BY <2>1, <2>2
  <2> HIDE DEF Alike
  <2> QED BY ONLY <2>1, <2>3
<1>5. schema \in NodesAt(schema)[0] /\ tree = Twin(schema, 0)[schema]
  BY RootTwin
<1>6. <<schema, v>> \in R[0] /\ <<tree, v>> \in M[0]
  BY CallsStep
<1>7. MaxDepth + 1 - 0 = MaxDepth + 1
  BY DepthAssumption
<1> HIDE DEF schema, tree, R, M, A, B
<1>8. B[MaxDepth + 1][<<tree, v>>] = A[MaxDepth + 1][<<schema, v>>]
  BY <1>4, <1>5, <1>6, <1>7
<1> QED BY <1>8 DEF ApplyDefaults, A, B, schema, tree

---------------------------------------------------------------------------
\* The Options under which the two conversions work: none in either, or a node
\* before the cap and its twin.
Twins(schema, N, M) ==
  \E d \in 0..MaxDepth :
    /\ N \subseteq NodesAt(schema)[d] /\ IsOption(N)
    /\ M = {Twin(schema, d)[s] : s \in N}

\* What is below a node of a schema under the cap is a twin of what is below its
\* twin.
LEMMA TwinsOfBelow ==
  ASSUME NEW schema, FitsUnderCap(schema), NEW d \in 0..MaxDepth, NEW n \in NodesAt(schema)[d],
         NEW N, N \subseteq SubSchemas(n), IsOption(N),
         NEW M, M = {Twin(schema, d + 1)[s] : s \in N}
  PROVE  Twins(schema, N, M)
<1>1. N \subseteq NodesAt(schema)[d + 1]
  BY NodesStep
<1>2. CASE d = MaxDepth
  <2>1. N = {} /\ M = {}
    BY <1>1, <1>2 DEF FitsUnderCap
  <2>2. 0 \in 0..MaxDepth
    BY DepthAssumption
  <2> QED BY <2>1, <2>2 DEF Twins, IsOption
<1>3. CASE d # MaxDepth
  <2>1. d + 1 \in 0..MaxDepth
    BY <1>3, DepthAssumption
  <2> QED BY <1>1, <2>1 DEF Twins
<1> QED BY <1>2, <1>3

\* Twins are read alike, and what is converted below them is converted under twins.
LEMMA TwinsBelow ==
  ASSUME NEW c \in RawCall, FitsUnderCap(c.schema), NEW N, NEW M, Twins(c.schema, N, M)
  PROVE  /\ Reading("compiled", M) = Reading("raw", N)
         /\ \A k : Twins(c.schema, FieldNodes(N, k), FieldNodes(M, k))
         /\ Twins(c.schema, ItemNodes(N), ItemNodes(M))
<1> DEFINE schema == c.schema
<1>1. PICK d \in 0..MaxDepth : /\ N \subseteq NodesAt(schema)[d] /\ IsOption(N)
                               /\ M = {Twin(schema, d)[s] : s \in N}
  BY DEF Twins
<1>2. CASE N = {}
  <2>1. M = {}
    BY <1>1, <1>2
  <2>2. Twins(schema, {}, {})
    BY <1>1, <1>2, <2>1 DEF Twins
  <2>3. \A k : FieldNodes(N, k) = {} /\ FieldNodes(M, k) = {}
    BY <1>2, <2>1 DEF FieldNodes
  <2>4. ItemNodes(N) = {} /\ ItemNodes(M) = {}
    BY <1>2, <2>1 DEF ItemNodes
  <2>5. Reading("compiled", M) = Plain /\ Reading("raw", N) = Plain
    BY <1>2, <2>1 DEF Reading
  <2> QED BY <2>2, <2>3, <2>4, <2>5
<1>3. CASE N # {}
  <2>1. PICK n \in N : N = {n}
    BY <1>1, <1>3, OneOfOption
  <2> DEFINE t == Twin(schema, d + 1)
             m == Twin(schema, d)[n]
  <2>2. n \in NodesAt(schema)[d] /\ M = {m} /\ d \in 0..MaxDepth + 1
    BY <1>1, <2>1, DepthAssumption
  <2>3. m = CompileSchemaInner(n, t)
    BY <2>2, TwinNodes
  <2>4. IsNode(n)
    BY <2>2, NodesAreNodes
  <2>5. \A R : R \subseteq SubSchemas(n) /\ IsOption(R) => Twins(schema, R, {t[s] : s \in R})
    BY <2>2, TwinsOfBelow
  <2> HIDE DEF t, m, schema
  <2>6. /\ m.properties = [k \in DOMAIN n.properties |-> t[n.properties[k]]]
        /\ m.items = {t[s] : s \in n.items}
        /\ m.additional = {t[s] : s \in n.additional}
        /\ m.isMap = (n.additionalProperties \notin {"absent", "false"})
        /\ m.embedded = n.embedded
        /\ m.format = SchemaFormat(n)
    BY <2>3 DEF CompileSchemaInner
  <2>7. Reading("compiled", M) = Reading("raw", N)
    <3>1. Reading("compiled", M) = ReadCompiled(m) /\ Reading("raw", N) = ReadRaw(n)
      BY <2>1, <2>2 DEF Reading
    <3> QED BY <2>6, <3>1 DEF ReadCompiled, ReadRaw
  <2>8. Twins(schema, ItemNodes(N), ItemNodes(M))
    <3>1. ItemNodes(N) = n.items /\ ItemNodes(M) = m.items
      BY <2>1, <2>2 DEF ItemNodes
    <3>2. n.items \subseteq SubSchemas(n) /\ IsOption(n.items)
      BY <2>4 DEF SubSchemas, IsNode
    <3> QED BY <2>5, <2>6, <3>1, <3>2
  <2>9. ASSUME NEW k
        PROVE  Twins(schema, FieldNodes(N, k), FieldNodes(M, k))
    <3>1. CASE k \in DOMAIN n.properties
      <4> DEFINE R == {n.properties[k]}
      <4>1. FieldNodes(N, k) = R
        BY <2>1, <3>1 DEF FieldNodes
      <4>2. FieldNodes(M, k) = {t[n.properties[k]]}
        BY <2>2, <2>6, <3>1 DEF FieldNodes
      <4>3. R \subseteq SubSchemas(n) /\ IsOption(R)
        BY <3>1 DEF SubSchemas, IsOption
      <4>4. {t[s] : s \in R} = {t[n.properties[k]]}
        OBVIOUS
      <4> HIDE DEF R
      <4> QED BY <2>5, <4>1, <4>2, <4>3, <4>4
    <3>2. CASE k \notin DOMAIN n.properties
      <4>1. FieldNodes(N, k) = n.additional
        BY <2>1, <3>2 DEF FieldNodes
      <4>2. FieldNodes(M, k) = m.additional
        BY <2>2, <2>6, <3>2 DEF FieldNodes
      <4>3. n.additional \subseteq SubSchemas(n) /\ IsOption(n.additional)
        BY <2>4 DEF SubSchemas, IsNode
      <4> QED BY <2>5, <2>6, <4>1, <4>2, <4>3
    <3> QED BY <3>1, <3>2
  <2> QED BY <2>7, <2>8, <2>9 DEF schema
<1> QED BY <1>2, <1>3

\* One conversion under a node and under its twin.
LEMMA ConvertAlike ==
  ASSUME NEW r, NEW N, NEW M, NEW w, NEW a, NEW b,
         IsObject(w) => \A k \in Keys(w) :
           b[<<FieldNodes(M, k), w.fields[k]>>] = a[<<FieldNodes(N, k), w.fields[k]>>],
         ~IsObject(w) /\ IsArray(w) => \A i \in DOMAIN w.elems :
           b[<<ItemNodes(M), w.elems[i]>>] = a[<<ItemNodes(N), w.elems[i]>>]
  PROVE  ConvertInner(r, M, w, b) = ConvertInner(r, N, w, a)
<1>1. CASE IsObject(w)
  <2> DEFINE fa == [k \in Keys(w) |-> a[<<FieldNodes(N, k), w.fields[k]>>]]
             fb == [k \in Keys(w) |-> b[<<FieldNodes(M, k), w.fields[k]>>]]
  <2>1. fb = fa
    BY <1>1
  <2>2. ConvertInner(r, N, w, a) = CelMap(WithEmbedded(Rekey(w, fa, r.isMap), r.embedded))
    BY <1>1 DEF ConvertInner
  <2>3. ConvertInner(r, M, w, b) = CelMap(WithEmbedded(Rekey(w, fb, r.isMap), r.embedded))
    BY <1>1 DEF ConvertInner
  <2> HIDE DEF fa, fb
  <2> QED BY ONLY <2>1, <2>2, <2>3, Zenon
<1>2. CASE ~IsObject(w) /\ IsArray(w)
  BY <1>2 DEF ConvertInner
<1>3. CASE ~IsObject(w) /\ ~IsArray(w)
  BY <1>3 DEF ConvertInner
<1> QED BY <1>1, <1>2, <1>3

\* Both copies of the conversion make the same value of a document.
LEMMA ConversionsAlike ==
  ASSUME NEW c \in RawCall, FitsUnderCap(c.schema), NEW nodes, NEW twins,
         Twins(c.schema, nodes, twins), NEW v
  PROVE  Converted("compiled", twins, v) = Converted("raw", nodes, v)
<1> DEFINE R == ConversionsAt(nodes, v)
           M == ConversionsAt(twins, v)
           A == MadeAt("raw", nodes, v)
           B == MadeAt("compiled", twins, v)
           Alike(d) == \A N, T, w :
                         /\ <<N, w>> \in R[d] /\ <<T, w>> \in M[d] /\ Twins(c.schema, N, T)
                         => B[MaxNesting - d][<<T, w>>] = A[MaxNesting - d][<<N, w>>]
           S == {l \in Nat : l <= MaxNesting => Alike(MaxNesting - l)}
<1>1. 0 \in S
  <2>1. MaxNesting - 0 = MaxNesting /\ MaxNesting \in 0..MaxNesting
    BY NestingAssumption
  <2>2. \A N, w : <<N, w>> \in R[MaxNesting] => A[MaxNesting - MaxNesting][<<N, w>>] = w
    BY <2>1, MadeStep
  <2>3. \A N, w : <<N, w>> \in M[MaxNesting] => B[MaxNesting - MaxNesting][<<N, w>>] = w
    BY <2>1, MadeStep
  <2>4. Alike(MaxNesting)
    BY <2>2, <2>3
  <2> QED BY <2>1, <2>4
<1>2. ASSUME NEW l \in S
      PROVE  l + 1 \in S
  <2> SUFFICES ASSUME l + 1 <= MaxNesting
               PROVE  Alike(MaxNesting - (l + 1))
    OBVIOUS
  <2> DEFINE d == MaxNesting - (l + 1)
  <2>1. /\ MaxNesting - l = d + 1
        /\ d \in 0..MaxNesting /\ d # MaxNesting
        /\ d + 1 \in 0..MaxNesting
        /\ MaxNesting - (d + 1) = MaxNesting - d - 1
        /\ l <= MaxNesting
    BY NestingAssumption
  <2>2. Alike(d + 1)
    BY <2>1
  <2> HIDE DEF d
  <2>3. ASSUME NEW N, NEW T, NEW w, <<N, w>> \in R[d], <<T, w>> \in M[d], Twins(c.schema, N, T)
        PROVE  B[MaxNesting - d][<<T, w>>] = A[MaxNesting - d][<<N, w>>]
    <3> DEFINE a == A[MaxNesting - d - 1]
               b == B[MaxNesting - d - 1]
               r == Reading("raw", N)
    <3>1. A[MaxNesting - d][<<N, w>>] = ConvertInner(r, N, w, a)
      BY <2>1, <2>3, MadeStep
    <3>2. Reading("compiled", T) = r
      BY <2>3, TwinsBelow
    <3>3. B[MaxNesting - d][<<T, w>>] = ConvertInner(Reading("compiled", T), T, w, b)
      BY <2>1, <2>3, MadeStep
    <3>4. ConversionsBelow(N, w) \subseteq R[d + 1] /\ ConversionsBelow(T, w) \subseteq M[d + 1]
      <4>1. \A x \in R[d] : ConversionsBelow(x[1], x[2]) \subseteq R[d + 1]
        BY <2>1, ConversionsStep
      <4>2. \A x \in M[d] : ConversionsBelow(x[1], x[2]) \subseteq M[d + 1]
        BY <2>1, ConversionsStep
      <4> QED BY <2>3, <4>1, <4>2
    <3>5. ASSUME NEW P, NEW Q, NEW u, <<P, u>> \in ConversionsBelow(N, w),
                 <<Q, u>> \in ConversionsBelow(T, w), Twins(c.schema, P, Q)
          PROVE  b[<<Q, u>>] = a[<<P, u>>]
      <4>1. <<P, u>> \in R[d + 1] /\ <<Q, u>> \in M[d + 1]
        BY <3>4, <3>5
      <4>2. B[MaxNesting - (d + 1)][<<Q, u>>] = A[MaxNesting - (d + 1)][<<P, u>>]
        BY <2>2, <3>5, <4>1
      <4> QED BY <2>1, <4>2
    <3> HIDE DEF a, b, r
    <3>6. ASSUME IsObject(w), NEW k \in Keys(w)
          PROVE  b[<<FieldNodes(T, k), w.fields[k]>>] = a[<<FieldNodes(N, k), w.fields[k]>>]
      <4>1. /\ <<FieldNodes(N, k), w.fields[k]>> \in ConversionsBelow(N, w)
            /\ <<FieldNodes(T, k), w.fields[k]>> \in ConversionsBelow(T, w)
        BY <3>6 DEF ConversionsBelow
      <4>2. Twins(c.schema, FieldNodes(N, k), FieldNodes(T, k))
        BY <2>3, TwinsBelow
      <4> QED BY <3>5, <4>1, <4>2
    <3>7. ASSUME ~IsObject(w), IsArray(w), NEW i \in DOMAIN w.elems
          PROVE  b[<<ItemNodes(T), w.elems[i]>>] = a[<<ItemNodes(N), w.elems[i]>>]
      <4>1. /\ <<ItemNodes(N), w.elems[i]>> \in ConversionsBelow(N, w)
            /\ <<ItemNodes(T), w.elems[i]>> \in ConversionsBelow(T, w)
        BY <3>7 DEF ConversionsBelow
      <4>2. Twins(c.schema, ItemNodes(N), ItemNodes(T))
        BY <2>3, TwinsBelow
      <4> QED BY <3>5, <4>1, <4>2
    <3>8. ConvertInner(r, T, w, b) = ConvertInner(r, N, w, a)
      BY <3>6, <3>7, ConvertAlike
    <3> QED BY ONLY <3>1, <3>2, <3>3, <3>8
  <2>4. Alike(d)
    BY <2>3
  <2> QED BY <2>4 DEF d
<1>3. Nat \subseteq S
  <2> HIDE DEF S
  <2> QED BY <1>1, <1>2, Induct
<1>4. Alike(0)
  <2>1. MaxNesting \in Nat /\ MaxNesting <= MaxNesting /\ MaxNesting - MaxNesting = 0
    BY NestingAssumption
  <2>2. MaxNesting \in S
    BY <1>3, <2>1
  <2>3. Alike(MaxNesting - MaxNesting)
    BY <2>1, <2>2
  <2> HIDE DEF Alike
  <2> QED BY ONLY <2>1, <2>3
<1>5. <<nodes, v>> \in R[0] /\ <<twins, v>> \in M[0]
  BY ConversionsStep
<1>6. MaxNesting - 0 = MaxNesting
  BY NestingAssumption
<1> HIDE DEF R, M, A, B
<1>7. B[MaxNesting][<<twins, v>>] = A[MaxNesting][<<nodes, v>>]
  BY <1>4, <1>5, <1>6
<1> QED BY <1>7 DEF Converted, A, B

\* Within the cap a value is converted alike under a node and under its twin.
LEMMA ConvertedAlike ==
  ASSUME NEW c \in RawCall, FitsUnderCap(c.schema), NEW d \in 0..MaxDepth,
         NEW n \in NodesAt(c.schema)[d], NEW v
  PROVE  JsonToCelWithCompiled(Twin(c.schema, d)[n], v) = JsonToCelWithSchema(n, v)
<1> DEFINE m == Twin(c.schema, d)[n]
<1>1. Twins(c.schema, {n}, {m})
  BY DEF Twins, IsOption
<1> HIDE DEF m
<1>2. Converted("compiled", {m}, v) = Converted("raw", {n}, v)
  BY <1>1, ConversionsAlike
<1> QED BY <1>2 DEF JsonToCelWithCompiled, JsonToCelWithSchema, m

---------------------------------------------------------------------------
\* Two lists that match entry by entry.
Pairs(G, p, q) == DOMAIN q = DOMAIN p /\ \A i \in DOMAIN p : <<p[i], q[i]>> \in G

\* Matching lists joined to matching lists match.
LEMMA PairsOfBoth ==
  ASSUME NEW G, NEW p, NEW q, NEW r, NEW s, IsSequence(p), IsSequence(q),
         IsSequence(r), IsSequence(s), Pairs(G, p, q), Pairs(G, r, s)
  PROVE  /\ IsSequence(p \o r) /\ IsSequence(q \o s)
         /\ Pairs(G, p \o r, q \o s)
<1> DEFINE S == ToSet(p) \cup ToSet(q) \cup ToSet(r) \cup ToSet(s)
           pr == p \o r
           qs == q \o s
<1>1. p \in Seq(S) /\ q \in Seq(S) /\ r \in Seq(S) /\ s \in Seq(S)
  BY DEF IsSequence
<1> HIDE DEF S
<1>2. Len(q) = Len(p) /\ Len(s) = Len(r)
  BY <1>1 DEF Pairs
<1>3. /\ DOMAIN pr = 1..Len(p) + Len(r) /\ DOMAIN qs = DOMAIN pr
      /\ pr \in Seq(S) /\ qs \in Seq(S)
  BY <1>1, <1>2
<1>4. ASSUME NEW i \in DOMAIN pr
      PROVE  <<pr[i], qs[i]>> \in G
  <2>1. CASE i <= Len(p)
    <3>1. i \in DOMAIN p /\ i \in DOMAIN q
      BY <1>1, <1>2, <1>3, <2>1
    <3>2. pr[i] = p[i]
      BY <1>1, <1>3, <2>1
    <3>3. qs[i] = q[i]
      BY <1>1, <1>2, <1>3, <2>1
    <3> QED BY <3>1, <3>2, <3>3 DEF Pairs
  <2>2. CASE i > Len(p)
    <3>1. i - Len(p) \in DOMAIN r
      BY <1>1, <1>3, <2>2
    <3>2. pr[i] = r[i - Len(p)]
      BY <1>1, <1>3, <2>2
    <3>3. qs[i] = s[i - Len(p)]
      BY <1>1, <1>2, <1>3, <2>2
    <3> QED BY <3>1, <3>2, <3>3 DEF Pairs
  <2>3. i \in Nat /\ Len(p) \in Nat
    BY <1>1, <1>3
  <2>4. i <= Len(p) \/ i > Len(p)
    BY ONLY <2>3
  <2> QED BY ONLY <2>1, <2>2, <2>4, Zenon
<1> HIDE DEF pr, qs
<1>5. pr \in Seq(ToSet(pr)) /\ qs \in Seq(ToSet(qs))
  BY <1>3 DEF ToSet
<1>6. Pairs(G, pr, qs)
  BY <1>3, <1>4 DEF Pairs
<1> QED BY <1>5, <1>6 DEF IsSequence, pr, qs

---------------------------------------------------------------------------
\* The frame of the compiled walk that corresponds to one of the raw walk.
TwinFrame(schema, f) == [f EXCEPT !.node = Twin(schema, f.depth)[f.node]]

\* (Field by field.)
LEMMA TwinFrameIs ==
  ASSUME NEW schema, NEW f, IsFrame(f)
  PROVE  TwinFrame(schema, f) =
           [node |-> Twin(schema, f.depth)[f.node], value |-> f.value, old |-> f.old,
            path |-> f.path, depth |-> f.depth, root |-> f.root]
<1> DEFINE m == Twin(schema, f.depth)[f.node]
<1> HIDE DEF m
<1>1. f = [node |-> f.node, value |-> f.value, old |-> f.old, path |-> f.path,
           depth |-> f.depth, root |-> f.root]
  BY DEF IsFrame
<1>2. [f EXCEPT !.node = m] =
        [node |-> m, value |-> f.value, old |-> f.old, path |-> f.path,
         depth |-> f.depth, root |-> f.root]
  BY <1>1
<1> QED BY <1>2 DEF TwinFrame, m

\* The arguments of a call, one by one.
FrameOf(node, value, old, path, depth, root) ==
  [node |-> node, value |-> value, old |-> old, path |-> path, depth |-> depth, root |-> root]

\* (The frame of a branch, field by field.)
LEMMA BranchFrameIs ==
  ASSUME NEW n, NEW v, NEW o, NEW p, NEW d, NEW r, NEW s
  PROVE  BranchFrame(FrameOf(n, v, o, p, d, r), s) = FrameOf(s, v, o, p, d + 1, r)
<1> DEFINE x == FrameOf(n, v, o, p, d, r)
           k == d + 1
<1>1. x.depth + 1 = k
  BY DEF FrameOf
<1>2. BranchFrame(x, s) = [x EXCEPT !.node = s, !.depth = x.depth + 1]
  <2> HIDE DEF x
  <2> QED BY DEF BranchFrame
<1> HIDE DEF k
<1>3. [x EXCEPT !.node = s, !.depth = k] = FrameOf(s, v, o, p, k, r)
  <2> DEFINE y == [x EXCEPT !.node = s, !.depth = k]
             names == {"node", "value", "old", "path", "depth", "root"}
  <2>1. /\ x = [i \in names |-> x[i]] /\ x.value = v /\ x.old = o /\ x.path = p /\ x.root = r
    BY DEF FrameOf
  <2> HIDE DEF x
  <2>2. y = [i \in names |-> y[i]]
    BY <2>1
  <2>3. /\ y.node = s /\ y.depth = k /\ y.value = x.value /\ y.old = x.old
        /\ y.path = x.path /\ y.root = x.root
    BY <2>1
  <2> HIDE DEF y
  <2>4. y = FrameOf(y.node, y.value, y.old, y.path, y.depth, y.root)
    BY <2>2 DEF FrameOf
  <2>5. y = FrameOf(s, v, o, p, k, r)
    BY ONLY <2>1, <2>3, <2>4
  <2> QED BY <2>5 DEF y
<1> HIDE DEF x
<1>4. BranchFrame(x, s) = FrameOf(s, v, o, p, k, r)
  BY ONLY <1>1, <1>2, <1>3, Zenon
<1> QED BY <1>4 DEF x, k

\* The twins of a frame's children are the children of its twin.
LEMMA ChildTwins ==
  ASSUME NEW schema, NEW f, IsFrame(f), NEW g, g = TwinFrame(schema, f),
         NEW t, t = Twin(schema, f.depth + 1), NEW s
  PROVE  /\ \A k : FieldChild(g, t[s], k) = TwinFrame(schema, FieldChild(f, s, k))
         /\ \A i : ItemChild(g, t[s], i) = TwinFrame(schema, ItemChild(f, s, i))
         /\ BranchFrame(g, t[s]) = TwinFrame(schema, BranchFrame(f, s))
<1> DEFINE d == f.depth + 1
<1>1. /\ g.value = f.value /\ g.old = f.old /\ g.path = f.path
      /\ g.depth = f.depth /\ g.root = f.root
  BY TwinFrameIs
<1>2. f = FrameOf(f.node, f.value, f.old, f.path, f.depth, f.root)
  BY DEF IsFrame, FrameOf
<1>3. g = FrameOf(g.node, f.value, f.old, f.path, f.depth, f.root)
  BY TwinFrameIs DEF FrameOf
<1>4. ASSUME NEW v, NEW o, NEW p, NEW r
      PROVE  TwinFrame(schema, FrameOf(s, v, o, p, d, r)) = FrameOf(t[s], v, o, p, d, r)
  <2> HIDE DEF d
  <2>1. t = Twin(schema, d)
    BY DEF d
  <2>2. TwinFrame(schema, FrameOf(s, v, o, p, d, r))
          = [FrameOf(s, v, o, p, d, r) EXCEPT !.node = t[s]]
    BY <2>1 DEF TwinFrame, FrameOf
  <2> DEFINE m == t[s]
  <2> HIDE DEF m
  <2>3. [FrameOf(s, v, o, p, d, r) EXCEPT !.node = m] = FrameOf(m, v, o, p, d, r)
    BY DEF FrameOf
  <2> QED BY <2>2, <2>3 DEF m
<1>5. ASSUME NEW k
      PROVE  FieldChild(g, t[s], k) = TwinFrame(schema, FieldChild(f, s, k))
  <2> DEFINE v == f.value.fields[k]
             o == FieldOf(f.old, k)
             p == JoinPath(f.path, k)
  <2>1. /\ FieldChild(f, s, k) = FrameOf(s, v, o, p, d, FALSE)
        /\ FieldChild(g, t[s], k) = FrameOf(t[s], v, o, p, d, FALSE)
    BY <1>1 DEF FieldChild, ChildFrame, FrameOf
  <2> HIDE DEF v, o, p, d
  <2> QED BY <1>4, <2>1
<1>6. ASSUME NEW k
      PROVE  ItemChild(g, t[s], k) = TwinFrame(schema, ItemChild(f, s, k))
  <2> DEFINE v == f.value.elems[k]
             o == ItemOf(f.old, k)
             p == JoinPathIndex(f.path, k)
  <2>1. /\ ItemChild(f, s, k) = FrameOf(s, v, o, p, d, FALSE)
        /\ ItemChild(g, t[s], k) = FrameOf(t[s], v, o, p, d, FALSE)
    BY <1>1 DEF ItemChild, ChildFrame, FrameOf
  <2> HIDE DEF v, o, p, d
  <2> QED BY <1>4, <2>1
<1>7. BranchFrame(g, t[s]) = TwinFrame(schema, BranchFrame(f, s))
  <2>1. BranchFrame(f, s) = FrameOf(s, f.value, f.old, f.path, d, f.root)
    <3>1. BranchFrame(FrameOf(f.node, f.value, f.old, f.path, f.depth, f.root), s)
            = FrameOf(s, f.value, f.old, f.path, d, f.root)
      BY BranchFrameIs
    <3> HIDE DEF d
    <3> QED BY ONLY <1>2, <3>1, Zenon
  <2>2. BranchFrame(g, t[s]) = FrameOf(t[s], f.value, f.old, f.path, d, f.root)
    <3>1. BranchFrame(FrameOf(g.node, f.value, f.old, f.path, f.depth, f.root), t[s])
            = FrameOf(t[s], f.value, f.old, f.path, d, f.root)
      BY BranchFrameIs
    <3> HIDE DEF d
    <3> QED BY ONLY <1>3, <3>1, Zenon
  <2> HIDE DEF d
  <2> QED BY <1>4, <2>1, <2>2
<1> QED BY <1>5, <1>6, <1>7

\* The loops over a frame and over its twin match, child by child.
TwinsOf(schema, F) == {<<x, TwinFrame(schema, x)>> : x \in F}

\* (In the same order of the properties.)
LEMMA LoopsTwin ==
  ASSUME NEW c \in RawCall, NEW f, IsFrame(f), f.depth \in 0..MaxDepth,
         f.node \in NodesAt(c.schema)[f.depth],
         NEW g, g = TwinFrame(c.schema, f), IsFrame(g)
  PROVE  /\ Fields(g) = Fields(f)
         /\ \A names \in SetToSeqs(Fields(f)) :
              Pairs(TwinsOf(c.schema, ChildrenOf(f)), Loops(f, names), Loops(g, names))
<1> DEFINE schema == c.schema
           n == f.node
           m == g.node
           t == Twin(schema, f.depth + 1)
           G == TwinsOf(schema, ChildrenOf(f))
<1>1. m = CompileSchemaInner(n, t)
  <2>1. f.depth \in 0..MaxDepth + 1
    BY DepthAssumption
  <2>2. g.node = Twin(schema, f.depth)[n]
    BY TwinFrameIs
  <2> QED BY <2>1, <2>2, TwinNodes
<1>2. g.value = f.value
  BY TwinFrameIs
<1>3. \A s, k : FieldChild(g, t[s], k) = TwinFrame(schema, FieldChild(f, s, k))
  BY ChildTwins
<1>4. \A s, i : ItemChild(g, t[s], i) = TwinFrame(schema, ItemChild(f, s, i))
  BY ChildTwins
<1>5. \A s : BranchFrame(g, t[s]) = TwinFrame(schema, BranchFrame(f, s))
  BY ChildTwins
<1>6. \A x \in ChildrenOf(f) : <<x, TwinFrame(schema, x)>> \in G
  BY DEF TwinsOf
<1>7. IsNode(n) /\ IsNode(m)
  BY DEF IsFrame
<1>8. /\ m.properties = [k \in DOMAIN n.properties |-> t[n.properties[k]]]
      /\ m.items = {t[s] : s \in n.items}
      /\ m.additional = {t[s] : s \in n.additional}
      /\ m.preserveUnknown = n.preserveUnknown
  BY <1>1 DEF CompileSchemaInner
<1>9. /\ m.allOf = [i \in DOMAIN n.allOf |-> t[n.allOf[i]]]
      /\ m.oneOf = [i \in DOMAIN n.oneOf |-> t[n.oneOf[i]]]
      /\ m.anyOf = [i \in DOMAIN n.anyOf |-> t[n.anyOf[i]]]
  BY <1>1 DEF CompileSchemaInner
<1>10. Declared(g) = Declared(f) /\ Fields(g) = Fields(f)
  BY <1>2, <1>8 DEF Declared, Fields
<1> HIDE DEF schema, t, G
<1>11. ASSUME NEW names \in SetToSeqs(Fields(f))
       PROVE  Pairs(G, Loops(f, names), Loops(g, names))
  <2> DEFINE K == Fields(f)
  <2>1. names \in Seq(K) /\ K \subseteq ToSet(names)
    <3>1. IsFiniteSet(K)
      BY KeysOfFrame DEF Fields
    <3> HIDE DEF K
    <3> QED BY <1>11, <3>1, PermutationsList DEF K
  <2>2. Pairs(G, PropertyLoop(f, names), PropertyLoop(g, names))
    <3>1. ASSUME NEW i \in DOMAIN names
          PROVE  <<PropertyLoop(f, names)[i], PropertyLoop(g, names)[i]>> \in G
      <4> DEFINE k == names[i]
                 s == n.properties[k]
      <4>1. k \in Declared(f) \cap Keys(f.value)
        BY <2>1 DEF Fields
      <4>2. m.properties[k] = t[s]
        BY <1>8, <4>1 DEF Declared
      <4>3. /\ PropertyLoop(f, names)[i] = FieldChild(f, s, k)
            /\ PropertyLoop(g, names)[i] = FieldChild(g, t[s], k)
        BY <4>2 DEF PropertyLoop
      <4>4. FieldChild(f, s, k) \in ChildrenOf(f)
        BY <4>1 DEF ChildrenOf, FieldChildren
      <4> HIDE DEF k, s
      <4> QED BY <1>3, <1>6, <4>3, <4>4
    <3>2. DOMAIN PropertyLoop(f, names) = DOMAIN names /\ DOMAIN PropertyLoop(g, names) = DOMAIN names
      BY DEF PropertyLoop
    <3> QED BY <3>1, <3>2 DEF Pairs
  <2>3. Pairs(G, ItemLoop(f), ItemLoop(g))
    <3>1. CASE n.items = {} \/ ~IsArray(f.value)
      <4>1. m.items = {} \/ ~IsArray(g.value)
        BY <1>2, <1>8, <3>1
      <4>2. ItemLoop(f) = <<>> /\ ItemLoop(g) = <<>>
        BY <3>1, <4>1 DEF ItemLoop
      <4> QED BY <4>2 DEF Pairs
    <3>2. CASE n.items # {} /\ IsArray(f.value)
      <4>1. PICK s \in n.items : n.items = {s}
        BY <1>7, <3>2, OneOfOption DEF IsNode
      <4>2. m.items = {t[s]}
        BY <1>8, <4>1
      <4>3. ItemLoop(f) = [i \in DOMAIN f.value.elems |-> ItemChild(f, s, i)]
        BY <3>2, <4>1 DEF ItemLoop
      <4>4. ItemLoop(g) = [i \in DOMAIN f.value.elems |-> ItemChild(g, t[s], i)]
        BY <1>2, <3>2, <4>2 DEF ItemLoop
      <4>5. \A i \in DOMAIN f.value.elems : ItemChild(f, s, i) \in ChildrenOf(f)
        BY <3>2, <4>1 DEF ChildrenOf, ItemChildren
      <4> QED BY <1>4, <1>6, <4>3, <4>4, <4>5 DEF Pairs
    <3> QED BY <3>1, <3>2
  <2>4. Pairs(G, MapLoop(f), MapLoop(g))
    <3>1. CASE n.preserveUnknown \/ n.additional = {}
      <4>1. m.preserveUnknown \/ m.additional = {}
        BY <1>8, <3>1
      <4>2. MapLoop(f) = <<>> /\ MapLoop(g) = <<>>
        BY <3>1, <4>1 DEF MapLoop
      <4> QED BY <4>2 DEF Pairs
    <3>2. CASE ~(n.preserveUnknown \/ n.additional = {})
      <4> DEFINE E == Keys(f.value) \ Declared(f)
                 extra == MapOrder(E)
      <4>1. PICK s \in n.additional : n.additional = {s}
        BY <1>7, <3>2, OneOfOption DEF IsNode
      <4>2. m.additional = {t[s]} /\ ~m.preserveUnknown
        BY <1>8, <3>2, <4>1
      <4>3. MapLoop(f) = [i \in DOMAIN extra |-> FieldChild(f, s, extra[i])]
        BY <3>2, <4>1 DEF MapLoop
      <4>4. MapLoop(g) = [i \in DOMAIN extra |-> FieldChild(g, t[s], extra[i])]
        BY <1>2, <1>10, <4>2 DEF MapLoop
      <4>5. \A i \in DOMAIN extra : extra[i] \in E
        <5>1. extra \in Seq(E)
          BY DEF IsFrame, Lists
        <5> HIDE DEF E, extra
        <5> QED BY <5>1
      <4>6. \A k \in E : FieldChild(f, s, k) \in ChildrenOf(f)
        BY <3>2, <4>1 DEF ChildrenOf, MapChildren
      <4> HIDE DEF E, extra
      <4> QED BY <1>3, <1>6, <4>3, <4>4, <4>5, <4>6 DEF Pairs
    <3> QED BY <3>1, <3>2
  <2>5. Pairs(G, BranchLoop(f), BranchLoop(g))
    <3> DEFINE H == {<<s, t[s]>> : s \in BranchesOf(n)}
               b == n.allOf \o n.oneOf \o n.anyOf
               d == m.allOf \o m.oneOf \o m.anyOf
    <3>1. /\ IsSequence(n.allOf) /\ IsSequence(n.oneOf) /\ IsSequence(n.anyOf)
          /\ IsSequence(m.allOf) /\ IsSequence(m.oneOf) /\ IsSequence(m.anyOf)
      BY <1>7 DEF IsNode
    <3>2. \A a \in {n.allOf, n.oneOf, n.anyOf} : \A i \in DOMAIN a : a[i] \in BranchesOf(n)
      BY DEF BranchesOf, ToSet
    <3>3. /\ Pairs(H, n.allOf, m.allOf) /\ Pairs(H, n.oneOf, m.oneOf)
          /\ Pairs(H, n.anyOf, m.anyOf)
      BY <1>9, <3>2 DEF Pairs
    <3> HIDE DEF H
    <3> DEFINE x == n.allOf \o n.oneOf
               y == m.allOf \o m.oneOf
    <3>4. IsSequence(x) /\ IsSequence(y) /\ Pairs(H, x, y)
      BY <3>1, <3>3, PairsOfBoth
    <3> HIDE DEF x, y
    <3>5. Pairs(H, x \o n.anyOf, y \o m.anyOf)
      BY <3>1, <3>3, <3>4, PairsOfBoth
    <3>6. DOMAIN d = DOMAIN b /\ \A i \in DOMAIN b : b[i] \in BranchesOf(n) /\ d[i] = t[b[i]]
      BY <3>5 DEF Pairs, H, x, y
    <3>7. /\ BranchLoop(f) = [i \in DOMAIN b |-> BranchFrame(f, b[i])]
          /\ BranchLoop(g) = [i \in DOMAIN d |-> BranchFrame(g, d[i])]
      BY DEF BranchLoop
    <3> HIDE DEF b, d
    <3>8. \A s \in BranchesOf(n) : BranchFrame(f, s) \in ChildrenOf(f)
      BY DEF ChildrenOf, BranchChildren
    <3> QED BY <1>5, <1>6, <3>6, <3>7, <3>8 DEF Pairs
  <2> DEFINE p == PropertyLoop(f, names)
             q == PropertyLoop(g, names)
  <2>6. IsSequence(p) /\ IsSequence(q)
    BY <1>10, <2>1, PropertyLoopVisits DEF Fields
  <2>7. /\ IsSequence(ItemLoop(f)) /\ IsSequence(ItemLoop(g))
        /\ IsSequence(MapLoop(f)) /\ IsSequence(MapLoop(g))
        /\ IsSequence(BranchLoop(f)) /\ IsSequence(BranchLoop(g))
    BY ItemLoopVisits, MapLoopVisits, BranchLoopVisits
  <2> DEFINE p1 == p \o ItemLoop(f)
             q1 == q \o ItemLoop(g)
             p2 == p1 \o MapLoop(f)
             q2 == q1 \o MapLoop(g)
  <2> HIDE DEF p, q
  <2>8. IsSequence(p1) /\ IsSequence(q1) /\ Pairs(G, p1, q1)
    BY <2>2, <2>3, <2>6, <2>7, PairsOfBoth DEF p, q
  <2> HIDE DEF p1, q1
  <2>9. IsSequence(p2) /\ IsSequence(q2) /\ Pairs(G, p2, q2)
    BY <2>4, <2>7, <2>8, PairsOfBoth
  <2> HIDE DEF p2, q2
  <2>10. Pairs(G, p2 \o BranchLoop(f), q2 \o BranchLoop(g))
    BY <2>5, <2>7, <2>9, PairsOfBoth
  <2> QED BY <2>10 DEF p, q, p1, q1, p2, q2, Loops
<1> QED BY <1>10, <1>11 DEF G, schema

---------------------------------------------------------------------------
\* Both walks begin at the same place.
LEMMA RootsTwin ==
  ASSUME NEW c \in RawCall, ~DefaultPastCap(c.schema)
  PROVE  /\ CompiledRootFrame(CompiledCall(c)) = TwinFrame(c.schema, RawRootFrame(c))
         /\ RawRootFrame(c).depth = 0 /\ RawRootFrame(c).node = c.schema
<1> DEFINE tree == CompileSchema(c.schema)
           cc   == CompiledCall(c)
           f    == RawRootFrame(c)
<1>1. /\ cc.schema = tree /\ cc.object = c.object /\ cc.old = c.old /\ cc.root = c.root
      /\ tree = Twin(c.schema, 0)[c.schema]
  BY CompiledCallIs, RootTwin
<1>2. \A v : ApplyDefaults(tree, v) = ApplyDefaults(c.schema, v)
  BY DefaultsAlike
<1>3. IsFrame(f)
  BY RawClosed
<1>4. /\ f.node = c.schema /\ f.value = ApplyDefaults(c.schema, c.object)
      /\ f.old = {ApplyDefaults(c.schema, o) : o \in c.old}
      /\ f.path = <<>> /\ f.depth = 0 /\ f.root = c.root
  BY DEF RawRootFrame
<1> HIDE DEF tree, cc, f
<1>5. CompiledRootFrame(cc) =
        [node |-> tree, value |-> f.value, old |-> f.old, path |-> f.path,
         depth |-> f.depth, root |-> f.root]
  <2>1. {ApplyDefaults(tree, o) : o \in c.old} = f.old
    BY <1>2, <1>4
  <2>2. ApplyDefaults(tree, c.object) = f.value
    BY <1>2, <1>4
  <2>3. CompiledRootFrame(cc) =
          [node |-> tree, value |-> ApplyDefaults(tree, c.object),
           old |-> {ApplyDefaults(tree, o) : o \in c.old}, path |-> <<>>, depth |-> 0,
           root |-> c.root]
    BY <1>1 DEF CompiledRootFrame, ApplyDefaultsCompiled
  <2> QED BY ONLY <1>4, <2>1, <2>2, <2>3, Zenon
<1>6. TwinFrame(c.schema, f) =
        [node |-> Twin(c.schema, f.depth)[f.node], value |-> f.value, old |-> f.old,
         path |-> f.path, depth |-> f.depth, root |-> f.root]
  BY <1>3, TwinFrameIs
<1>7. Twin(c.schema, f.depth)[f.node] = tree
  BY <1>1, <1>4
<1>8. CompiledRootFrame(cc) = TwinFrame(c.schema, f)
  BY ONLY <1>5, <1>6, <1>7, Zenon
<1> QED BY <1>4, <1>8 DEF cc, f

---------------------------------------------------------------------------
\* The errors that must agree: all where the schema fits under the cap, those that
\* refuse a subtree where no default lies just past it.
Comparable(schema, e) ==
  \/ FitsUnderCap(schema)
  \/ ~DefaultPastCap(schema) /\ e.kind = "SchemaTooDeep"

\* (Either way no default lies just past the cap.)
LEMMA ComparableDefaults ==
  ASSUME NEW schema, NEW e, Comparable(schema, e)
  PROVE  ~DefaultPastCap(schema)
  BY DEF Comparable, FitsUnderCap, DefaultPastCap

\* A result is evaluated alike in both walks.
LEMMA EvaluatesAlike ==
  ASSUME NEW res, NEW s, NEW path
  PROVE  TreeP!ToSet(TreeP!EvaluateResult(res, s, path))
           = RawP!ToSet(RawP!EvaluateResult(res, s, path))
<1>1. TreeP!EvaluateResult(res, s, path) = RawP!EvaluateResult(res, s, path)
  BY DEF TreeP!EvaluateResult, RawP!EvaluateResult, TreeP!EvaluateRule, RawP!EvaluateRule,
     TreeP!EffectiveScope, RawP!EffectiveScope, TreeP!ErrorAt, RawP!ErrorAt,
     TreeP!FailureKind, RawP!FailureKind, TreeP!EffectivePath, RawP!EffectivePath,
     TreeP!Skipped, RawP!Skipped, TreeP!ResolveMessage, RawP!ResolveMessage,
     TreeP!SchemaTooDeepError, RawP!SchemaTooDeepError, TreeP!Null, RawP!Null
<1> QED BY <1>1 DEF TreeP!ToSet, RawP!ToSet

\* (A list of one error has one member.)
LEMMA OneMember ==
  ASSUME NEW x, NEW t, t = <<x>>, NEW e \in RawP!ToSet(t)
  PROVE  e = x
<1>1. PICK i \in DOMAIN t : e = t[i]
  BY DEF RawP!ToSet
<1>2. i = 1
  BY <1>1
<1> QED BY <1>1, <1>2

\* And no rule refuses a subtree.
LEMMA RulesRefuseNothing ==
  ASSUME NEW res, IsEntry(res), NEW s, NEW path,
         NEW e \in RawP!ToSet(RawP!EvaluateResult(res, s, path))
  PROVE  e.kind # "SchemaTooDeep"
<1>1. CASE res.status = "compiled"
  <2>1. RawP!EvaluateResult(res, s, path) = RawP!EvaluateRule(res, s, path)
    BY <1>1 DEF RawP!EvaluateResult
  <2>2. \A o : RawP!FailureKind(o) # "SchemaTooDeep"
    BY DEF RawP!FailureKind
  <2>3. \/ RawP!EvaluateRule(res, s, path) = <<>>
        \/ \E r, o, p, m : RawP!EvaluateRule(res, s, path)
                             = <<RawP!ErrorAt(r, RawP!FailureKind(o), p, m)>>
    <3> DEFINE eff == RawP!EffectiveScope(res, s)
               out == Execute(res.raw.rule, eff)
               msg == IF out = "false" THEN RawP!ResolveMessage(res.raw, eff) ELSE "builtin"
               err == RawP!ErrorAt(res.raw.rule, RawP!FailureKind(out),
                                   RawP!EffectivePath(path, res.raw.fieldPath), msg)
    <3>1. RawP!EvaluateRule(res, s, path) = <<>> \/ RawP!EvaluateRule(res, s, path) = <<err>>
      BY Zenon DEF RawP!EvaluateRule
    <3>2. \E r, o, p, m : err = RawP!ErrorAt(r, RawP!FailureKind(o), p, m)
      OBVIOUS
    <3> HIDE DEF err
    <3> QED BY <3>1, <3>2
  <2>4. \A r, k, p, m : RawP!ErrorAt(r, k, p, m).kind = k
    BY DEF RawP!ErrorAt
  <2>5. RawP!ToSet(<<>>) = {}
    BY DEF RawP!ToSet
  <2>6. RawP!EvaluateRule(res, s, path) # <<>>
    BY <2>1, <2>5
  <2>7. PICK r, o, p, m : RawP!EvaluateRule(res, s, path)
                            = <<RawP!ErrorAt(r, RawP!FailureKind(o), p, m)>>
    BY <2>3, <2>6
  <2>8. e = RawP!ErrorAt(r, RawP!FailureKind(o), p, m)
    <3> DEFINE x == RawP!ErrorAt(r, RawP!FailureKind(o), p, m)
               t == RawP!EvaluateResult(res, s, path)
    <3>1. t = <<x>> /\ e \in RawP!ToSet(t)
      BY <2>1, <2>7
    <3> HIDE DEF x, t
    <3>2. e = x
      BY <3>1, OneMember
    <3> QED BY <3>2 DEF x
  <2>9. e.kind = RawP!FailureKind(o)
    BY <2>4, <2>8
  <2> QED BY <2>2, <2>9
<1>2. CASE res.status = "InvalidRule"
  <2>1. RawP!EvaluateResult(res, s, path) = <<RawP!ErrorAt("", "InvalidRule", path, "builtin")>>
    BY <1>2 DEF RawP!EvaluateResult
  <2>2. e = RawP!ErrorAt("", "InvalidRule", path, "builtin")
    BY <2>1, OneMember
  <2> QED BY <2>2 DEF RawP!ErrorAt
<1>3. CASE res.status \in {"Parse", "MessageExpressionParse"}
  <2>1. RawP!EvaluateResult(res, s, path)
          = <<RawP!ErrorAt(res.rule, "CompilationFailure", path, "builtin")>>
    BY <1>3 DEF RawP!EvaluateResult
  <2>2. e = RawP!ErrorAt(res.rule, "CompilationFailure", path, "builtin")
    BY <2>1, OneMember
  <2> QED BY <2>2 DEF RawP!ErrorAt
<1> QED BY <1>1, <1>2, <1>3 DEF IsEntry

\* The results of a frame and of its twin that report an error are the same.
LEMMA HitsTwin ==
  ASSUME NEW c \in RawCall, NEW e, Comparable(c.schema, e),
         NEW f \in RawFrames, f.depth \in 0..MaxDepth, f.node \in NodesAt(c.schema)[f.depth],
         NEW g, g = TwinFrame(c.schema, f)
  PROVE  TreeP!HitsFrom(g, e, 1) = RawP!HitsFrom(f, e, 1)
<1> DEFINE n == f.node
           m == g.node
           entries == CompileSchemaValidations(n.validations)
<1>1. IsFrame(f) /\ f.depth \in 0..MaxDepth + 1
  BY RawClosed, DepthAssumption
<1>2. /\ m = Twin(c.schema, f.depth)[n] /\ g.value = f.value /\ g.old = f.old
      /\ g.path = f.path /\ g.root = f.root
  BY <1>1, TwinFrameIs
<1>3. m.validations = entries
  <2> DEFINE t == Twin(c.schema, f.depth + 1)
  <2>1. m = CompileSchemaInner(n, t)
    BY <1>1, <1>2, TwinNodes
  <2> HIDE DEF t, m, n
  <2> QED BY <2>1 DEF CompileSchemaInner
<1>4. ResultsR(f) = entries /\ ResultsC(g) = entries
  BY <1>3, RawEntriesOf DEF ResultsC, CompiledW!CompiledResults
<1>5. CASE FitsUnderCap(c.schema)
  <2>1. \A v : JsonToCelWithCompiled(m, v) = JsonToCelWithSchema(n, v)
    BY <1>2, <1>5, ConvertedAlike
  <2>2. TreeP!ScopeOf(g) = RawP!ScopeOf(f)
    BY <1>2, <2>1 DEF TreeP!ScopeOf, RawP!ScopeOf
  <2>3. TreeP!HitsFrom(g, e, 1) =
          {i \in DOMAIN entries : i >= 1
             /\ e \in TreeP!ToSet(TreeP!EvaluateResult(entries[i], RawP!ScopeOf(f), f.path))}
    BY <1>2, <1>4, <2>2 DEF TreeP!HitsFrom
  <2>4. RawP!HitsFrom(f, e, 1) =
          {i \in DOMAIN entries : i >= 1
             /\ e \in RawP!ToSet(RawP!EvaluateResult(entries[i], RawP!ScopeOf(f), f.path))}
    BY <1>4 DEF RawP!HitsFrom
  <2> QED BY <2>3, <2>4, EvaluatesAlike
<1>6. CASE e.kind = "SchemaTooDeep"
  <2>1. IsSequence(n.validations)
    BY <1>1 DEF IsFrame, IsNode
  <2>2. \A i \in DOMAIN entries : IsEntry(entries[i])
    BY <2>1, EntriesAreCompiled
  <2> HIDE DEF entries
  <2>3. \A i \in DOMAIN entries : \A s, p : e \notin RawP!ToSet(RawP!EvaluateResult(entries[i], s, p))
    BY <1>6, <2>2, RulesRefuseNothing
  <2>4. \A i \in DOMAIN entries : \A s, p : e \notin TreeP!ToSet(TreeP!EvaluateResult(entries[i], s, p))
    BY <2>3, EvaluatesAlike
  <2>5. RawP!HitsFrom(f, e, 1) = {}
    BY <1>4, <2>3 DEF RawP!HitsFrom
  <2>6. TreeP!HitsFrom(g, e, 1) = {}
    BY <1>4, <2>4 DEF TreeP!HitsFrom
  <2> QED BY <2>5, <2>6
<1> QED BY <1>5, <1>6 DEF Comparable

---------------------------------------------------------------------------
\* What is due of a frame, said of each walk.
LEMMA RawDue ==
  ASSUME NEW e, NEW f \in RawFrames
  PROVE  /\ f.depth > MaxDepth =>
              RawP!Due(e)[f] = IF e = SchemaTooDeepError(f.path) THEN 1 ELSE 0
         /\ ~(f.depth > MaxDepth) => \A order \in ChildrenR(f) :
              RawP!Due(e)[f] = Cardinality(RawP!HitsFrom(f, e, 1)) + TotalOf(order, RawP!Due(e))
<1>1. RawP!TooDeep(f) = (f.depth > MaxDepth)
  BY DEF RawP!TooDeep
<1>2. RawP!SchemaTooDeepError(f.path) = SchemaTooDeepError(f.path)
  BY DEF RawP!SchemaTooDeepError, SchemaTooDeepError, RawP!ErrorAt, ErrorAt
<1>3. \A s, w : RawP!TotalOf(s, w) = TotalOf(s, w)
  <2> TAKE s, w
  <2>1. RawP!Shares(s, w) = Shares(s, w)
    BY DEF RawP!Shares, Shares
  <2>2. \A T : RawP!Cardinality(T) = Cardinality(T)
    BY Zenon DEF RawP!Cardinality, Cardinality
  <2> QED BY <2>1, <2>2 DEF RawP!TotalOf, TotalOf
<1>4. /\ RawP!TooDeep(f) =>
           RawP!Due(e)[f] = IF e = RawP!SchemaTooDeepError(f.path) THEN 1 ELSE 0
      /\ ~RawP!TooDeep(f) => \A order \in ChildrenR(f) :
           RawP!Due(e)[f] = RawP!Cardinality(RawP!HitsFrom(f, e, 1)) + RawP!TotalOf(order, RawP!Due(e))
  BY DepthAssumption, RawAssumed, RawP!DueStep
<1>5. \A T : RawP!Cardinality(T) = Cardinality(T)
  BY Zenon DEF RawP!Cardinality, Cardinality
<1> QED BY <1>1, <1>2, <1>3, <1>4, <1>5

\* (The compiled walk.)
LEMMA TreeDue ==
  ASSUME NEW e, NEW f \in CompiledFrames
  PROVE  /\ f.depth > MaxDepth =>
              TreeP!Due(e)[f] = IF e = SchemaTooDeepError(f.path) THEN 1 ELSE 0
         /\ ~(f.depth > MaxDepth) => \A order \in ChildrenC(f) :
              TreeP!Due(e)[f] = Cardinality(TreeP!HitsFrom(f, e, 1)) + TotalOf(order, TreeP!Due(e))
<1>1. TreeP!TooDeep(f) = (f.depth > MaxDepth)
  BY DEF TreeP!TooDeep
<1>2. TreeP!SchemaTooDeepError(f.path) = SchemaTooDeepError(f.path)
  BY DEF TreeP!SchemaTooDeepError, SchemaTooDeepError, TreeP!ErrorAt, ErrorAt
<1>3. \A s, w : TreeP!TotalOf(s, w) = TotalOf(s, w)
  <2> TAKE s, w
  <2>1. TreeP!Shares(s, w) = Shares(s, w)
    BY DEF TreeP!Shares, Shares
  <2>2. \A T : TreeP!Cardinality(T) = Cardinality(T)
    BY Zenon DEF TreeP!Cardinality, Cardinality
  <2> QED BY <2>1, <2>2 DEF TreeP!TotalOf, TotalOf
<1>4. /\ TreeP!TooDeep(f) =>
           TreeP!Due(e)[f] = IF e = TreeP!SchemaTooDeepError(f.path) THEN 1 ELSE 0
      /\ ~TreeP!TooDeep(f) => \A order \in ChildrenC(f) :
           TreeP!Due(e)[f] = TreeP!Cardinality(TreeP!HitsFrom(f, e, 1)) + TreeP!TotalOf(order, TreeP!Due(e))
  BY DepthAssumption, TreeAssumed, TreeP!DueStep
<1>5. \A T : TreeP!Cardinality(T) = Cardinality(T)
  BY Zenon DEF TreeP!Cardinality, Cardinality
<1> QED BY <1>1, <1>2, <1>3, <1>4, <1>5

\* The two walks owe the same errors, each as often, for a frame and for its twin.
LEMMA DueTwin ==
  ASSUME NEW c \in RawCall, NEW e, Comparable(c.schema, e),
         NEW f \in RawFrames, NEW g \in CompiledFrames, g = TwinFrame(c.schema, f),
         f.depth \in 0..MaxDepth + 1, f.node \in NodesAt(c.schema)[f.depth]
  PROVE  TreeP!Due(e)[g] = RawP!Due(e)[f]
<1> DEFINE schema == c.schema
           w == RawP!Due(e)
           v == TreeP!Due(e)
           Alike(j) == \A x \in RawFrames, y \in CompiledFrames :
                         x.depth = j /\ x.node \in NodesAt(schema)[j] /\ y = TwinFrame(schema, x)
                         => v[y] = w[x]
           S == {l \in Nat : l <= MaxDepth + 1 => Alike(MaxDepth + 1 - l)}
<1>0. \A x \in RawFrames : \A y : y = TwinFrame(schema, x) =>
        IsFrame(x) /\ y.depth = x.depth /\ y.path = x.path
  BY RawClosed, TwinFrameIs
<1>1. 0 \in S
  <2>1. MaxDepth + 1 - 0 = MaxDepth + 1 /\ MaxDepth + 1 > MaxDepth
    BY DepthAssumption
  <2>2. ASSUME NEW x \in RawFrames, NEW y \in CompiledFrames,
               x.depth = MaxDepth + 1, y = TwinFrame(schema, x)
        PROVE  v[y] = w[x]
    <3>1. x.depth > MaxDepth /\ y.depth > MaxDepth /\ y.path = x.path
      BY <1>0, <2>1, <2>2
    <3>2. w[x] = IF e = SchemaTooDeepError(x.path) THEN 1 ELSE 0
      BY <3>1, RawDue
    <3>3. v[y] = IF e = SchemaTooDeepError(y.path) THEN 1 ELSE 0
      BY <3>1, TreeDue
    <3> HIDE DEF v, w
    <3> QED BY <3>1, <3>2, <3>3
  <2>3. Alike(MaxDepth + 1)
    BY <2>2
  <2> QED BY <2>1, <2>3
<1>2. ASSUME NEW l \in S
      PROVE  l + 1 \in S
  <2> SUFFICES ASSUME l + 1 <= MaxDepth + 1
               PROVE  Alike(MaxDepth + 1 - (l + 1))
    OBVIOUS
  <2> DEFINE d == MaxDepth - l
  <2>1. /\ MaxDepth + 1 - (l + 1) = d /\ MaxDepth + 1 - l = d + 1
        /\ d \in 0..MaxDepth /\ ~(d > MaxDepth) /\ l <= MaxDepth + 1
    BY DepthAssumption
  <2>2. Alike(d + 1)
    BY <2>1
  <2> HIDE DEF d
  <2>3. ASSUME NEW x \in RawFrames, NEW y \in CompiledFrames, x.depth = d,
               x.node \in NodesAt(schema)[d], y = TwinFrame(schema, x)
        PROVE  v[y] = w[x]
    <3> DEFINE names == MapOrder(Fields(x))
               p == Loops(x, names)
               q == Loops(y, names)
    <3>1. IsFrame(x) /\ IsFrame(y) /\ y.depth = d
      BY <1>0, <2>3, TreeClosed
    <3>2. p \in ChildrenR(x) /\ p \in Orders(x)
      BY <3>1, RawLoops, OrdersVisit
    <3>3. names \in SetToSeqs(Fields(x))
      <4> DEFINE K == Fields(x)
      <4>0. IsFiniteSet(K)
        BY <3>1, KeysOfFrame DEF Fields
      <4>1. Lists(names, K)
        BY <3>1 DEF Fields, IsFrame
      <4> HIDE DEF K, names
      <4>2. names \in SetToSeqs(K)
        BY <4>0, <4>1, ListsArePermutations
      <4> QED BY <4>2 DEF K
    <3>4. Fields(y) = Fields(x) /\ Pairs(TwinsOf(schema, ChildrenOf(x)), p, q)
      BY <2>1, <2>3, <3>1, <3>3, LoopsTwin
    <3>5. q \in ChildrenC(y)
      <4>1. q \in Orders(y)
        BY <3>3, <3>4 DEF Orders
      <4> QED BY <4>1, CompiledLoops
    <3>6. Raw!ChildSet(x) = ChildrenOf(x) /\ ChildrenOf(x) \subseteq RawFrames
      <4>1. ~Raw!TooDeep(x)
        BY <2>1, <2>3 DEF Raw!TooDeep
      <4> QED BY <3>1, <4>1, RawChildSet, RawClosed
    <3>7. ToSet(q) \subseteq CompiledFrames
      <4>1. ~Tree!TooDeep(y)
        BY <2>1, <3>1 DEF Tree!TooDeep
      <4>2. Tree!ChildSet(y) \subseteq CompiledFrames /\ Tree!ChildSet(y) = ChildrenOf(y)
        BY <3>1, <4>1, TreeChildSet, TreeClosed
      <4>3. ToSet(q) = ChildrenOf(y)
        BY <3>1, <3>5, CompiledLoops, OrdersVisit
      <4> QED BY <4>2, <4>3
    <3> HIDE DEF p, q, names
    <3>8. DOMAIN q = DOMAIN p
      BY <3>4 DEF Pairs
    <3>9. \A i \in DOMAIN p : v[q[i]] = w[p[i]]
      <4> TAKE i \in DOMAIN p
      <4>1. p[i] \in ChildrenOf(x) /\ q[i] = TwinFrame(schema, p[i])
        BY <3>4 DEF Pairs, TwinsOf
      <4>2. p[i] \in RawFrames /\ q[i] \in CompiledFrames
        BY <3>6, <3>7, <3>8, <4>1 DEF ToSet
      <4>3. p[i].depth = d + 1
        BY <2>3, <3>1, <4>1, ChildrenDeeper
      <4>4. p[i].node \in SubSchemas(x.node)
        BY <3>1, <4>1, ChildNodes
      <4>5. p[i].node \in NodesAt(schema)[d + 1]
        BY <2>1, <2>3, <4>4, NodesStep
      <4> QED BY <2>2, <4>1, <4>2, <4>3, <4>5
    <3>10. TreeP!HitsFrom(y, e, 1) = RawP!HitsFrom(x, e, 1)
      BY <2>1, <2>3, HitsTwin
    <3>11. w[x] = Cardinality(RawP!HitsFrom(x, e, 1)) + TotalOf(p, w)
      BY <2>1, <2>3, <3>2, RawDue
    <3>12. v[y] = Cardinality(TreeP!HitsFrom(y, e, 1)) + TotalOf(q, v)
      BY <2>1, <3>1, <3>5, TreeDue
    <3> HIDE DEF v, w
    <3>13. TotalOf(p, w) = TotalOf(q, v)
      BY <3>8, <3>9, TotalAlike
    <3> QED BY <3>10, <3>11, <3>12, <3>13
  <2>4. Alike(d)
    BY <2>3
  <2> QED BY <2>1, <2>4
<1>3. Nat \subseteq S
  <2> HIDE DEF S
  <2> QED BY <1>1, <1>2, Induct
<1>4. Alike(f.depth)
  <2> DEFINE l == MaxDepth + 1 - f.depth
  <2>1. l \in Nat /\ l <= MaxDepth + 1 /\ MaxDepth + 1 - l = f.depth
    BY DepthAssumption
  <2> HIDE DEF l
  <2>2. Alike(MaxDepth + 1 - l)
    BY <1>3, <2>1
  <2> HIDE DEF Alike
  <2> QED BY ONLY <2>1, <2>2
<1> QED BY <1>4

---------------------------------------------------------------------------
\* What a call preserves: each walk its own invariant and its own count, and the
\* second walk's call is the first's with the schema compiled.
BothInv ==
  /\ callC = CompiledCall(call)
  /\ RawP!IInv /\ \A e : RawP!Counted(e)
  /\ TreeP!IInv /\ \A e : TreeP!Counted(e)

\* It holds of a call that has not begun,
LEMMA BothInit == Init => BothInv
<1> SUFFICES ASSUME Init
             PROVE  BothInv
  OBVIOUS
<1>1. RawP!Init /\ TreeP!Init /\ callC = CompiledCall(call)
  BY RawInit, TreeInit DEF Init
<1>2. RawP!IInv
  BY <1>1, DepthAssumption, RawAssumed, RawP!InitInvariant
<1>3. TreeP!IInv
  BY <1>1, DepthAssumption, TreeAssumed, TreeP!InitInvariant
<1>4. ASSUME NEW e
      PROVE  RawP!Counted(e)
  BY <1>1, DepthAssumption, RawAssumed, RawP!CountInit
<1>5. ASSUME NEW e
      PROVE  TreeP!Counted(e)
  BY <1>1, DepthAssumption, TreeAssumed, TreeP!CountInit
<1> QED BY <1>1, <1>2, <1>3, <1>4, <1>5 DEF BothInv

\* (A step of one walk is none of the other.)
LEMMA StepOfOne ==
  ASSUME [Next]_<<rawVars, compiledVars>>
  PROVE  /\ [RawP!Next]_(RawP!vars) /\ [TreeP!Next]_(TreeP!vars)
         /\ callC' = callC /\ call' = call
<1>1. Raw!Next => call' = call
  BY DEF Raw!Next, Raw!Start, Raw!RefuseDeep, Raw!EnterNode, Raw!EvaluateNext, Raw!Descend,
     Raw!Return
<1>2. Tree!Next => callC' = callC
  BY DEF Tree!Next, Tree!Start, Tree!RefuseDeep, Tree!EnterNode, Tree!EvaluateNext,
     Tree!Descend, Tree!Return
<1>3. UNCHANGED rawVars => UNCHANGED RawP!vars /\ call' = call
  BY DEF rawVars, RawP!vars
<1>4. UNCHANGED compiledVars => UNCHANGED TreeP!vars /\ callC' = callC
  BY DEF compiledVars, TreeP!vars
<1> QED BY <1>1, <1>2, <1>3, <1>4, RawNext, TreeNext
        DEF Next, ValidateRaw, ValidateCompiled

\* and every step of either walk preserves it.
LEMMA BothStep == BothInv /\ [Next]_<<rawVars, compiledVars>> => BothInv'
<1> SUFFICES ASSUME BothInv, [Next]_<<rawVars, compiledVars>>
             PROVE  BothInv'
  OBVIOUS
<1>1. /\ [RawP!Next]_(RawP!vars) /\ [TreeP!Next]_(TreeP!vars)
      /\ callC' = callC /\ call' = call
  BY StepOfOne
<1>2. RawP!IInv /\ TreeP!IInv
  BY DEF BothInv
<1>3. RawP!IInv'
  BY <1>1, <1>2, DepthAssumption, RawAssumed, RawP!StepInvariant
<1>4. TreeP!IInv'
  BY <1>1, <1>2, DepthAssumption, TreeAssumed, TreeP!StepInvariant
<1>5. ASSUME NEW e
      PROVE  RawP!Counted(e)'
  <2>1. RawP!Counted(e)
    BY DEF BothInv
  <2> QED BY <1>1, <1>2, <2>1, DepthAssumption, RawAssumed, RawP!CountStep
<1>6. ASSUME NEW e
      PROVE  TreeP!Counted(e)'
  <2>1. TreeP!Counted(e)
    BY DEF BothInv
  <2> QED BY <1>1, <1>2, <2>1, DepthAssumption, TreeAssumed, TreeP!CountStep
<1>7. (callC = CompiledCall(call))'
  BY <1>1 DEF BothInv, CompiledCall
<1> QED BY <1>3, <1>4, <1>5, <1>6, <1>7 DEF BothInv

---------------------------------------------------------------------------
\* When a walk has returned, all that was due has been reported.
LEMMA RawReported ==
  ASSUME BothInv, verdict # "running", NEW e
  PROVE  /\ call \in RawCall /\ IsSequence(errors)
         /\ Occurrences(errors, e) = RawP!Due(e)[RawRootFrame(call)]
<1>1. RawP!TypeOK /\ RawP!ReportedForCause /\ RawP!Settled
  BY DEF BothInv, RawP!IInv
<1>2. call \in RawCall
  BY <1>1 DEF RawP!TypeOK
<1>3. IsSequence(errors)
  BY <1>1 DEF RawP!ReportedForCause, IsSequence, ToSet
<1>4. RawP!Outstanding(e) = 0
  BY <1>1 DEF RawP!Settled, RawP!Outstanding
<1>5. RawP!Occurrences(errors, e) = Occurrences(errors, e)
  <2>1. \A T : RawP!Cardinality(T) = Cardinality(T)
    BY Zenon DEF RawP!Cardinality, Cardinality
  <2> QED BY <2>1 DEF RawP!Occurrences, Occurrences
<1>6. Occurrences(errors, e) \in Nat
  BY <1>3, OccurrencesAreNat DEF IsSequence
<1>7. RawP!Occurrences(errors, e) + RawP!Outstanding(e) = RawP!Due(e)[RawRootFrame(call)]
  BY DEF BothInv, RawP!Counted
<1> QED BY <1>2, <1>3, <1>4, <1>5, <1>6, <1>7

\* (The compiled walk.)
LEMMA TreeReported ==
  ASSUME BothInv, verdictC # "running", NEW e
  PROVE  /\ callC \in CompiledCalls /\ IsSequence(errorsC)
         /\ Occurrences(errorsC, e) = TreeP!Due(e)[CompiledRootFrame(callC)]
<1>1. TreeP!TypeOK /\ TreeP!ReportedForCause /\ TreeP!Settled
  BY DEF BothInv, TreeP!IInv
<1>2. callC \in CompiledCalls
  BY <1>1 DEF TreeP!TypeOK
<1>3. IsSequence(errorsC)
  BY <1>1 DEF TreeP!ReportedForCause, IsSequence, ToSet
<1>4. TreeP!Outstanding(e) = 0
  BY <1>1 DEF TreeP!Settled, TreeP!Outstanding
<1>5. TreeP!Occurrences(errorsC, e) = Occurrences(errorsC, e)
  <2>1. \A T : TreeP!Cardinality(T) = Cardinality(T)
    BY Zenon DEF TreeP!Cardinality, Cardinality
  <2> QED BY <2>1 DEF TreeP!Occurrences, Occurrences
<1>6. Occurrences(errorsC, e) \in Nat
  BY <1>3, OccurrencesAreNat DEF IsSequence
<1>7. TreeP!Occurrences(errorsC, e) + TreeP!Outstanding(e)
        = TreeP!Due(e)[CompiledRootFrame(callC)]
  BY DEF BothInv, TreeP!Counted
<1> QED BY <1>2, <1>3, <1>4, <1>5, <1>6, <1>7

\* So an error that can be compared is reported as often by both.
LEMMA CountedAlike ==
  ASSUME BothInv, BothAnswered, NEW e, Comparable(call.schema, e)
  PROVE  /\ IsSequence(errors) /\ IsSequence(errorsC)
         /\ Occurrences(errors, e) = Occurrences(errorsC, e)
         /\ e \in ToSet(errors) <=> e \in ToSet(errorsC)
<1> DEFINE f == RawRootFrame(call)
           g == CompiledRootFrame(callC)
<1>1. /\ call \in RawCall /\ IsSequence(errors)
      /\ Occurrences(errors, e) = RawP!Due(e)[f]
  BY RawReported DEF BothAnswered
<1>2. /\ callC \in CompiledCalls /\ IsSequence(errorsC)
      /\ Occurrences(errorsC, e) = TreeP!Due(e)[g]
  BY TreeReported DEF BothAnswered
<1>3. g = TwinFrame(call.schema, f) /\ f.depth = 0 /\ f.node = call.schema
  BY <1>1, RootsTwin, ComparableDefaults DEF BothInv
<1>4. f \in RawFrames /\ g \in CompiledFrames
  BY <1>1, <1>2, RawClosed, TreeClosed
<1>5. f.depth \in 0..MaxDepth + 1 /\ f.node \in NodesAt(call.schema)[f.depth]
  BY <1>3, NodesStep, DepthAssumption
<1> HIDE DEF f, g
<1>6. TreeP!Due(e)[g] = RawP!Due(e)[f]
  BY <1>1, <1>3, <1>4, <1>5, DueTwin
<1>7. Occurrences(errors, e) = Occurrences(errorsC, e)
  BY <1>1, <1>2, <1>6
<1>8. /\ Occurrences(errors, e) > 0 <=> e \in ToSet(errors)
      /\ Occurrences(errorsC, e) > 0 <=> e \in ToSet(errorsC)
  BY <1>1, <1>2, OccurrencesAreNat DEF IsSequence
<1> QED BY <1>1, <1>2, <1>7, <1>8

\* So it holds always.
LEMMA AlwaysBoth == Spec => []BothInv
  BY BothInit, BothStep, PTL DEF Spec

\* Compiling first changes nothing: for a schema within the depth cap both
\* validations report the same errors, each as often, whatever order the compiled
\* properties are walked in (walk_compiled against walk_schema).
THEOREM SameErrorsReported == Spec => []SameErrors
<1>1. BothInv => SameErrors
  <2> SUFFICES ASSUME BothInv, BothAnswered, FitsUnderCap(call.schema)
               PROVE  ToBag(errors) = ToBag(errorsC)
    BY DEF SameErrors
  <2>1. ASSUME NEW e
        PROVE  /\ Occurrences(errors, e) = Occurrences(errorsC, e)
               /\ e \in ToSet(errors) <=> e \in ToSet(errorsC)
    <3>1. Comparable(call.schema, e)
      BY DEF Comparable
    <3> QED BY <3>1, CountedAlike
  <2>2. Range(errors) = Range(errorsC)
    BY <2>1 DEF Range, ToSet
  <2>3. \A s : ToBag(s) = [e \in Range(s) |-> Occurrences(s, e)]
    BY DEF ToBag, Occurrences
  <2> QED BY <2>1, <2>2, <2>3
<1> QED BY <1>1, AlwaysBoth, PTL

\* An object is refused past the cap in both validations or in neither, unless a
\* schema declares a default just past the cap (the guards of walk_schema,
\* walk_compiled and compile_schema_inner).
THEOREM SameSubtreesRefused == Spec => []SameRefusals
<1>1. BothInv => SameRefusals
  <2> SUFFICES ASSUME BothInv, BothAnswered, ~DefaultPastCap(call.schema)
               PROVE  TooDeepPaths(errors) = TooDeepPaths(errorsC)
    BY DEF SameRefusals
  <2>1. ASSUME NEW e, e.kind = "SchemaTooDeep"
        PROVE  e \in ToSet(errors) <=> e \in ToSet(errorsC)
    <3>1. Comparable(call.schema, e)
      BY <2>1 DEF Comparable
    <3> QED BY <3>1, CountedAlike
  <2> QED BY <2>1 DEF TooDeepPaths
<1> QED BY <1>1, AlwaysBoth, PTL
=============================================================================
