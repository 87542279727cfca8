--------------------------- MODULE DataMappingProofs ---------------------------
(***************************************************************************)
(* What goes from the host into Ruby and back, for objects of any depth    *)
(* and size and integers of any two widths.                                *)
(***************************************************************************)
EXTENDS DataMapping, SequenceTheorems, TLAPS

-----------------------------------------------------------------------------
(* Integers.                                                               *)

(* The readings of a host integer as an unsigned one.                      *)
LEMMA UnsignedIs ==
  ASSUME NEW n \in HostIntegers
  PROVE  Unsigned(n) = IF n >= 0 THEN n ELSE n + 2 * IntegerLimit
<1> DEFINE m == 2 * IntegerLimit
<1>1. /\ IntegerLimit \in Nat /\ m \in Nat /\ m > 0
      /\ n \in Int /\ -IntegerLimit <= n /\ n < IntegerLimit
  BY MappingAssumption DEF HostIntegers
<1>2. n % m \in 0 .. m - 1 /\ n = m * (n \div m) + (n % m) /\ n \div m \in Int
  <2> HIDE DEF m
  <2> QED
    BY <1>1
<1> DEFINE q == n \div m
<1>3. q \in Int /\ n % m = n - m * q
  BY <1>1, <1>2
<1>4. CASE n >= 0
  <2>1. q = 0
    BY <1>1, <1>2, <1>4
  <2> QED
    BY <1>1, <1>3, <1>4, <2>1 DEF Unsigned
<1>5. CASE ~(n >= 0)
  <2>1. q = -1
    BY <1>1, <1>2, <1>5
  <2> QED
    BY <1>1, <1>3, <1>5, <2>1 DEF Unsigned
<1> QED
  BY <1>4, <1>5

(* A number that a Fixnum holds is read back as it was.                    *)
LEMMA SignedIs ==
  ASSUME NEW u \in Fixnums \intersect Nat
  PROVE  Signed(u) = u
<1>1. u \in HostIntegers /\ u >= 0 /\ u < IntegerLimit
  BY MappingAssumption DEF Fixnums, HostIntegers
<1>2. Unsigned(u) = u
  BY <1>1, UnsignedIs
<1> QED
  BY <1>1, <1>2 DEF Signed

(* A negative integer becomes one that no Fixnum can hold, not another     *)
(* number.                                                                 *)
LEMMA IntegerEchoes ==
  ASSUME NEW n \in HostIntegers
  PROVE  NodeToObject(IntegerToRuby(n)) =
           IF n \in Fixnums \intersect Nat THEN <<"integer", n>> ELSE <<"null">>
<1> DEFINE u == Unsigned(n)
<1>1. n \in Int /\ IntegerLimit \in Nat /\ FixnumLimit \in Nat /\ FixnumLimit <= IntegerLimit
      /\ -IntegerLimit <= n /\ n < IntegerLimit
  BY MappingAssumption DEF HostIntegers
<1>2. n \in Fixnums \intersect Nat => u = n
  BY <1>1, UnsignedIs
<1>3. n \notin Fixnums \intersect Nat => u \notin Fixnums
  BY <1>1, UnsignedIs DEF Fixnums
<1> HIDE DEF u
<1>4. CASE n \in Fixnums \intersect Nat
  <2>1. IntegerToRuby(n) = <<"fixnum", n>>
    BY <1>2, <1>4 DEF IntegerToRuby, Number, u
  <2> QED
    BY <1>4, <2>1, SignedIs DEF NodeToObject
<1>5. CASE n \notin Fixnums \intersect Nat
  <2>1. IntegerToRuby(n) = <<"bignum", u>>
    BY <1>3, <1>5 DEF IntegerToRuby, Number, u
  <2> QED
    BY <1>5, <2>1 DEF NodeToObject
<1> QED
  BY <1>4, <1>5

-----------------------------------------------------------------------------
(* Nodes and trees.                                                        *)

LEMMA NodeComesBack ==
  ASSUME NEW node, node \in ObjectNodes \/ node[1] \in {"double", "string"}, NEW tid
  PROVE  NodeEchoes(node, NodeToObject(NodeToRuby(node, tid)))
<1>1. CASE node \in {<<"none">>, <<"null">>, <<"map">>, <<"list">>}
  <2>1. CASE node = <<"none">>
    BY <2>1 DEF NodeEchoes, NodeToObject, NodeToRuby
  <2>2. CASE node = <<"null">>
    BY <2>2 DEF NodeEchoes, NodeToObject, NodeToRuby
  <2>3. CASE node = <<"map">>
    BY <2>3 DEF NodeEchoes, NodeToObject, NodeToRuby
  <2>4. CASE node = <<"list">>
    BY <2>4 DEF NodeEchoes, NodeToObject, NodeToRuby
  <2> QED
    BY <1>1, <2>1, <2>2, <2>3, <2>4
<1>2. CASE node \in {"boolean"} \X BOOLEAN
  <2>1. CASE node = <<"boolean", TRUE>>
    BY <2>1 DEF NodeEchoes, NodeToObject, NodeToRuby
  <2>2. CASE node = <<"boolean", FALSE>>
    BY <2>2 DEF NodeEchoes, NodeToObject, NodeToRuby
  <2>3. PICK b \in BOOLEAN : node = <<"boolean", b>>
    BY <1>2
  <2>4. b = TRUE \/ b = FALSE
    OBVIOUS
  <2> QED
    BY <2>1, <2>2, <2>3, <2>4, Zenon
<1>3. CASE node \in {"integer"} \X HostIntegers
  <2>1. PICK n \in HostIntegers : node = <<"integer", n>>
    BY <1>3
  <2>2. NodeToRuby(node, tid) = IntegerToRuby(n)
    BY <2>1 DEF NodeToRuby
  <2> QED
    BY <2>1, <2>2, IntegerEchoes DEF NodeEchoes
<1>4. CASE node \in {"callback"} \X Nat
  BY <1>4 DEF NodeEchoes, NodeToObject, NodeToRuby, BPCallback
<1>5. CASE node \in {"path"} \X DOMAIN RealPath
  <2>1. PICK p \in DOMAIN RealPath : node = <<"path", p>>
    BY <1>5
  <2>2. NodeToObject(NodeToRuby(node, tid)) = <<"path", RealPath[p]>>
    BY <2>1 DEF NodeToObject, NodeToRuby, PathnameToObject
  <2>3. RealPath[p] # NoPath => RealPath[p] \in DOMAIN RealPath /\ SameFile(p, RealPath[p])
    BY PathAssumption DEF SameFile
  <2> QED
    BY <2>1, <2>2, <2>3 DEF NodeEchoes
<1>6. CASE node[1] \in {"double", "string"}
  BY <1>6 DEF NodeEchoes, NodeToObject, NodeToRuby
<1> QED
  BY <1>1, <1>2, <1>3, <1>4, <1>5, <1>6 DEF ObjectNodes

(* Host objects and the parts of them.                                     *)
HasObjectNodes(o) ==
  \A p \in DOMAIN o : o[p] \in ObjectNodes \/ o[p][1] \in {"double", "string"}

LEMMA NodesComeBack ==
  ASSUME NEW o, HasObjectNodes(o), NEW tid
  PROVE  Echoes(o, ToObject(ToRuby(o, tid)))
<1>1. \A p \in DOMAIN o : NodeEchoes(o[p], NodeToObject(NodeToRuby(o[p], tid)))
  BY NodeComesBack DEF HasObjectNodes
<1> QED
  BY <1>1 DEF Echoes, ToObject, ToRuby

(* bp::Object to VALUE and back: every part is there again, in its place,  *)
(* and is what it was or what DataMapping.cpp makes of it.                 *)
THEOREM RoundTrip ==
  ASSUME NEW o, IsObject(o), NEW tid
  PROVE  Echoes(o, ToObject(ToRuby(o, tid)))
BY NodesComeBack DEF IsObject, HasObjectNodes

-----------------------------------------------------------------------------
(* Trees and their parts.                                                  *)

Keys  == NameKeys \union IndexKeys
Paths == Seq(Keys)

LEMMA PathFacts ==
  ASSUME NEW k \in Keys, NEW q \in Paths
  PROVE  /\ <<k>> \o q \in Paths /\ <<k>> \o q # <<>>
         /\ Head(<<k>> \o q) = k /\ Tail(<<k>> \o q) = q
  BY DEF Paths

LEMMA PathSplits ==
  ASSUME NEW p \in Paths, p # <<>>
  PROVE  Head(p) \in Keys /\ Tail(p) \in Paths /\ <<Head(p)>> \o Tail(p) = p
  BY DEF Paths

(* Values with paths for paths, and keys with such values for parts.       *)
IsTree(v)       == <<>> \in DOMAIN v /\ DOMAIN v \subseteq Paths
IsForest(parts) == DOMAIN parts \subseteq Keys /\ \A k \in DOMAIN parts : IsTree(parts[k])

LEMMA ObjectsAreTrees ==
  ASSUME NEW o, IsObject(o)
  PROVE  IsTree(o)
BY DEF IsObject, IsTree, Paths, Keys

(* Where a part leads to, the value leads to behind the key of the part.   *)
LEMMA PartFacts ==
  ASSUME NEW v, IsTree(v), NEW k
  PROVE  /\ DOMAIN Part(v, k) \subseteq Paths
         /\ \A q \in DOMAIN Part(v, k) :
              <<k>> \o q \in DOMAIN v /\ Part(v, k)[q] = v[<<k>> \o q]
<1> SUFFICES ASSUME NEW q \in DOMAIN Part(v, k)
             PROVE  q \in Paths /\ <<k>> \o q \in DOMAIN v /\ Part(v, k)[q] = v[<<k>> \o q]
  OBVIOUS
<1>1. PICK p \in DOMAIN v : p # <<>> /\ Head(p) = k /\ q = Tail(p)
  BY DEF Part
<1>2. p \in Paths
  BY DEF IsTree
<1> QED
  BY <1>1, <1>2, PathSplits DEF Part

LEMMA PartIsTree ==
  ASSUME NEW v, IsTree(v), NEW k \in KeysOf(v)
  PROVE  k \in Keys /\ IsTree(Part(v, k))
<1>1. PICK p \in DOMAIN v : Len(p) = 1 /\ k = Head(p)
  BY DEF KeysOf
<1>2. p \in Paths /\ p # <<>> /\ Tail(p) = <<>>
  <2>1. p \in Seq(Keys)
    BY DEF IsTree, Paths
  <2>2. p # <<>>
    BY <1>1, EmptySeq
  <2>3. Tail(p) \in Seq(Keys) /\ Len(Tail(p)) = 0
    BY <1>1, <2>1, <2>2, HeadTailProperties
  <2>4. Tail(p) = <<>>
    BY <2>3, EmptySeq
  <2> QED
    BY <2>1, <2>2, <2>4 DEF Paths
<1>3. k \in Keys
  BY <1>1, <1>2, PathSplits
<1>4. <<>> \in DOMAIN Part(v, k)
  BY <1>1, <1>2 DEF Part
<1> QED
  BY <1>3, <1>4, PartFacts DEF IsTree

(* Where a tree leads, and to what.                                        *)
LEMMA PathsAre ==
  ASSUME NEW parts, IsForest(parts), NEW p
  PROVE  p \in PathsIn(parts) <=>
           \/ p = <<>>
           \/ /\ p \in Paths /\ p # <<>>
              /\ Head(p) \in DOMAIN parts /\ Tail(p) \in DOMAIN parts[Head(p)]
<1>1. ASSUME p \in PathsIn(parts), p # <<>>
      PROVE  p \in Paths /\ Head(p) \in DOMAIN parts /\ Tail(p) \in DOMAIN parts[Head(p)]
  <2>1. PICK k \in DOMAIN parts : p \in {<<k>> \o q : q \in DOMAIN parts[k]}
    BY <1>1 DEF PathsIn
  <2>2. PICK q \in DOMAIN parts[k] : p = <<k>> \o q
    BY <2>1
  <2>3. k \in Keys /\ q \in Paths
    BY DEF IsForest, IsTree
  <2> QED
    BY <2>2, <2>3, PathFacts
<1>2. ASSUME p \in Paths, p # <<>>, Head(p) \in DOMAIN parts, Tail(p) \in DOMAIN parts[Head(p)]
      PROVE  p \in PathsIn(parts)
  <2>1. p = <<Head(p)>> \o Tail(p)
    BY <1>2, PathSplits
  <2>2. p \in {<<Head(p)>> \o q : q \in DOMAIN parts[Head(p)]}
    BY <1>2, <2>1, Zenon
  <2> QED
    BY <1>2, <2>2 DEF PathsIn
<1>3. <<>> \in PathsIn(parts)
  BY DEF PathsIn
<1> QED
  BY <1>1, <1>2, <1>3

LEMMA TreeFacts ==
  ASSUME NEW node, NEW parts, IsForest(parts)
  PROVE  /\ IsTree(Tree(node, parts))
         /\ DOMAIN Tree(node, parts) = PathsIn(parts)
         /\ Tree(node, parts)[<<>>] = node
         /\ \A p \in PathsIn(parts) : p # <<>> =>
              /\ Head(p) \in DOMAIN parts /\ Tail(p) \in DOMAIN parts[Head(p)]
              /\ Tree(node, parts)[p] = parts[Head(p)][Tail(p)]
<1>1. /\ DOMAIN Tree(node, parts) = PathsIn(parts)
      /\ \A p \in PathsIn(parts) :
           Tree(node, parts)[p] = IF p = <<>> THEN node ELSE parts[Head(p)][Tail(p)]
  BY DEF Tree
<1>2. <<>> \in PathsIn(parts)
  BY PathsAre
<1>3. <<>> \in Paths
  BY DEF Paths
<1>4. \A p \in PathsIn(parts) : p \in Paths
  BY PathsAre, <1>3
<1> QED
  BY <1>1, <1>2, <1>4, PathsAre DEF IsTree

(* A conversion of every node of a tree is one of its node and its parts.  *)
LEMMA NodeByNode ==
  ASSUME NEW node, NEW parts, IsForest(parts), NEW back, NEW backs, NEW v,
         DOMAIN backs = DOMAIN parts,
         \A k \in DOMAIN parts : DOMAIN backs[k] = DOMAIN parts[k],
         v = [p \in DOMAIN Tree(node, parts) |-> v[p]], v[<<>>] = back,
         \A p \in DOMAIN Tree(node, parts) : p # <<>> => v[p] = backs[Head(p)][Tail(p)]
  PROVE  v = Tree(back, backs)
<1>1. IsForest(backs)
  BY DEF IsForest, IsTree
<1>2. PathsIn(backs) = PathsIn(parts)
  <2>1. \A p : p \in PathsIn(backs) <=> p \in PathsIn(parts)
    BY <1>1, PathsAre
  <2> QED
    BY <2>1
<1>3. DOMAIN Tree(node, parts) = PathsIn(parts)
  BY DEF Tree
<1>4. \A p \in PathsIn(parts) : v[p] = IF p = <<>> THEN back ELSE backs[Head(p)][Tail(p)]
  BY <1>3
<1>5. v = [p \in PathsIn(parts) |-> IF p = <<>> THEN back ELSE backs[Head(p)][Tail(p)]]
  BY <1>3, <1>4
<1> QED
  BY <1>2, <1>5 DEF Tree

(* bpObjectToRuby calls itself for each part: the conversion of an object  *)
(* is that of its node, over those of its parts.                           *)
THEOREM ToRubyIsRecursive ==
  ASSUME NEW node, NEW parts, IsForest(parts), NEW tid
  PROVE  ToRuby(Tree(node, parts), tid) =
           Tree(NodeToRuby(node, tid), [k \in DOMAIN parts |-> ToRuby(parts[k], tid)])
<1> DEFINE o     == Tree(node, parts)
           inner == [k \in DOMAIN parts |-> ToRuby(parts[k], tid)]
           v     == ToRuby(o, tid)
<1>1. \A k \in DOMAIN parts : DOMAIN inner[k] = DOMAIN parts[k]
  BY DEF ToRuby
<1>2. v = [p \in DOMAIN o |-> v[p]] /\ \A p \in DOMAIN o : v[p] = NodeToRuby(o[p], tid)
  BY DEF ToRuby
<1>3. v[<<>>] = NodeToRuby(node, tid)
  BY <1>2, TreeFacts DEF IsTree
<1>4. ASSUME NEW p \in DOMAIN o, p # <<>>
      PROVE  v[p] = inner[Head(p)][Tail(p)]
  <2>1. /\ Head(p) \in DOMAIN parts /\ Tail(p) \in DOMAIN parts[Head(p)]
        /\ o[p] = parts[Head(p)][Tail(p)]
    BY <1>4, TreeFacts
  <2> QED
    BY <1>2, <2>1 DEF ToRuby
<1> HIDE DEF v, inner
<1>5. DOMAIN inner = DOMAIN parts
  BY DEF inner
<1>6. v = Tree(NodeToRuby(node, tid), inner)
  BY <1>1, <1>2, <1>3, <1>4, <1>5, NodeByNode
<1> QED
  BY <1>6 DEF v, inner

(* So does rubyToBPObject, through hashPopulator for the entries of a hash. *)
THEOREM ToObjectIsRecursive ==
  ASSUME NEW node, NEW parts, IsForest(parts)
  PROVE  ToObject(Tree(node, parts)) =
           Tree(NodeToObject(node), [k \in DOMAIN parts |-> ToObject(parts[k])])
<1> DEFINE v     == Tree(node, parts)
           inner == [k \in DOMAIN parts |-> ToObject(parts[k])]
           o     == ToObject(v)
<1>1. \A k \in DOMAIN parts : DOMAIN inner[k] = DOMAIN parts[k]
  BY DEF ToObject
<1>2. o = [p \in DOMAIN v |-> o[p]] /\ \A p \in DOMAIN v : o[p] = NodeToObject(v[p])
  BY DEF ToObject
<1>3. o[<<>>] = NodeToObject(node)
  BY <1>2, TreeFacts DEF IsTree
<1>4. ASSUME NEW p \in DOMAIN v, p # <<>>
      PROVE  o[p] = inner[Head(p)][Tail(p)]
  <2>1. /\ Head(p) \in DOMAIN parts /\ Tail(p) \in DOMAIN parts[Head(p)]
        /\ v[p] = parts[Head(p)][Tail(p)]
    BY <1>4, TreeFacts
  <2> QED
    BY <1>2, <2>1 DEF ToObject
<1> HIDE DEF o, inner
<1>5. DOMAIN inner = DOMAIN parts
  BY DEF inner
<1>6. o = Tree(NodeToObject(node), inner)
  BY <1>1, <1>2, <1>3, <1>4, <1>5, NodeByNode
<1> QED
  BY <1>6 DEF o, inner
-----------------------------------------------------------------------------
(* What becomes of the parts of what the host passes.                      *)

LEMMA ToRubyIsTree ==
  ASSUME NEW o, IsTree(o), NEW tid
  PROVE  IsTree(ToRuby(o, tid)) /\ KeysOf(ToRuby(o, tid)) = KeysOf(o)
BY DEF IsTree, KeysOf, ToRuby

LEMMA PartHasObjectNodes ==
  ASSUME NEW o, IsTree(o), HasObjectNodes(o), NEW k
  PROVE  HasObjectNodes(Part(o, k))
<1> SUFFICES ASSUME NEW q \in DOMAIN Part(o, k)
             PROVE  Part(o, k)[q] \in ObjectNodes \/ Part(o, k)[q][1] \in {"double", "string"}
  BY DEF HasObjectNodes
<1>1. <<k>> \o q \in DOMAIN o /\ Part(o, k)[q] = o[<<k>> \o q]
  BY PartFacts
<1> QED
  BY <1>1 DEF HasObjectNodes

(* A part of the converted object is that part, converted.                 *)
LEMMA PartToRuby ==
  ASSUME NEW o, IsTree(o), NEW k, NEW tid
  PROVE  Part(ToRuby(o, tid), k) = ToRuby(Part(o, k), tid)
<1> DEFINE v == ToRuby(o, tid)
<1>1. DOMAIN v = DOMAIN o /\ \A p \in DOMAIN o : v[p] = NodeToRuby(o[p], tid)
  BY DEF ToRuby
<1>2. IsTree(v)
  BY ToRubyIsTree
<1> HIDE DEF v
<1>3. DOMAIN Part(v, k) = DOMAIN Part(o, k)
  BY <1>1 DEF Part
<1>4. ASSUME NEW q \in DOMAIN Part(o, k)
      PROVE  Part(v, k)[q] = NodeToRuby(Part(o, k)[q], tid)
  <2>1. <<k>> \o q \in DOMAIN o /\ Part(o, k)[q] = o[<<k>> \o q]
    BY PartFacts
  <2>2. Part(v, k)[q] = v[<<k>> \o q]
    BY <1>2, <1>3, PartFacts
  <2> QED
    BY <1>1, <2>1, <2>2
<1>5. Part(v, k) = [q \in DOMAIN Part(v, k) |-> Part(v, k)[q]]
  BY DEF Part
<1>6. Part(v, k) = ToRuby(Part(o, k), tid)
  BY <1>3, <1>4, <1>5 DEF ToRuby
<1> QED
  BY <1>6 DEF v

(* Values that echo do so as the only entry of a map.                      *)
LEMMA EntryEchoes ==
  ASSUME NEW k \in Keys, NEW o, IsTree(o), NEW back, Echoes(o, back)
  PROVE  Echoes(Map(Only(k, o)), Map(Only(k, back)))
<1> DEFINE parts == Only(k, o)
           backs == Only(k, back)
<1>1. IsForest(parts) /\ IsForest(backs)
  BY DEF IsForest, IsTree, Echoes, Only
<1>2. DOMAIN parts = {k} /\ parts[k] = o /\ DOMAIN backs = {k} /\ backs[k] = back
  BY DEF Only
<1>3. DOMAIN o = DOMAIN back /\ \A q \in DOMAIN o : NodeEchoes(o[q], back[q])
  BY DEF Echoes
<1> HIDE DEF parts, backs
<1>4. \A p : p \in PathsIn(backs) <=> p \in PathsIn(parts)
  BY <1>1, <1>2, <1>3, PathsAre
<1>5. PathsIn(backs) = PathsIn(parts)
  BY <1>4
<1>6. DOMAIN Map(parts) = PathsIn(parts) /\ DOMAIN Map(backs) = PathsIn(parts)
  BY <1>1, <1>5, TreeFacts DEF Map
<1>7. ASSUME NEW p \in PathsIn(parts)
      PROVE  NodeEchoes(Map(parts)[p], Map(backs)[p])
  <2>1. CASE p = <<>>
    BY <1>1, <2>1, TreeFacts DEF Map, NodeEchoes
  <2>2. CASE p # <<>>
    <3>1. Head(p) = k /\ Tail(p) \in DOMAIN o
      BY <1>1, <1>2, <2>2, TreeFacts
    <3>2. Map(parts)[p] = o[Tail(p)] /\ Map(backs)[p] = back[Tail(p)]
      BY <1>1, <1>2, <1>5, <2>2, <3>1, TreeFacts DEF Map
    <3> QED
      BY <1>3, <3>1, <3>2
  <2> QED
    BY <2>1, <2>2
<1>8. Echoes(Map(parts), Map(backs))
  BY <1>6, <1>7 DEF Echoes
<1> QED
  BY <1>8 DEF parts, backs

(* A hash of one's own, with a value that the host passed in it, echoes    *)
(* the map of what the host passed.                                        *)
LEMMA HashEchoes ==
  ASSUME NEW k \in Keys, NEW o, IsTree(o), HasObjectNodes(o), NEW tid
  PROVE  Echoes(Map(Only(k, o)), ToObject(Hash(Only(k, ToRuby(o, tid)))))
<1> DEFINE v     == ToRuby(o, tid)
           parts == Only(k, v)
<1>1. IsTree(v)
  BY ToRubyIsTree
<1>2. Echoes(o, ToObject(v))
  BY NodesComeBack
<1> HIDE DEF v
<1>3. IsForest(parts) /\ DOMAIN parts = {k} /\ parts[k] = v
  BY <1>1 DEF IsForest, Only
<1>4. [x \in DOMAIN parts |-> ToObject(parts[x])] = Only(k, ToObject(v))
  BY <1>3 DEF Only
<1> HIDE DEF parts
<1>5. NodeToObject(<<"hash", "strings">>) = <<"map">>
  BY DEF NodeToObject
<1>6. ToObject(Hash(parts)) = Map(Only(k, ToObject(v)))
  BY <1>3, <1>4, <1>5, ToObjectIsRecursive DEF Hash, Map
<1>7. Echoes(Map(Only(k, o)), Map(Only(k, ToObject(v))))
  BY <1>2, EntryEchoes
<1> QED
  BY <1>6, <1>7 DEF parts, v

-----------------------------------------------------------------------------
(* Callbacks, and what no value of Ruby is.                                *)

LEMMA NodeKinds ==
  ASSUME NEW node, node \in ObjectNodes \/ node[1] \in {"double", "string"}, NEW tid
  PROVE  /\ NodeToRuby(node, tid)[1] \notin {"none", "pending"}
         /\ NodeToRuby(node, tid)[1] = "BPCallback" <=> node[1] = "callback"
         /\ node[1] = "callback" => NodeToRuby(node, tid)[2] = [tid |-> tid, cid |-> node[2]]
<1>1. CASE node[1] \in {"none", "null"}
  BY <1>1 DEF NodeToRuby
<1>2. CASE node[1] = "boolean"
  BY <1>2 DEF NodeToRuby
<1>3. CASE node[1] = "integer"
  BY <1>3 DEF NodeToRuby, IntegerToRuby, Number
<1>4. CASE node[1] = "callback"
  BY <1>4 DEF NodeToRuby, BPCallback
<1>5. CASE node[1] = "path"
  BY <1>5 DEF NodeToRuby
<1>6. CASE node[1] \in {"map", "list"}
  BY <1>6 DEF NodeToRuby
<1>7. CASE node[1] \in {"double", "string"}
  BY <1>7 DEF NodeToRuby
<1>8. node \in ObjectNodes =>
        node[1] \in {"none", "null", "map", "list", "boolean", "integer", "callback", "path"}
  BY DEF ObjectNodes
<1> QED
  BY <1>1, <1>2, <1>3, <1>4, <1>5, <1>6, <1>7, <1>8

(* NoObject and what is pending are no values of Ruby's.                   *)
LEMMA IsRuby ==
  ASSUME NEW o, IsTree(o), HasObjectNodes(o), NEW tid
  PROVE  Kind(ToRuby(o, tid)) \notin {"none", "pending"}
BY NodeKinds DEF IsTree, HasObjectNodes, Kind, ToRuby

(* BPCallback.new is called for each callback in the arguments of tid and  *)
(* for nothing else, with tid and the id of the callback.                  *)
THEOREM CallbacksAreThoseOfTheObject ==
  ASSUME NEW o, IsObject(o), NEW tid
  PROVE  CallbacksIn(ToRuby(o, tid)) = {[tid |-> tid, cid |-> c] : c \in CallBacksOf(o)}
<1> DEFINE v == ToRuby(o, tid)
<1>1. DOMAIN v = DOMAIN o /\ \A p \in DOMAIN o : v[p] = NodeToRuby(o[p], tid)
  BY DEF ToRuby
<1>2. \A p \in DOMAIN o :
        /\ v[p][1] = "BPCallback" <=> o[p][1] = "callback"
        /\ o[p][1] = "callback" => v[p][2] = [tid |-> tid, cid |-> o[p][2]]
  BY <1>1, NodeKinds DEF IsObject
<1> HIDE DEF v
<1>3. ASSUME NEW c \in CallbacksIn(v)
      PROVE  c \in {[tid |-> tid, cid |-> d] : d \in CallBacksOf(o)}
  <2>1. PICK p \in DOMAIN v : v[p][1] = "BPCallback" /\ c = v[p][2]
    BY DEF CallbacksIn
  <2>2. p \in DOMAIN o /\ o[p][1] = "callback" /\ c = [tid |-> tid, cid |-> o[p][2]]
    BY <1>1, <1>2, <2>1
  <2>3. o[p][2] \in CallBacksOf(o)
    BY <2>2 DEF CallBacksOf
  <2> QED
    BY <2>2, <2>3
<1>4. ASSUME NEW d \in CallBacksOf(o)
      PROVE  [tid |-> tid, cid |-> d] \in CallbacksIn(v)
  <2>1. PICK p \in DOMAIN o : o[p][1] = "callback" /\ d = o[p][2]
    BY DEF CallBacksOf
  <2>2. p \in DOMAIN v /\ v[p][1] = "BPCallback" /\ v[p][2] = [tid |-> tid, cid |-> d]
    BY <1>1, <1>2, <2>1
  <2> QED
    BY <2>2 DEF CallbacksIn
<1>5. CallbacksIn(v) = {[tid |-> tid, cid |-> d] : d \in CallBacksOf(o)}
  BY <1>3, <1>4
<1> QED
  BY <1>5 DEF v

-----------------------------------------------------------------------------
(* What cannot come back.                                                  *)

LEMMA SymbolsAreOfMaps ==
  ASSUME NEW node, node \in ObjectNodes \/ node[1] \in {"double", "string"}, NEW tid
  PROVE  NodeToRuby(node, tid) = <<"hash", "symbols">> <=> node = <<"map">>
<1>1. CASE node = <<"map">>
  BY <1>1 DEF NodeToRuby
<1>2. CASE node # <<"map">>
  <2>1. node[1] # "map"
    BY <1>2 DEF ObjectNodes
  <2>2. NodeToRuby(node, tid)[1] # "hash"
    <3>1. CASE node[1] \in {"none", "null"}
      BY <3>1 DEF NodeToRuby
    <3>2. CASE node[1] = "boolean"
      BY <3>2 DEF NodeToRuby
    <3>3. CASE node[1] = "integer"
      BY <3>3 DEF NodeToRuby, IntegerToRuby, Number
    <3>4. CASE node[1] = "callback"
      BY <3>4 DEF NodeToRuby, BPCallback
    <3>5. CASE node[1] \in {"path", "list", "double", "string"}
      BY <3>5 DEF NodeToRuby
    <3> QED
      BY <2>1, <3>1, <3>2, <3>3, <3>4, <3>5 DEF ObjectNodes
  <2> QED
    BY <1>2, <2>2
<1> QED
  BY <1>1, <1>2

(* bpObjectToRuby makes symbols of the names of maps, and hashPopulator    *)
(* takes every key for a string: what the host passed can be passed on     *)
(* just if there is no entry in any of its maps.                           *)
THEOREM EntriesHaveNoWayBack ==
  ASSUME NEW o, IsObject(o), NEW tid
  PROVE  IsConvertible(ToRuby(o, tid)) <=> ~ \E p \in DOMAIN o \ {<<>>} : o[Front(p)] = <<"map">>
<1> DEFINE v == ToRuby(o, tid)
<1>1. DOMAIN v = DOMAIN o /\ \A p \in DOMAIN o : v[p] = NodeToRuby(o[p], tid)
  BY DEF ToRuby
<1>2. \A p \in DOMAIN o : v[p] = <<"hash", "symbols">> <=> o[p] = <<"map">>
  BY <1>1, SymbolsAreOfMaps DEF IsObject
<1>3. \A p \in DOMAIN o \ {<<>>} : Front(p) \in DOMAIN o
  BY DEF IsObject
<1> HIDE DEF v
<1>4. IsConvertible(v) <=> ~ \E p \in DOMAIN o \ {<<>>} : o[Front(p)] = <<"map">>
  BY <1>1, <1>2, <1>3 DEF IsConvertible
<1> QED
  BY <1>4 DEF v

(* A value leads to a place only by way of that above it.                  *)
IsClosed(v) == \A p \in DOMAIN v \ {<<>>} : Front(p) \in DOMAIN v

LEMMA FrontOfPath ==
  ASSUME NEW k \in Keys, NEW q \in Paths, q # <<>>
  PROVE  /\ Front(q) \in Paths
         /\ Front(<<k>> \o q) = <<k>> \o Front(q)
<1> DEFINE n == Len(q)
           f == Front(q)
           p == <<k>> \o q
           g == Front(p)
           r == <<k>> \o f
<1>1. q \in Seq(Keys) /\ <<k>> \in Seq(Keys) /\ Len(<<k>>) = 1 /\ n \in Nat \ {0}
  BY EmptySeq DEF Paths
<1>2. \A i \in 1 .. n : q[i] \in Keys
  BY <1>1, ElementOfSeq
<1>3. f \in Seq(Keys) /\ Len(f) = n - 1 /\ \A i \in 1 .. n - 1 : f[i] = q[i]
  <2>1. \A i \in 1 .. n - 1 : q[i] \in Keys
    BY <1>1, <1>2
  <2>2. /\ SubSeq(q, 1, n - 1) \in Seq(Keys)
        /\ Len(SubSeq(q, 1, n - 1)) = IF 1 <= n - 1 THEN n - 1 - 1 + 1 ELSE 0
        /\ \A i \in 1 .. n - 1 - 1 + 1 : SubSeq(q, 1, n - 1)[i] = q[1 + i - 1]
    <3> HIDE DEF n
    <3> QED
      BY <1>1, <2>1, SubSeqProperties
  <2>3. f = SubSeq(q, 1, n - 1)
    BY DEF Front
  <2> HIDE DEF f, n
  <2> QED
    BY <1>1, <2>2, <2>3
<1>4. p \in Seq(Keys) /\ Len(p) = n + 1
      /\ \A i \in 1 .. n + 1 : p[i] = IF i <= 1 THEN k ELSE q[i - 1]
  BY <1>1, ConcatProperties
<1>5. r \in Seq(Keys) /\ Len(r) = n
      /\ \A i \in 1 .. n : r[i] = IF i <= 1 THEN k ELSE f[i - 1]
  <2> HIDE DEF f, n
  <2> QED
    BY <1>1, <1>3, ConcatProperties
<1>6. g \in Seq(Keys) /\ Len(g) = n /\ \A i \in 1 .. n : g[i] = p[i]
  <2>1. \A i \in 1 .. n : p[i] \in Keys
    <3> HIDE DEF n, p
    <3> QED
      BY <1>1, <1>4, ElementOfSeq
  <2>2. g = SubSeq(p, 1, n)
    <3>1. Len(p) - 1 = n
      <4> HIDE DEF n, p
      <4> QED
        BY <1>1, <1>4
    <3> QED
      BY <3>1 DEF Front
  <2> HIDE DEF n, p, g
  <2>3. /\ SubSeq(p, 1, n) \in Seq(Keys)
        /\ Len(SubSeq(p, 1, n)) = IF 1 <= n THEN n - 1 + 1 ELSE 0
        /\ \A i \in 1 .. n - 1 + 1 : SubSeq(p, 1, n)[i] = p[1 + i - 1]
    BY <1>1, <2>1, SubSeqProperties
  <2> QED
    BY <1>1, <2>2, <2>3
<1> HIDE DEF n, f, p, g, r
<1>7. ASSUME NEW i \in 1 .. n
      PROVE  g[i] = r[i]
  <2>1. i \in 1 .. n + 1 /\ g[i] = p[i]
    BY <1>1, <1>6
  <2>2. CASE i <= 1
    BY <1>4, <1>5, <2>1, <2>2
  <2>3. CASE ~(i <= 1)
    <3>1. i - 1 \in 1 .. n - 1
      BY <1>1, <2>3
    <3>2. p[i] = q[i - 1] /\ r[i] = f[i - 1]
      BY <1>4, <1>5, <2>1, <2>3
    <3> QED
      BY <1>3, <2>1, <3>1, <3>2
  <2> QED
    BY <2>2, <2>3
<1>8. g = r
  BY <1>5, <1>6, <1>7, SeqEqual
<1> QED
  BY <1>3, <1>8 DEF f, g, p, r, Paths

LEMMA ClosedPart ==
  ASSUME NEW v, IsTree(v), IsClosed(v), NEW k \in Keys
  PROVE  IsClosed(Part(v, k))
<1> SUFFICES ASSUME NEW q \in DOMAIN Part(v, k) \ {<<>>}
             PROVE  Front(q) \in DOMAIN Part(v, k)
  BY DEF IsClosed
<1> DEFINE p == <<k>> \o q
           f == Front(q)
<1>1. q \in Paths /\ p \in DOMAIN v
  BY PartFacts
<1>2. p # <<>> /\ f \in Paths /\ Front(p) = <<k>> \o f
  BY <1>1, PathFacts, FrontOfPath
<1>3. <<k>> \o f \in DOMAIN v
  BY <1>1, <1>2 DEF IsClosed
<1> HIDE DEF f
<1>4. <<k>> \o f # <<>> /\ Head(<<k>> \o f) = k /\ Tail(<<k>> \o f) = f
  BY <1>2, PathFacts
<1>5. f \in DOMAIN Part(v, k)
  BY <1>3, <1>4 DEF Part
<1> QED
  BY <1>5 DEF f

(* A part that cannot be converted is one of a value that cannot be.       *)
LEMMA PartConverts ==
  ASSUME NEW v, IsTree(v), IsClosed(v), NEW k \in Keys, IsConvertible(v)
  PROVE  IsConvertible(Part(v, k))
<1> SUFFICES ASSUME NEW q \in DOMAIN Part(v, k) \ {<<>>}
             PROVE  Part(v, k)[Front(q)] # <<"hash", "symbols">>
  BY DEF IsConvertible
<1> DEFINE p == <<k>> \o q
<1>1. q \in Paths /\ p \in DOMAIN v
  BY PartFacts
<1>2. p # <<>> /\ Front(p) = <<k>> \o Front(q)
  BY <1>1, PathFacts, FrontOfPath
<1>3. Front(q) \in DOMAIN Part(v, k)
  BY ClosedPart DEF IsClosed
<1>4. Part(v, k)[Front(q)] = v[<<k>> \o Front(q)]
  BY <1>3, PartFacts
<1> QED
  BY <1>1, <1>2, <1>4 DEF IsConvertible

(* A hash of one's own can be converted when what is in it can.            *)
LEMMA HashConverts ==
  ASSUME NEW v, IsTree(v), IsClosed(v), NEW k \in Keys, IsConvertible(v)
  PROVE  IsConvertible(Hash(Only(k, v)))
<1> DEFINE parts == Only(k, v)
           w     == Hash(parts)
<1>1. IsForest(parts) /\ DOMAIN parts = {k} /\ parts[k] = v
  BY DEF IsForest, Only
<1> HIDE DEF parts
<1>2. /\ DOMAIN w = PathsIn(parts) /\ w[<<>>] = <<"hash", "strings">>
      /\ \A p \in DOMAIN w : p # <<>> => Tail(p) \in DOMAIN v /\ w[p] = v[Tail(p)]
  BY <1>1, TreeFacts DEF Hash
<1> HIDE DEF w
<1>3. ASSUME NEW p \in DOMAIN w \ {<<>>}
      PROVE  w[Front(p)] # <<"hash", "symbols">>
  <2> DEFINE q == Tail(p)
  <2>1. p \in Paths /\ Head(p) = k /\ q \in DOMAIN v
    BY <1>1, <1>2, PathsAre
  <2>2. q \in Paths /\ p = <<k>> \o q
    BY <2>1, PathSplits
  <2>3. CASE q = <<>>
    <3>1. Front(p) = <<>>
      BY <2>2, <2>3 DEF Front
    <3> QED
      BY <1>2, <3>1
  <2>4. CASE q # <<>>
    <3> DEFINE f == Front(q)
               g == <<k>> \o f
    <3>1. Front(p) = g /\ f \in Paths /\ f \in DOMAIN v /\ v[f] # <<"hash", "symbols">>
      BY <2>1, <2>2, <2>4, FrontOfPath DEF IsClosed, IsConvertible
    <3> HIDE DEF f, q
    <3>2. g \in Paths /\ g # <<>> /\ Head(g) = k /\ Tail(g) = f
      BY <3>1, PathFacts
    <3> HIDE DEF g
    <3>3. g \in PathsIn(parts)
      BY <1>1, <3>1, <3>2, PathsAre
    <3>4. w[g] = v[f]
      BY <1>2, <3>2, <3>3
    <3> QED
      BY <3>1, <3>4
  <2> QED
    BY <2>3, <2>4
<1>4. IsConvertible(w)
  BY <1>3 DEF IsConvertible
<1> QED
  BY <1>4 DEF w, parts
=============================================================================
