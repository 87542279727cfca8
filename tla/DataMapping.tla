------------------------------ MODULE DataMapping ------------------------------
(***************************************************************************)
(* DataMapping.cpp: host objects (bp::Object) into Ruby values and back.   *)
(*                                                                         *)
(* A value of either side is a tree: a function from paths to nodes.  The  *)
(* empty path leads to the value itself, <<k>> to the entry or element at  *)
(* the key k, <<k, l>> to the part of that at l.  A node is a tuple of its *)
(* kind and its content.  The code converts a value by converting its node *)
(* and calling itself for each part: every node is converted once.         *)
(***************************************************************************)
EXTENDS Integers, Sequences, SequencesExt

CONSTANTS
  IntegerLimit, \* host integers are below it: 2^63
  FixnumLimit,  \* Ruby Fixnums are below it: 2^30 or 2^62
  Names,        \* names of the entries of maps
  RealPath,     \* where each path leads: an absolute path, or NoPath
  NoPath        \* the empty path, where realpath fails

ASSUME MappingAssumption ==
  /\ IntegerLimit \in Nat /\ FixnumLimit \in Nat \ {0}
  /\ FixnumLimit <= IntegerLimit

(* An absolute path, free of links, leads to itself.                       *)
ASSUME PathAssumption ==
  \A p \in DOMAIN RealPath : RealPath[p] # NoPath =>
    RealPath[p] \in DOMAIN RealPath /\ RealPath[RealPath[p]] = RealPath[p]

(* Keys: the names of a map or hash, the places in a list or array.        *)
NameKeys  == {"name"} \X Names
IndexKeys == {"index"} \X (Nat \ {0})
Name(n)   == <<"name", n>>
Index(i)  == <<"index", i>>

(* A value without parts; the paths in one whose parts a function from     *)
(* keys gives, and that value; parts, of which there is one; the keys of   *)
(* the parts of a value; a part.                                           *)
Leaf(node) == [p \in {<<>>} |-> node]
PathsIn(parts) ==
  {<<>>} \union UNION {{<<k>> \o q : q \in DOMAIN parts[k]} : k \in DOMAIN parts}
Tree(node, parts) ==
  [p \in PathsIn(parts) |-> IF p = <<>> THEN node ELSE parts[Head(p)][Tail(p)]]
Only(k, v) == [l \in {k} |-> v]
KeysOf(v) == {Head(p) : p \in {p \in DOMAIN v : Len(p) = 1}}
Part(v, k) ==
  [q \in {Tail(p) : p \in {p \in DOMAIN v : p # <<>> /\ Head(p) = k}} |-> v[<<k>> \o q]]

Kind(v) == v[<<>>][1]

(* Host objects.                                                           *)
NoObject     == Leaf(<<"none">>)        \* the null pointer
Boolean(b)   == Leaf(<<"boolean", b>>)
Integer(n)   == Leaf(<<"integer", n>>)
CallBack(id) == Leaf(<<"callback", id>>)
Path(p)      == Leaf(<<"path", p>>)
Map(parts)   == Tree(<<"map">>, parts)
List(s)      == Tree(<<"list">>, [k \in {Index(i) : i \in DOMAIN s} |-> s[k[2]]])

HostIntegers == -IntegerLimit .. IntegerLimit - 1
ObjectNodes ==
  {<<"none">>, <<"null">>, <<"map">>, <<"list">>}
    \union ({"boolean"} \X BOOLEAN) \union ({"integer"} \X HostIntegers)
    \union ({"callback"} \X Nat) \union ({"path"} \X DOMAIN RealPath)
IsObject(o) ==
  /\ <<>> \in DOMAIN o
  /\ \A p \in DOMAIN o :
       /\ p \in Seq(NameKeys \union IndexKeys)
       /\ o[p] \in ObjectNodes \/ o[p][1] \in {"double", "string"}
       /\ p # <<>> => /\ Front(p) \in DOMAIN o
                      /\ \/ o[Front(p)] = <<"map">>  /\ Last(p) \in NameKeys
                         \/ o[Front(p)] = <<"list">> /\ Last(p) \in IndexKeys

(* Ruby values.  The keys of a hash are symbols or strings.                *)
Nil         == Leaf(<<"nil">>)
False       == Leaf(<<"false">>)
Text(name)  == Leaf(<<"string", name>>)
Hash(parts) == Tree(<<"hash", "strings">>, parts)

(* Ruby keeps an integer that does not fit a Fixnum as a Bignum.           *)
Fixnums   == -FixnumLimit .. FixnumLimit - 1
Number(n) == <<IF n \in Fixnums THEN "fixnum" ELSE "bignum", n>>

(* The two's complement readings of an integer of the host's width.        *)
Unsigned(n) == n % (2 * IntegerLimit)
Signed(n)   ==
  LET u == Unsigned(n) IN IF u < IntegerLimit THEN u ELSE u - 2 * IntegerLimit

-----------------------------------------------------------------------------
(* Slips of the pen in the code below: the runs show that a property would *)
(* notice.                                                                 *)

(* The arguments of BPCallback.new are swapped.                            *)
SwappedCallback(tid, id) == <<"BPCallback", [tid |-> id, cid |-> tid]>>

(* Integers go through a narrower type.                                    *)
NarrowInteger(n) == Number(n % (FixnumLimit \div 2))

-----------------------------------------------------------------------------
(* bpObjectToRuby: tid is the transaction in whose arguments o came.       *)

(* rb_ull2inum takes the integer for an unsigned one.                      *)
IntegerToRuby(n) == Number(Unsigned(n))

BPCallback(tid, id) == <<"BPCallback", [tid |-> tid, cid |-> id]>>

(* The names of a map become symbols.                                      *)
NodeToRuby(node, tid) ==
  CASE node[1] \in {"none", "null"} -> <<"nil">>
    [] node[1] = "boolean"          -> IF node[2] THEN <<"true">> ELSE <<"false">>
    [] node[1] = "integer"          -> IntegerToRuby(node[2])
    [] node[1] = "callback"         -> BPCallback(tid, node[2])
    [] node[1] = "path"             -> <<"pathname", node[2]>>
    [] node[1] = "map"              -> <<"hash", "symbols">>
    [] node[1] = "list"             -> <<"array">>
    [] OTHER                        -> node    \* doubles and strings

ToRuby(o, tid) == [p \in DOMAIN o |-> NodeToRuby(o[p], tid)]

-----------------------------------------------------------------------------
(* rubyToBPObject.                                                         *)

(* realpath of a Pathname that leads nowhere raises, but its error is reset *)
(* by the call of to_s, which makes the empty string of nil.               *)
PathnameToObject(p) == <<"path", RealPath[p]>>

NodeToObject(node) ==
  CASE node[1] = "fixnum"   -> <<"integer", Signed(node[2])>>
    [] node[1] = "true"     -> <<"boolean", TRUE>>
    [] node[1] = "false"    -> <<"boolean", FALSE>>
    [] node[1] = "pathname" -> PathnameToObject(node[2])
    [] node[1] = "hash"     -> <<"map">>
    [] node[1] = "array"    -> <<"list">>
    [] node[1] \in {"double", "string"} -> node
    [] OTHER                -> <<"null">>      \* nil, Bignums, symbols, other objects

ToObject(v) == [p \in DOMAIN v |-> NodeToObject(v[p])]

(* hashPopulator takes the key of an entry for a string, whatever it is:   *)
(* the conversion has an outcome only where no entry has a symbol for key. *)
IsConvertible(v) ==
  \A p \in DOMAIN v \ {<<>>} : v[Front(p)] # <<"hash", "symbols">>

-----------------------------------------------------------------------------
(* The callbacks in a Ruby value, and those in a host object.              *)
CallbacksIn(v) == {v[p][2] : p \in {p \in DOMAIN v : v[p][1] = "BPCallback"}}
CallBacksOf(o) == {o[p][2] : p \in {p \in DOMAIN o : o[p][1] = "callback"}}

(* Both paths lead to one place.                                           *)
SameFile(p, q) == RealPath[p] = RealPath[q]

(* back is what remains of a node after it went into Ruby and came back:   *)
(* itself, but for a number that no Fixnum can hold, or negative, and a    *)
(* callback, which come back as null.  A path comes back as one to the     *)
(* same file; of a path that leads nowhere nothing is claimed but that it  *)
(* comes back as a path.                                                   *)
NodeEchoes(node, back) ==
  CASE node[1] = "integer"  ->
         back = node \/ (back = <<"null">> /\ node[2] \notin Fixnums \intersect Nat)
    [] node[1] = "callback" -> back = <<"null">>
    [] node[1] = "none"     -> back \in {<<"null">>, <<"none">>}
    [] node[1] = "path"     ->
         /\ back[1] = "path"
         /\ RealPath[node[2]] # NoPath =>
              back[2] \in DOMAIN RealPath /\ SameFile(node[2], back[2])
    [] OTHER                -> back = node

(* An object comes back with all of its parts, and each in its place.      *)
Echoes(o, back) ==
  /\ DOMAIN back = DOMAIN o
  /\ \A p \in DOMAIN o : NodeEchoes(o[p], back[p])
=============================================================================
