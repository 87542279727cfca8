--------------------------- MODULE MCServiceSession ---------------------------
(* Small instances of ServiceSession for TLC.                              *)
EXTENDS ServiceSession

CONSTANTS A, B, self, hello, sha1, helloString, nil, here, gone, home, nowhere, t1, t2

Arg(bracket, name, type, blank) ==
  [bracket |-> bracket, name |-> name, type |-> type, blank |-> blank]

(* The documentation of hello in unittest/BasicService, of a function      *)
(* without arguments, of one whose first and last arguments are not        *)
(* commented (bp_doc raises if white space follows), of BadType, and an    *)
(* empty one.                                                              *)
Doc(intro, list, trailing) == [intro |-> intro, args |-> list, trailing |-> trailing]
TerseArgs == <<Arg("<", "who", "string", TRUE), Arg("[", "cb", "callback", FALSE),
               Arg("[", "n", "integer", TRUE)>>

Plain   == Doc("plain", <<>>, TRUE)
Hello   == Doc("hello", <<Arg("<", "who", "string", FALSE),
                          Arg("[", "cb", "callback", FALSE)>>, TRUE)
Terse   == Doc("terse", TerseArgs, FALSE)
Bare    == Doc("bare", TerseArgs, TRUE)
Empty   == Doc("", <<>>, FALSE)
BadType == Doc("badtype", <<Arg("[", "cb", "bogus", FALSE)>>, TRUE)

Says(c, m, text) == [class |-> c, method |-> m, text |-> text]

SomeStatements == {
  Says(A, self, Plain), Says(A, hello, Hello), Says(A, hello, Terse),
  Says(A, hello, BadType), Says(A, sha1, Plain), Says(B, self, Plain),
  Says(B, hello, Nothing), Says(A, sha1, Bare), Says(A, sha1, Empty),
  Says(A, helloString, Plain)}

(* The symbol hello and the string hello have one name.                    *)
SomeKeyNames == [k \in {hello, helloString, sha1} |-> IF k = sha1 THEN "sha1" ELSE "hello"]

SomeVersions == [class : {A}, version : Versions]

HostTypes  == {"string", "callback", "integer"}
SomeFiles  == {"script", "", "missing"}
SomeTids   == {t1, t2}
TidSymmetry == Permutations(SomeTids)
SomeErrors == {NoObject, Nil, Text("oops")}

(* A path that leads to another, which leads to itself, and one that leads *)
(* nowhere.                                                                *)
Resolve   == [p \in {here, gone, home} |-> IF p = gone THEN nowhere ELSE home]
SomeNames == {"n", "cb", "f", "g", "l", "m"}

SomeArguments == {
  NoObject, List(<<CallBack(6)>>),
  Map(Name("n") :> Integer(5) @@ Name("cb") :> CallBack(7)),
  Map(Name("f") :> Path(here) @@ Name("g") :> Path(gone)),
  Map(Name("l") :> List(<<CallBack(8), Integer(-1), Integer(3), Boolean(TRUE)>>)),
  Map(Name("m") :> Map(Name("cb") :> CallBack(9)))}
=============================================================================
