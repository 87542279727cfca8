--------------------------- MODULE ServiceDefinition ---------------------------
(***************************************************************************)
(* How a service in Ruby comes to its description: the host's thread loads *)
(* the script (service.cpp), the script documents its class (bp_doc of     *)
(* ruby/browserplus.rb) and extractDefinition (Definition.cpp) turns what  *)
(* was documented into the description that the host is given.             *)
(*                                                                         *)
(* A documentation text is a record of its introduction and its arguments, *)
(* each with its bracket ("<" when it is required), name and type, and     *)
(* whether nothing is said about it (blank); and whether white space ends  *)
(* it.  A text that is no string is Nothing.                               *)
(*                                                                         *)
(* A method is a key of the hash @bp_doc, a symbol or a string: the symbol *)
(* and the string of one name are two keys.                                *)
(***************************************************************************)
EXTENDS Integers, Sequences, FiniteSets, SequencesExt, FiniteSetsExt

CONSTANTS
  Classes,      \* classes a script may document
  Named,        \* those that have a name
  Methods,      \* methods a script may document: the keys it names them by
  KeyNames,     \* the name of each key
  ClassDoc,     \* the key of the documentation of a class: bp_doc without a method
  Statements,   \* the bp_doc calls of scripts: class, method (or ClassDoc), text
  VersionCalls, \* the bp_version calls of scripts: class, version
  KnownTypes,   \* the types of arguments the host knows
  Nothing,      \* nil, NULL
  Files,        \* the content of script files: "script", "" or "missing"
  MaxLoads,     \* bound: how often the host loads a script
  MaxStatements \* bound: bp_doc calls executed by all scripts together

ASSUME DefinitionAssumption ==
  /\ Named \subseteq Classes
  /\ ClassDoc \notin Methods
  /\ DOMAIN KeyNames = Methods
  /\ Nothing \notin Classes
  /\ \A s \in Statements : s.class \in Classes /\ s.method \in Methods \union {ClassDoc}
  /\ \A s \in Statements : s.text # Nothing =>
       Len(s.text.args) \in Nat /\ DOMAIN s.text.args = 1 .. Len(s.text.args)
  /\ MaxLoads \in Nat /\ MaxStatements \in Nat

VARIABLES
  load,       \* the load in progress or the last one: "none", "evaluating",
              \* "loaded", "failed"; "down" after BPPShutdown
  entry,      \* $BrowserPlusEntryPointClass
  doc,        \* @bp_doc of each class, in the order of its keys
  version,    \* @bp_version of each class: "well-formed", "malformed" or Nothing
  s_desc,     \* which description it points to, or 0
  descs,      \* the memory of the descriptions: Nothing when deleted
  loads,      \* how many loads have begun
  log         \* history: the bp_doc calls that returned

serviceVars == <<s_desc, descs>>
scriptVars  == <<entry, doc, version, log>>
definitionVars == <<load, loads, serviceVars, scriptVars>>

(* The description that BPPInitialize has last returned to the host.       *)
desc == IF s_desc = 0 THEN Nothing ELSE descs[s_desc]

Versions == {"well-formed", "malformed"}

ASSUME VersionAssumption ==
  \A s \in VersionCalls : s.class \in Classes /\ s.version \in Versions

DefinitionInit ==
  /\ load = "none"
  /\ entry = Nothing
  /\ doc = [c \in Classes |-> <<>>]
  /\ version = [c \in Classes |-> Nothing]
  /\ s_desc = 0
  /\ descs = <<>>
  /\ loads = 0
  /\ log = <<>>

-----------------------------------------------------------------------------
(* Slips of the pen in the code below: the runs show that a property would *)
(* notice.                                                                 *)

ListedButFirst(text) == DOMAIN text.args \ {1}  \* it goes with the introduction
ParseUnswapped(m, text) ==      \* bp_doc with a text alone takes it for the method
  [method |-> IF m = ClassDoc THEN text ELSE m, documentation |-> text.intro, arguments |-> <<>>]
DocumentFirst(docs, d) ==        \* the text that comes first is kept
  IF \E i \in DOMAIN docs : docs[i].method = d.method THEN docs ELSE Append(docs, d)
AnyClass(c) == TRUE                             \* the class is not compared
ProcessAnyArgument(a) == TRUE                   \* the type is taken as it comes

-----------------------------------------------------------------------------
(* ruby/browserplus.rb                                                     *)

(* The expression that splits a text eats the white space behind an        *)
(* argument: one with nothing behind it takes the next for its             *)
(* documentation, and at the very end of the text it is no argument.       *)
Listed(text) ==
  LET args == text.args
      listed[i \in DOMAIN args] ==
        /\ i = 1 \/ ~(listed[i - 1] /\ args[i - 1].blank)
        /\ i = Len(args) /\ args[i].blank => text.trailing
  IN  {i \in DOMAIN args : listed[i]}

(* bp_doc raises when the text is no string, when it is empty, and when    *)
(* nothing but white space is behind its last argument.                    *)
IsEmpty(text) == text.intro = "" /\ text.args = <<>> /\ ~text.trailing
Parses(text) ==
  /\ text # Nothing
  /\ ~IsEmpty(text)
  /\ \A i \in Listed(text) : ~(i = Len(text.args) /\ text.args[i].blank)

(* The k-th of a set of numbers.                                           *)
Nth(S, k) == CHOOSE i \in S : Cardinality({j \in S : j <= i}) = k

ParseArguments(text) ==
  LET listed == Listed(text)
  IN  [k \in 1 .. Cardinality(listed) |->
         LET a == text.args[Nth(listed, k)]
         IN  [name |-> a.name, type |-> a.type, required |-> a.bracket = "<"]]

ParseBpDoc(m, text) ==
  [method |-> m, documentation |-> text.intro, arguments |-> ParseArguments(text)]

(* The places of a method in what was documented: one at most, as a hash   *)
(* has each key once.                                                      *)
Places(docs, m) == {i \in DOMAIN docs : docs[i].method = m}

(* A text replaces an earlier one of the same method, in its place.        *)
Document(docs, d) ==
  IF Places(docs, d.method) # {}
    THEN [i \in DOMAIN docs |-> IF docs[i].method = d.method THEN d ELSE docs[i]]
    ELSE Append(docs, d)

IsEntryPoint(c) == entry \in {Nothing, c}

(* bp_doc refuses a second class before it changes anything, a text it     *)
(* cannot parse after the class has become the entry point.  What it       *)
(* raises ends the load (FailLoad) unless the script rescues it.           *)
BpDoc(s) ==
  /\ load = "evaluating"
  /\ Len(log) < MaxStatements
  /\ IsEntryPoint(s.class)
  /\ entry' = s.class
  /\ IF Parses(s.text)
       THEN /\ doc' = [doc EXCEPT ![s.class] = Document(@, ParseBpDoc(s.method, s.text))]
            /\ log' = Append(log, s)
       ELSE UNCHANGED <<doc, log>>
  /\ UNCHANGED <<load, loads, serviceVars, version>>

(* bp_version raises when the version is no string.                        *)
BpVersion(s) ==
  /\ load = "evaluating"
  /\ version' = [version EXCEPT ![s.class] = s.version]
  /\ UNCHANGED <<load, loads, serviceVars, entry, doc, log>>

(* The function of a key has its name.                                     *)
ToS(k) == KeyNames[k]
Told(d) == [name          |-> ToS(d.method),
            documentation |-> d.documentation,
            arguments     |-> d.arguments]

(* to_service_description of the entry point class: what was said of the   *)
(* class itself is taken out of the functions.                             *)
ToServiceDescription ==
  LET docs == doc[entry]
      own  == Places(docs, ClassDoc)
      at   == CHOOSE i \in own : TRUE
      told == IF own = {} THEN docs ELSE RemoveAt(docs, at)
  IN  [name          |-> IF entry \in Named THEN entry ELSE Nothing,
       version       |-> version[entry],
       documentation |-> IF own = {} THEN Nothing ELSE docs[at].documentation,
       functions     |-> [i \in DOMAIN told |-> Told(told[i])]]

-----------------------------------------------------------------------------
(* Definition.cpp                                                          *)

ExtractString(val) == val # Nothing
ExtractBool(val)   == val \in BOOLEAN

(* The host knows the type.                                                *)
ProcessArgument(a) == ExtractBool(a.required) /\ a.type \in KnownTypes

ProcessFunction(f) == \A i \in DOMAIN f.arguments : ProcessArgument(f.arguments[i])

ExtractDefinition ==
  LET d == ToServiceDescription
  IN  IF /\ entry # Nothing
         /\ ExtractString(d.name)
         /\ ExtractString(d.documentation)
         /\ d.version = "well-formed"
         /\ \A i \in DOMAIN d.functions : ProcessFunction(d.functions[i])
      THEN d ELSE Nothing

-----------------------------------------------------------------------------
(* BPPInitialize, T_LoadService and BPPShutdown.                           *)

(* A file that cannot be opened reads as an empty one.                     *)
ReadFile(file) == IF file = "missing" THEN "" ELSE file

DescDeleted == [n \in DOMAIN descs |-> IF n = s_desc THEN Nothing ELSE descs[n]]

(* s_desc is overwritten; what it pointed to stays as it is.               *)
DescOverwritten == descs

(* loadRubyService returns d, and BPPInitialize its definition: pointers   *)
(* into d, which the host keeps.                                           *)
LoadReturns(d) ==
  IF d = Nothing
    THEN load' = "failed" /\ s_desc' = 0 /\ descs' = DescOverwritten
    ELSE /\ load' = "loaded"
         /\ s_desc' = Len(descs) + 1
         /\ descs' = Append(DescOverwritten, d)

(* Without the parameter ScriptFile, BPPInitialize returns NULL before it  *)
(* loads, and leaves s_desc alone.                                         *)
InitializeWithoutScript ==
  /\ load' = "failed"
  /\ UNCHANGED serviceVars

InitializeWithScript(file) ==
  IF ReadFile(file) = ""
    THEN LoadReturns(Nothing)
    ELSE load' = "evaluating" /\ UNCHANGED serviceVars

Initialize ==
  /\ load \notin {"evaluating", "down"}
  /\ loads < MaxLoads
  /\ loads' = loads + 1
  /\ InitializeWithoutScript \/ \E file \in Files : InitializeWithScript(file)
  /\ UNCHANGED scriptVars

(* The script does not parse, or raises.                                   *)
FailLoad ==
  /\ load = "evaluating"
  /\ LoadReturns(Nothing)
  /\ UNCHANGED <<loads, scriptVars>>

FinishLoad ==
  /\ load = "evaluating"
  /\ LoadReturns(ExtractDefinition)
  /\ UNCHANGED <<loads, scriptVars>>

(* Ruby is finalized, and cannot be started again.                         *)
Shutdown ==
  /\ load \in {"loaded", "failed"}
  /\ load' = "down"
  /\ s_desc' = 0
  /\ descs' = DescDeleted
  /\ UNCHANGED <<loads, scriptVars>>

DefinitionNext ==
  \/ Initialize
  \/ FailLoad
  \/ FinishLoad
  \/ Shutdown
  \/ \E s \in Statements : BpDoc(s)
  \/ \E s \in VersionCalls : BpVersion(s)

DefinitionSpec == DefinitionInit /\ [][DefinitionNext]_definitionVars

-----------------------------------------------------------------------------
(* The variables have their types.                                         *)
DefinitionTypeOK ==
  /\ load \in {"none", "evaluating", "loaded", "failed", "down"}
  /\ entry \in Classes \union {Nothing}
  /\ \A c \in Classes : \A i \in DOMAIN doc[c] :
       /\ doc[c][i].method \in Methods \union {ClassDoc}
       /\ \A k \in DOMAIN doc[c][i].arguments : doc[c][i].arguments[k].required \in BOOLEAN
  /\ version \in [Classes -> Versions \union {Nothing}]
  /\ loads \in 0..MaxLoads
  /\ s_desc \in 0..Len(descs)
  /\ Len(log) <= MaxStatements

(* What the scripts said of a method m of class c, in order.               *)
Said(c, m) == {i \in DOMAIN log : log[i].class = c /\ log[i].method = m}
LastSaid(m)  == log[Max(Said(desc.name, m))].text
FirstSaid(m) == Min(Said(desc.name, m))

(* The keys of the functions of a description: those that were documented, *)
(* each once, in the order in which they were first documented.            *)
KeysSaid == {m \in Methods : Said(desc.name, m) # {}}
KeyLists == {key \in [DOMAIN desc.functions -> Methods] :
               /\ {key[i] : i \in DOMAIN key} = KeysSaid
               /\ \A i, j \in DOMAIN key : i < j => FirstSaid(key[i]) < FirstSaid(key[j])}

(* The description has one function for each key that was documented, with *)
(* the name of the key and what was said of it last, in the order of the   *)
(* first words: the host and the pages that call the service know no other *)
(* (service.cpp:160).  A symbol and a string of one name are two keys, and *)
(* give two functions of that name.                                        *)
DescriptionMatchesDocs ==
  load = "loaded" =>
    /\ \E key \in KeyLists : \A i \in DOMAIN key :
         /\ desc.functions[i].name = ToS(key[i])
         /\ desc.functions[i].documentation = LastSaid(key[i]).intro
    /\ desc.documentation = LastSaid(ClassDoc).intro

(* When something is said about every argument of a text, the description  *)
(* lists them all, in order, and asks for those in angle brackets.         *)
ArgumentsAreListed ==
  load = "loaded" =>
    \E key \in KeyLists : \A i \in DOMAIN key :
      LET a == desc.functions[i].arguments
          t == LastSaid(key[i]).args
      IN  (\A k \in DOMAIN t : ~t[k].blank) =>
            /\ Len(a) = Len(t)
            /\ \A k \in DOMAIN t :
                 /\ a[k].name = t[k].name /\ a[k].type = t[k].type
                 /\ a[k].required = (t[k].bracket = "<")

(* The host is never given the definition of a class without a name or a   *)
(* proper version, nor one with an argument of a type that it does not     *)
(* know: test_bad_type of unittest/unittest.rb.                            *)
BadScriptsAreRefused ==
  \A n \in DOMAIN descs : descs[n] # Nothing =>
    /\ descs[n].name \in Named /\ descs[n].version = "well-formed"
    /\ \A i \in DOMAIN descs[n].functions :
         \A k \in DOMAIN descs[n].functions[i].arguments :
           descs[n].functions[i].arguments[k].type \in KnownTypes

(* A definition that was returned to the host can be read until            *)
(* BPPShutdown, however many other scripts are loaded in between, or fail. *)
DefinitionsStayValid ==
  load # "down" => \A n \in DOMAIN descs : descs[n] # Nothing

(* However many scripts were loaded and whatever they rescued, one class   *)
(* is documented: "you may only have a single entry point class"           *)
(* (ruby/browserplus.rb:28).                                               *)
OneEntryPoint == \A c \in Classes : doc[c] # <<>> => c = entry
=============================================================================
