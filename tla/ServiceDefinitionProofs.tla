------------------------- MODULE ServiceDefinitionProofs -------------------------
(***************************************************************************)
(* Whatever scripts the host loads, and however they fail: what it is told *)
(* of a service is what the script of the service documented, and stays    *)
(* readable.                                                               *)
(***************************************************************************)
EXTENDS ServiceDefinition, FiniteSetTheorems, SequenceTheorems, TLAPS

-----------------------------------------------------------------------------
(* The inductive invariant.                                                *)

(* The calls of bp_doc that return, and what each documents.               *)
Spoken   == {s \in Statements : Parses(s.text)}
Entry(s) == ParseBpDoc(s.method, s.text)
Entries  == {Entry(s) : s \in Spoken}
ServiceDescriptions ==
  [name : Classes \union {Nothing}, version : Versions \union {Nothing},
   documentation : {e.documentation : e \in Entries} \union {Nothing},
   functions : Seq({Told(e) : e \in Entries})]

Typed ==
  /\ load \in {"none", "evaluating", "loaded", "failed", "down"}
  /\ entry \in Classes \union {Nothing}
  /\ doc \in [Classes -> Seq(Entries)]
  /\ version \in [Classes -> Versions \union {Nothing}]
  /\ log \in Seq(Spoken)
  /\ Len(log) <= MaxStatements
  /\ loads \in 0 .. MaxLoads
  /\ descs \in Seq(ServiceDescriptions \union {Nothing})
  /\ s_desc \in 0 .. Len(descs)

(* A method is documented where something was said of it, with what was    *)
(* said last, and in the order in which it was said first.                 *)
KeysWereSaid ==
  \A c \in Classes : \A m \in Methods \union {ClassDoc} :
    Places(doc[c], m) # {} <=> Said(c, m) # {}
LastWordCounts ==
  \A c \in Classes : \A i \in DOMAIN doc[c] :
    \E n \in Said(c, doc[c][i].method) :
      /\ \A k \in Said(c, doc[c][i].method) : k <= n
      /\ doc[c][i] = Entry(log[n])
FirstWordOrders ==
  \A c \in Classes : \A i \in DOMAIN doc[c] :
    \E n \in Said(c, doc[c][i].method) :
      /\ \A k \in Said(c, doc[c][i].method) : n <= k
      /\ \A j \in DOMAIN doc[c] : i < j => \A k \in Said(c, doc[c][j].method) : n < k

(* What the host was told last is what the class says of itself: nothing   *)
(* is documented between the end of a load and the next.                   *)
DescriptionIsCurrent ==
  load = "loaded" =>
    /\ s_desc \in DOMAIN descs
    /\ entry \in Named
    /\ desc = ToServiceDescription
    /\ desc.documentation # Nothing

DefinitionInvariant ==
  /\ Typed
  /\ OneEntryPoint
  /\ KeysWereSaid /\ LastWordCounts /\ FirstWordOrders
  /\ DescriptionIsCurrent
  /\ BadScriptsAreRefused
  /\ DefinitionsStayValid

-----------------------------------------------------------------------------
(* Entries, and what becomes of them in the documentation of a class.      *)

LEMMA EntryFields ==
  ASSUME NEW s \in Spoken
  PROVE  /\ Entry(s) \in Entries
         /\ Entry(s).method = s.method
         /\ Entry(s).method \in Methods \union {ClassDoc}
         /\ Entry(s).documentation = s.text.intro
         /\ Entry(s).arguments = ParseArguments(s.text)
         /\ s.class \in Classes /\ s.text # Nothing
BY DefinitionAssumption DEF Entry, Entries, ParseBpDoc, Spoken, Parses

LEMMA EntryMethods == \A e \in Entries : e.method \in Methods \union {ClassDoc}
BY EntryFields DEF Entries

LEMMA DocumentEffect ==
  ASSUME NEW docs \in Seq(Entries), NEW d \in Entries
  PROVE  LET new == Document(docs, d)
             old == Places(docs, d.method) # {}
         IN  /\ new \in Seq(Entries)
             /\ Len(new) = IF old THEN Len(docs) ELSE Len(docs) + 1
             /\ \A i \in DOMAIN docs :
                  new[i] = IF docs[i].method = d.method THEN d ELSE docs[i]
             /\ ~old => new[Len(docs) + 1] = d
<1> DEFINE new == Document(docs, d)
           old == Places(docs, d.method) # {}
<1>0. Len(docs) \in Nat /\ DOMAIN docs = 1 .. Len(docs)
  BY LenProperties
<1>1. CASE old
  <2>1. new = [i \in 1 .. Len(docs) |-> IF docs[i].method = d.method THEN d ELSE docs[i]]
    BY <1>0, <1>1 DEF Document
  <2>2. \A i \in 1 .. Len(docs) : (IF docs[i].method = d.method THEN d ELSE docs[i]) \in Entries
    BY <1>0
  <2>3. new \in [1 .. Len(docs) -> Entries]
    BY <2>1, <2>2
  <2>4. new \in Seq(Entries)
    BY <1>0, <2>3, SeqDef
  <2>5. Len(new) = Len(docs)
    BY <1>0, <2>3, <2>4, LenProperties
  <2> QED
    BY <1>0, <1>1, <2>1, <2>4, <2>5
<1>2. CASE ~old
  <2>1. new = Append(docs, d)
    BY <1>2 DEF Document
  <2>2. \A i \in DOMAIN docs : docs[i].method # d.method
    BY <1>2 DEF Places
  <2> QED
    BY <1>0, <1>2, <2>1, <2>2, AppendProperties
<1> QED
  BY <1>1, <1>2

LEMMA RemoveAtEffect ==
  ASSUME NEW S, NEW s \in Seq(S), NEW at \in DOMAIN s
  PROVE  /\ RemoveAt(s, at) \in Seq(S)
         /\ Len(RemoveAt(s, at)) = Len(s) - 1
         /\ \A i \in 1 .. Len(s) - 1 :
              RemoveAt(s, at)[i] = s[IF i < at THEN i ELSE i + 1]
<1> DEFINE front == SubSeq(s, 1, at - 1)
           rear  == SubSeq(s, at + 1, Len(s))
<1>0. Len(s) \in Nat /\ at \in 1 .. Len(s)
  BY LenProperties
<1>1. /\ front \in Seq(S) /\ Len(front) = at - 1
      /\ \A i \in 1 .. at - 1 : front[i] = s[i]
  <2>1. \A i \in 1 .. at - 1 : s[i] \in S
    BY <1>0, ElementOfSeq
  <2>2. /\ front \in Seq(S)
        /\ Len(front) = IF 1 <= at - 1 THEN at - 1 - 1 + 1 ELSE 0
        /\ \A i \in 1 .. at - 1 - 1 + 1 : front[i] = s[1 + i - 1]
    BY <1>0, <2>1, SubSeqProperties
  <2> QED
    BY <1>0, <2>2
<1>2. /\ rear \in Seq(S) /\ Len(rear) = Len(s) - at
      /\ \A i \in 1 .. Len(s) - at : rear[i] = s[at + i]
  <2>1. \A i \in at + 1 .. Len(s) : s[i] \in S
    BY <1>0, ElementOfSeq
  <2>2. /\ rear \in Seq(S)
        /\ Len(rear) = IF at + 1 <= Len(s) THEN Len(s) - (at + 1) + 1 ELSE 0
        /\ \A i \in 1 .. Len(s) - (at + 1) + 1 : rear[i] = s[at + 1 + i - 1]
    BY <1>0, <2>1, SubSeqProperties
  <2> QED
    BY <1>0, <2>2
<1> HIDE DEF front, rear
<1>3. /\ front \o rear \in Seq(S)
      /\ Len(front \o rear) = Len(front) + Len(rear)
      /\ \A i \in 1 .. Len(front) + Len(rear) :
           (front \o rear)[i] = IF i <= Len(front) THEN front[i] ELSE rear[i - Len(front)]
  BY <1>1, <1>2, ConcatProperties
<1>4. RemoveAt(s, at) = front \o rear
  BY DEF RemoveAt, front, rear
<1>5. ASSUME NEW i \in 1 .. Len(s) - 1
      PROVE  (front \o rear)[i] = s[IF i < at THEN i ELSE i + 1]
  <2>1. CASE i < at
    BY <1>0, <1>1, <1>2, <1>3, <2>1
  <2>2. CASE ~(i < at)
    <3>0. i \in 1 .. Len(front) + Len(rear) /\ ~(i <= Len(front)) /\ Len(front) = at - 1
      BY <1>0, <1>1, <1>2, <2>2
    <3>1. (front \o rear)[i] = rear[i - (at - 1)] /\ i - (at - 1) \in 1 .. Len(s) - at
      <4>1. (front \o rear)[i] = rear[i - Len(front)]
        BY <1>3, <3>0
      <4>2. i - (at - 1) \in 1 .. Len(s) - at
        BY <1>0, <2>2
      <4> QED
        BY <3>0, <4>1, <4>2
    <3>2. rear[i - (at - 1)] = s[at + (i - (at - 1))]
      BY <1>2, <3>1
    <3>3. at + (i - (at - 1)) = i + 1
      BY <1>0
    <3> QED
      BY <2>2, <3>1, <3>2, <3>3
  <2> QED
    BY <2>1, <2>2
<1>6. Len(front \o rear) = Len(s) - 1
  BY <1>0, <1>1, <1>2, <1>3
<1> QED
  BY <1>3, <1>4, <1>5, <1>6

-----------------------------------------------------------------------------
(* What a log has of a method of a class.                                  *)
Sayings(l, c, m) == {i \in DOMAIN l : l[i].class = c /\ l[i].method = m}

(* bp_doc returns: the class has said one thing more.                      *)
LEMMA SaidEffect ==
  ASSUME Typed, NEW s \in Spoken, log' = Append(log, s)
  PROVE  LET n == Len(log) + 1
         IN  /\ n \in Nat /\ log' \in Seq(Spoken) /\ Len(log') = n
             /\ \A i \in DOMAIN log : log'[i] = log[i]
             /\ log'[n] = s
             /\ \A c, m : /\ Sayings(log, c, m) \subseteq DOMAIN log
                          /\ \A k \in Sayings(log, c, m) : k \in Nat /\ k < n
             /\ \A c, m : Sayings(log', c, m) =
                  IF c = s.class /\ m = s.method
                    THEN Sayings(log, c, m) \union {n} ELSE Sayings(log, c, m)
<1> DEFINE n == Len(log) + 1
<1>1. log \in Seq(Spoken) /\ Len(log) \in Nat /\ DOMAIN log = 1 .. Len(log)
  BY LenProperties DEF Typed
<1>2. /\ log' \in Seq(Spoken) /\ Len(log') = n
      /\ \A i \in DOMAIN log : log'[i] = log[i]
      /\ log'[n] = s
  BY <1>1, AppendProperties
<1>3. DOMAIN log' = DOMAIN log \union {n} /\ n \notin DOMAIN log
  <2>1. DOMAIN log' = 1 .. n
    BY <1>2, LenProperties
  <2> QED
    BY <1>1, <2>1
<1>4. \A c, m : /\ Sayings(log, c, m) \subseteq DOMAIN log
               /\ \A k \in Sayings(log, c, m) : k \in Nat /\ k < n
  BY <1>1 DEF Sayings
<1>5. \A c, m : Sayings(log', c, m) =
        IF c = s.class /\ m = s.method
          THEN Sayings(log, c, m) \union {n} ELSE Sayings(log, c, m)
  BY <1>2, <1>3 DEF Sayings
<1> QED
  BY <1>1, <1>2, <1>4, <1>5

(* A class and its method were said something of from the first entry on.  *)
LEMMA DocSequences ==
  ASSUME Typed, NEW c \in Classes
  PROVE  /\ doc[c] \in Seq(Entries)
         /\ Len(doc[c]) \in Nat /\ DOMAIN doc[c] = 1 .. Len(doc[c])
         /\ \A i \in DOMAIN doc[c] :
              doc[c][i] \in Entries /\ doc[c][i].method \in Methods \union {ClassDoc}
<1>1. doc[c] \in Seq(Entries)
  BY DEF Typed
<1>2. Len(doc[c]) \in Nat /\ DOMAIN doc[c] = 1 .. Len(doc[c])
  BY <1>1, LenProperties
<1>3. \A i \in DOMAIN doc[c] : doc[c][i] \in Entries
  BY <1>1, <1>2, ElementOfSeq
<1> QED
  BY <1>1, <1>2, <1>3, EntryMethods

(* What was said is documented, whatever was said of the method before.    *)
LEMMA SpokenStep ==
  ASSUME DefinitionInvariant, NEW s \in Spoken,
         IsEntryPoint(s.class), entry' = s.class,
         doc' = [doc EXCEPT ![s.class] = Document(@, Entry(s))],
         log' = Append(log, s), Len(log) < MaxStatements
  PROVE  /\ doc' \in [Classes -> Seq(Entries)]
         /\ log' \in Seq(Spoken) /\ Len(log') <= MaxStatements
         /\ OneEntryPoint' /\ KeysWereSaid' /\ LastWordCounts' /\ FirstWordOrders'
<1> DEFINE c == s.class
           m == s.method
           n == Len(log) + 1
           old == doc[c]
           new == Document(old, Entry(s))
           new_m == Places(old, m) = {}
<1>t. Typed /\ OneEntryPoint /\ KeysWereSaid /\ LastWordCounts /\ FirstWordOrders
  BY DEF DefinitionInvariant
<1>c. c \in Classes /\ m \in Methods \union {ClassDoc}
  BY EntryFields
<1>e. /\ Entry(s) \in Entries /\ Entry(s).method = m
  BY EntryFields
<1>l. /\ n \in Nat /\ log' \in Seq(Spoken) /\ Len(log') = n
      /\ \A i \in DOMAIN log : log'[i] = log[i]
      /\ log'[n] = s
      /\ \A b, x : Sayings(log, b, x) \subseteq DOMAIN log /\ \A k \in Sayings(log, b, x) : k \in Nat /\ k < n
      /\ \A b, x : Sayings(log', b, x) = IF b = c /\ x = m THEN Sayings(log, b, x) \union {n} ELSE Sayings(log, b, x)
  BY <1>t, SaidEffect
<1>o. /\ old \in Seq(Entries)
      /\ Len(old) \in Nat /\ DOMAIN old = 1 .. Len(old)
      /\ \A i \in DOMAIN old : old[i] \in Entries
  BY <1>t, <1>c, DocSequences
<1>n. /\ new \in Seq(Entries)
      /\ DOMAIN new = IF new_m THEN DOMAIN old \union {Len(old) + 1} ELSE DOMAIN old
      /\ \A i \in DOMAIN old : new[i] = IF old[i].method = m THEN Entry(s) ELSE old[i]
      /\ new_m => new[Len(old) + 1] = Entry(s)
  <2> DEFINE had(x) == Places(old, x) # {}
  <2>0. LET x == Entry(s).method
        IN  /\ new \in Seq(Entries)
            /\ Len(new) = IF had(x) THEN Len(old) ELSE Len(old) + 1
            /\ \A i \in DOMAIN old : new[i] = IF old[i].method = x THEN Entry(s) ELSE old[i]
            /\ ~had(x) => new[Len(old) + 1] = Entry(s)
    BY <1>o, <1>e, DocumentEffect
  <2>a. new_m <=> ~had(m)
    OBVIOUS
  <2> HIDE DEF had, new, new_m, old
  <2>1. /\ new \in Seq(Entries)
        /\ Len(new) = IF had(m) THEN Len(old) ELSE Len(old) + 1
        /\ \A i \in DOMAIN old : new[i] = IF old[i].method = m THEN Entry(s) ELSE old[i]
        /\ ~had(m) => new[Len(old) + 1] = Entry(s)
    BY <1>e, <2>0
  <2>2. DOMAIN new = 1 .. Len(new)
    BY <2>1, LenProperties
  <2>3. CASE had(m)
    BY <1>o, <2>a, <2>1, <2>2, <2>3
  <2>4. CASE ~had(m)
    <3>1. 1 .. Len(old) + 1 = 1 .. Len(old) \union {Len(old) + 1}
      BY <1>o
    <3> QED
      BY <1>o, <2>a, <2>1, <2>2, <2>4, <3>1
  <2> QED
    BY <2>3, <2>4
<1>d. /\ doc' \in [Classes -> Seq(Entries)]
      /\ doc'[c] = new
      /\ \A b \in Classes : b # c => doc'[b] = doc[b]
  BY <1>t, <1>c, <1>n DEF Typed
<1> HIDE DEF new
(* Methods stay at their places; the new one is at the end.                *)
<1>m. /\ \A i \in DOMAIN old : new[i].method = old[i].method
      /\ new_m => new[Len(old) + 1].method = m
  BY <1>n, <1>e
<1>1. OneEntryPoint'
  BY <1>t, <1>c, <1>d, DefinitionAssumption DEF OneEntryPoint, IsEntryPoint
<1>2. KeysWereSaid'
  <2> SUFFICES ASSUME NEW b \in Classes, NEW x \in Methods \union {ClassDoc}
               PROVE  Places(doc'[b], x) # {} <=> Sayings(log', b, x) # {}
    BY DEF KeysWereSaid, Said, Sayings
  <2>0. Places(doc[b], x) # {} <=> Sayings(log, b, x) # {}
    BY <1>t DEF KeysWereSaid, Said, Sayings
  <2>1. CASE b # c
    BY <1>l, <1>d, <2>0, <2>1
  <2>2. CASE b = c /\ x = m
    <3>1. Places(new, m) # {}
      BY <1>n, <1>m DEF Places
    <3> QED
      BY <1>l, <1>d, <2>2, <3>1
  <2>3. CASE b = c /\ x # m
    <3>1. Places(new, x) = Places(old, x)
      BY <1>n, <1>m, <2>3 DEF Places
    <3> QED
      BY <1>l, <1>d, <2>0, <2>3, <3>1
  <2> QED
    BY <2>1, <2>2, <2>3
<1>3. LastWordCounts'
  <2> SUFFICES ASSUME NEW b \in Classes, NEW i \in DOMAIN doc'[b]
               PROVE  \E l \in Sayings(log', b, doc'[b][i].method) :
                        /\ \A k \in Sayings(log', b, doc'[b][i].method) : k <= l
                        /\ doc'[b][i] = Entry(log'[l])
    BY DEF LastWordCounts, Said, Sayings
  <2>1. ASSUME i \in DOMAIN doc[b], doc'[b][i] = doc[b][i],
               Sayings(log', b, doc[b][i].method) = Sayings(log, b, doc[b][i].method)
        PROVE  \E l \in Sayings(log', b, doc'[b][i].method) :
                 /\ \A k \in Sayings(log', b, doc'[b][i].method) : k <= l
                 /\ doc'[b][i] = Entry(log'[l])
    BY <1>t, <1>l, <2>1 DEF LastWordCounts, Said, Sayings
  <2>2. CASE b # c
    BY <1>l, <1>d, <2>1, <2>2
  <2>3. CASE b = c /\ new[i].method = m
    <3>1. new[i] = Entry(s)
      BY <1>d, <1>n, <1>m, <2>3
    <3>2. n \in Sayings(log', c, m) /\ \A k \in Sayings(log', c, m) : k <= n
      BY <1>l
    <3> QED
      BY <1>d, <1>l, <2>3, <3>1, <3>2
  <2>4. CASE b = c /\ new[i].method # m
    <3>1. i \in DOMAIN old /\ new[i] = old[i] /\ old[i].method # m
      BY <1>d, <1>n, <1>m, <2>4
    <3> QED
      BY <1>d, <1>l, <2>1, <2>4, <3>1
  <2> QED
    BY <2>2, <2>3, <2>4
<1>4. FirstWordOrders'
  <2> SUFFICES ASSUME NEW b \in Classes, NEW i \in DOMAIN doc'[b]
               PROVE  \E l \in Sayings(log', b, doc'[b][i].method) :
                        /\ \A k \in Sayings(log', b, doc'[b][i].method) : l <= k
                        /\ \A j \in DOMAIN doc'[b] : i < j =>
                             \A k \in Sayings(log', b, doc'[b][j].method) : l < k
    BY DEF FirstWordOrders, Said, Sayings
  <2>1. CASE b # c
    <3>1. doc'[b] = doc[b] /\ \A x : Sayings(log', b, x) = Sayings(log, b, x)
      BY <1>l, <1>d, <2>1
    <3> QED
      BY <1>t, <3>1 DEF FirstWordOrders, Said, Sayings
  <2>2. CASE b = c /\ i \in DOMAIN old
    <3> PICK l \in Sayings(log, c, old[i].method) :
          /\ \A k \in Sayings(log, c, old[i].method) : l <= k
          /\ \A j \in DOMAIN old : i < j => \A k \in Sayings(log, c, old[j].method) : l < k
      BY <1>t, <1>c, <2>2 DEF FirstWordOrders, Said, Sayings
    <3>1. l \in Nat /\ l < n /\ l \in Sayings(log', c, old[i].method)
      BY <1>l
    <3>2. \A k \in Sayings(log', c, old[i].method) : l <= k
      BY <1>l, <3>1
    <3>3. ASSUME NEW j \in DOMAIN new, i < j, NEW k \in Sayings(log', c, new[j].method)
          PROVE  l < k
      <4>1. CASE k = n
        BY <3>1, <4>1
      <4>2. CASE k # n /\ j \in DOMAIN old
        BY <1>l, <1>m, <3>3, <4>2
      <4>3. CASE k # n /\ j \notin DOMAIN old
        <5>1. new_m /\ new[j].method = m
          BY <1>n, <1>m, <3>3, <4>3
        <5>2. Sayings(log, c, m) = {}
          BY <1>t, <1>c, <5>1 DEF KeysWereSaid, Said, Sayings
        <5> QED
          BY <1>l, <3>3, <4>3, <5>1, <5>2
      <4> QED
        BY <4>1, <4>2, <4>3
    <3>4. new[i].method = old[i].method
      BY <1>m, <2>2
    <3> QED
      BY <1>d, <2>2, <3>1, <3>2, <3>3, <3>4
  <2>3. CASE b = c /\ i \notin DOMAIN old
    <3>1. new_m /\ i = Len(old) + 1 /\ new[i].method = m
      BY <1>d, <1>n, <1>m, <2>3
    <3>2. Sayings(log', c, m) = {n}
      <4>1. Sayings(log, c, m) = {}
        BY <1>t, <1>c, <3>1 DEF KeysWereSaid, Said, Sayings
      <4> QED
        BY <1>l, <4>1
    <3>3. \A j \in DOMAIN new : ~(i < j)
      BY <1>o, <1>n, <3>1
    <3>4. doc'[b] = new /\ Sayings(log', b, doc'[b][i].method) = {n} /\ n <= n
      BY <1>d, <1>l, <2>3, <3>1, <3>2
    <3>5. /\ n \in Sayings(log', b, doc'[b][i].method)
          /\ \A k \in Sayings(log', b, doc'[b][i].method) : n <= k
      BY <3>4
    <3>6. \A j \in DOMAIN doc'[b] : ~(i < j)
      BY <3>3, <3>4
    <3> HIDE DEF n, new, old, new_m, c, m
    <3> QED
      BY <3>5, <3>6
  <2> QED
    BY <2>1, <2>2, <2>3
<1>5. Len(log') <= MaxStatements
  BY <1>t, <1>l, DefinitionAssumption DEF Typed
<1> QED
  BY <1>l, <1>d, <1>1, <1>2, <1>3, <1>4, <1>5

-----------------------------------------------------------------------------
(* The end of a load.                                                      *)

LEMMA DescriptionFields ==
  ASSUME Typed, entry \in Classes
  PROVE  ToServiceDescription \in ServiceDescriptions
<1> DEFINE docs == doc[entry]
           own == Places(docs, ClassDoc)
           at == CHOOSE i \in own : TRUE
<1>1. /\ docs \in Seq(Entries)
      /\ \A i \in DOMAIN docs : docs[i] \in Entries
  BY DocSequences
<1>2. own # {} => at \in DOMAIN docs
  BY DEF Places
<1> DEFINE told == IF own = {} THEN docs ELSE RemoveAt(docs, at)
           functions == [i \in DOMAIN told |-> Told(told[i])]
<1>3. functions \in Seq({Told(e) : e \in Entries})
  <2>1. told \in Seq(Entries)
    BY <1>1, <1>2, RemoveAtEffect
  <2> HIDE DEF told
  <2>2. /\ Len(told) \in Nat /\ DOMAIN told = 1 .. Len(told)
        /\ \A i \in DOMAIN told : told[i] \in Entries
    BY <2>1, LenProperties, ElementOfSeq
  <2>3. functions \in [1 .. Len(told) -> {Told(e) : e \in Entries}]
    BY <2>2
  <2> QED
    BY <2>2, <2>3, SeqDef
<1>4. (IF own = {} THEN Nothing ELSE docs[at].documentation)
        \in {e.documentation : e \in Entries} \union {Nothing}
  BY <1>1, <1>2
<1>5. version[entry] \in Versions \union {Nothing}
  BY DEF Typed
<1>6. (IF entry \in Named THEN entry ELSE Nothing) \in Classes \union {Nothing}
  OBVIOUS
<1> HIDE DEF docs, own, at, functions
<1>7. ToServiceDescription =
        [name          |-> IF entry \in Named THEN entry ELSE Nothing,
         version       |-> version[entry],
         documentation |-> IF own = {} THEN Nothing ELSE docs[at].documentation,
         functions     |-> functions]
  BY DEF ToServiceDescription, docs, own, at, functions
<1> QED
  BY <1>3, <1>4, <1>5, <1>6, <1>7 DEF ServiceDescriptions

(* A definition that extractDefinition accepts.                            *)
Acceptable(d) ==
  /\ d \in ServiceDescriptions
  /\ d.name \in Named /\ d.version = "well-formed"
  /\ \A i \in DOMAIN d.functions : \A k \in DOMAIN d.functions[i].arguments :
       d.functions[i].arguments[k].type \in KnownTypes

LEMMA ExtractAccepts ==
  ASSUME Typed, ExtractDefinition # Nothing
  PROVE  /\ ExtractDefinition = ToServiceDescription
         /\ Acceptable(ExtractDefinition)
         /\ entry \in Named
         /\ ExtractDefinition.documentation # Nothing
<1> DEFINE d == ToServiceDescription
<1>1. /\ ExtractDefinition = d /\ entry # Nothing
      /\ d.name # Nothing /\ d.documentation # Nothing /\ d.version = "well-formed"
      /\ \A i \in DOMAIN d.functions : ProcessFunction(d.functions[i])
  BY DEF ExtractDefinition, ExtractString
<1>2. entry \in Classes /\ d \in ServiceDescriptions
  BY <1>1, DescriptionFields DEF Typed
<1>3. d.name = IF entry \in Named THEN entry ELSE Nothing
  BY DEF ToServiceDescription
<1> HIDE DEF d
<1>4. entry \in Named /\ d.name \in Named
  BY <1>1, <1>3
<1>5. \A i \in DOMAIN d.functions : \A k \in DOMAIN d.functions[i].arguments :
        d.functions[i].arguments[k].type \in KnownTypes
  BY <1>1 DEF ProcessFunction, ProcessArgument
<1> QED
  BY <1>1, <1>2, <1>4, <1>5 DEF Acceptable, d

(* The host is given nothing, or one description more.                     *)
LEMMA ReturnKeeps ==
  ASSUME DefinitionInvariant, load # "down", NEW d, LoadReturns(d),
         d # Nothing => /\ Acceptable(d)
                        /\ entry' \in Named /\ d = ToServiceDescription'
                        /\ d.documentation # Nothing
  PROVE  /\ load' \in {"loaded", "failed"}
         /\ descs' \in Seq(ServiceDescriptions \union {Nothing})
         /\ s_desc' \in 0 .. Len(descs')
         /\ DescriptionIsCurrent' /\ BadScriptsAreRefused' /\ DefinitionsStayValid'
<1>1. /\ descs \in Seq(ServiceDescriptions \union {Nothing})
      /\ Len(descs) \in Nat /\ DOMAIN descs = 1 .. Len(descs)
  BY LenProperties DEF DefinitionInvariant, Typed
<1>2. CASE d = Nothing
  <2>1. load' = "failed" /\ s_desc' = 0 /\ descs' = descs
    BY <1>2 DEF LoadReturns, DescOverwritten
  <2> QED
    BY <1>1, <2>1 DEF DefinitionInvariant, DescriptionIsCurrent, BadScriptsAreRefused,
                      DefinitionsStayValid
<1>3. CASE d # Nothing
  <2>1. load' = "loaded" /\ s_desc' = Len(descs) + 1 /\ descs' = Append(descs, d)
    BY <1>3 DEF LoadReturns, DescOverwritten
  <2>2. d \in ServiceDescriptions \union {Nothing}
    BY <1>3 DEF Acceptable
  <2>3. /\ descs' \in Seq(ServiceDescriptions \union {Nothing})
        /\ Len(descs') = Len(descs) + 1
        /\ \A i \in DOMAIN descs : descs'[i] = descs[i]
        /\ descs'[Len(descs) + 1] = d
    BY <1>1, <2>1, <2>2, AppendProperties
  <2>4. DOMAIN descs' = DOMAIN descs \union {Len(descs) + 1}
    <3>1. DOMAIN descs' = 1 .. Len(descs) + 1
      BY <2>3, LenProperties
    <3> QED
      BY <1>1, <3>1
  <2>5. DescriptionIsCurrent'
    <3>1. s_desc' # 0 /\ descs'[s_desc'] = d /\ s_desc' \in DOMAIN descs'
      BY <1>1, <2>1, <2>3, <2>4
    <3>2. desc' = d
      BY <3>1 DEF desc
    <3> QED
      BY <1>3, <3>1, <3>2 DEF DescriptionIsCurrent
  <2>6. BadScriptsAreRefused'
    <3> SUFFICES ASSUME NEW n \in DOMAIN descs', descs'[n] # Nothing
                 PROVE  /\ descs'[n].name \in Named /\ descs'[n].version = "well-formed"
                        /\ \A i \in DOMAIN descs'[n].functions :
                             \A k \in DOMAIN descs'[n].functions[i].arguments :
                               descs'[n].functions[i].arguments[k].type \in KnownTypes
      BY DEF BadScriptsAreRefused
    <3>1. CASE n \in DOMAIN descs
      BY <2>3, <3>1 DEF DefinitionInvariant, BadScriptsAreRefused
    <3>2. CASE descs'[n] = d
      BY <1>3, <3>2 DEF Acceptable
    <3> QED
      BY <2>3, <2>4, <3>1, <3>2
  <2>7. DefinitionsStayValid'
    BY <1>3, <2>1, <2>3, <2>4 DEF DefinitionInvariant, DefinitionsStayValid
  <2> QED
    BY <1>1, <2>1, <2>3, <2>5, <2>6, <2>7
<1> QED
  BY <1>2, <1>3

-----------------------------------------------------------------------------
(* What documentation and log keep as long as no script says anything.     *)
LEMMA WordsKept ==
  ASSUME DefinitionInvariant, UNCHANGED <<doc, log>>
  PROVE  KeysWereSaid' /\ LastWordCounts' /\ FirstWordOrders'
<1>1. KeysWereSaid'
  BY DEF DefinitionInvariant, KeysWereSaid, Said
<1>2. LastWordCounts'
  BY DEF DefinitionInvariant, LastWordCounts, Said
<1>3. FirstWordOrders'
  BY DEF DefinitionInvariant, FirstWordOrders, Said
<1> QED
  BY <1>1, <1>2, <1>3

LEMMA ScriptKeeps ==
  ASSUME DefinitionInvariant, UNCHANGED scriptVars
  PROVE  /\ entry' \in Classes \union {Nothing}
         /\ doc' \in [Classes -> Seq(Entries)]
         /\ version' \in [Classes -> Versions \union {Nothing}]
         /\ log' \in Seq(Spoken) /\ Len(log') <= MaxStatements
         /\ OneEntryPoint' /\ KeysWereSaid' /\ LastWordCounts' /\ FirstWordOrders'
         /\ ToServiceDescription' = ToServiceDescription
<1> USE DEF scriptVars
<1>1. OneEntryPoint' /\ KeysWereSaid' /\ LastWordCounts' /\ FirstWordOrders'
  BY WordsKept DEF DefinitionInvariant, OneEntryPoint
<1>2. ToServiceDescription' = ToServiceDescription
  BY DEF ToServiceDescription
<1> QED
  BY <1>1, <1>2 DEF DefinitionInvariant, Typed

LEMMA BpDocStep ==
  ASSUME DefinitionInvariant, NEW s \in Statements, BpDoc(s)
  PROVE  DefinitionInvariant'
<1>0. /\ load = "evaluating" /\ Len(log) < MaxStatements
      /\ IsEntryPoint(s.class) /\ entry' = s.class
      /\ UNCHANGED <<load, loads, s_desc, descs, version>>
  BY DEF BpDoc, serviceVars
<1>1. s.class \in Classes
  BY DefinitionAssumption
<1>2. /\ doc' \in [Classes -> Seq(Entries)]
      /\ log' \in Seq(Spoken) /\ Len(log') <= MaxStatements
      /\ OneEntryPoint' /\ KeysWereSaid' /\ LastWordCounts' /\ FirstWordOrders'
  <2>1. CASE Parses(s.text)
    <3>1. /\ s \in Spoken
          /\ doc' = [doc EXCEPT ![s.class] = Document(@, Entry(s))]
          /\ log' = Append(log, s)
      BY <2>1 DEF BpDoc, Spoken, Entry
    <3> QED
      BY <1>0, <3>1, SpokenStep
  <2>2. CASE ~Parses(s.text)
    <3>1. UNCHANGED <<doc, log>>
      BY <2>2 DEF BpDoc
    <3>2. OneEntryPoint'
      BY <1>0, <1>1, <3>1, DefinitionAssumption
      DEF DefinitionInvariant, OneEntryPoint, IsEntryPoint
    <3>3. KeysWereSaid' /\ LastWordCounts' /\ FirstWordOrders'
      BY <3>1, WordsKept
    <3> QED
      BY <3>1, <3>2, <3>3 DEF DefinitionInvariant, Typed
  <2> QED
    BY <2>1, <2>2
<1>3. Typed'
  BY <1>0, <1>1, <1>2 DEF DefinitionInvariant, Typed
<1>4. DescriptionIsCurrent' /\ BadScriptsAreRefused' /\ DefinitionsStayValid'
  BY <1>0 DEF DefinitionInvariant, DescriptionIsCurrent, BadScriptsAreRefused, DefinitionsStayValid
<1> QED
  BY <1>2, <1>3, <1>4 DEF DefinitionInvariant

LEMMA BpVersionStep ==
  ASSUME DefinitionInvariant, NEW s \in VersionCalls, BpVersion(s)
  PROVE  DefinitionInvariant'
<1>0. /\ load = "evaluating" /\ version' = [version EXCEPT ![s.class] = s.version]
      /\ UNCHANGED <<load, loads, s_desc, descs, entry, doc, log>>
  BY DEF BpVersion, serviceVars
<1>1. OneEntryPoint' /\ KeysWereSaid' /\ LastWordCounts' /\ FirstWordOrders'
  BY <1>0, WordsKept DEF DefinitionInvariant, OneEntryPoint
<1>2. version' \in [Classes -> Versions \union {Nothing}]
  BY <1>0, VersionAssumption DEF DefinitionInvariant, Typed
<1>3. Typed'
  BY <1>0, <1>2 DEF DefinitionInvariant, Typed
<1>4. DescriptionIsCurrent' /\ BadScriptsAreRefused' /\ DefinitionsStayValid'
  BY <1>0 DEF DefinitionInvariant, DescriptionIsCurrent, BadScriptsAreRefused, DefinitionsStayValid
<1> QED
  BY <1>1, <1>3, <1>4 DEF DefinitionInvariant

LEMMA InitializeStep ==
  ASSUME DefinitionInvariant, Initialize
  PROVE  DefinitionInvariant'
<1>0. /\ load # "down" /\ loads < MaxLoads /\ loads' = loads + 1 /\ UNCHANGED scriptVars
  BY DEF Initialize
<1>1. loads' \in 0 .. MaxLoads
  BY <1>0, DefinitionAssumption DEF DefinitionInvariant, Typed
<1>2. CASE load' \in {"failed", "evaluating"} /\ UNCHANGED serviceVars
  <2>1. UNCHANGED <<s_desc, descs>>
    BY <1>2 DEF serviceVars
  <2>2. Typed'
    BY <1>0, <1>1, <1>2, <2>1, ScriptKeeps DEF DefinitionInvariant, Typed
  <2>3. DescriptionIsCurrent' /\ BadScriptsAreRefused' /\ DefinitionsStayValid'
    BY <1>0, <1>2, <2>1
    DEF DefinitionInvariant, DescriptionIsCurrent, BadScriptsAreRefused, DefinitionsStayValid
  <2> QED
    BY <1>0, <2>2, <2>3, ScriptKeeps DEF DefinitionInvariant
<1>3. CASE LoadReturns(Nothing)
  <2>1. /\ load' \in {"loaded", "failed"}
        /\ descs' \in Seq(ServiceDescriptions \union {Nothing})
        /\ s_desc' \in 0 .. Len(descs')
        /\ DescriptionIsCurrent' /\ BadScriptsAreRefused' /\ DefinitionsStayValid'
    BY <1>0, <1>3, ReturnKeeps
  <2>2. Typed'
    BY <1>0, <1>1, <2>1, ScriptKeeps DEF Typed
  <2> QED
    BY <1>0, <2>1, <2>2, ScriptKeeps DEF DefinitionInvariant
<1> QED
  BY <1>2, <1>3 DEF Initialize, InitializeWithoutScript, InitializeWithScript

LEMMA EndOfLoadStep ==
  ASSUME DefinitionInvariant, FailLoad \/ FinishLoad
  PROVE  DefinitionInvariant'
<1>0. load = "evaluating" /\ UNCHANGED <<loads, scriptVars>>
  BY DEF FailLoad, FinishLoad
<1>1. PICK d \in {Nothing, ExtractDefinition} : LoadReturns(d)
  BY DEF FailLoad, FinishLoad
<1>2. d # Nothing => /\ Acceptable(d)
                     /\ entry' \in Named /\ d = ToServiceDescription'
                     /\ d.documentation # Nothing
  <2>1. Typed /\ ToServiceDescription' = ToServiceDescription /\ entry' = entry
    BY <1>0, ScriptKeeps DEF DefinitionInvariant, scriptVars
  <2> QED
    BY <2>1, ExtractAccepts
<1>3. /\ load' \in {"loaded", "failed"}
      /\ descs' \in Seq(ServiceDescriptions \union {Nothing})
      /\ s_desc' \in 0 .. Len(descs')
      /\ DescriptionIsCurrent' /\ BadScriptsAreRefused' /\ DefinitionsStayValid'
  BY <1>0, <1>1, <1>2, ReturnKeeps
<1>4. Typed'
  BY <1>0, <1>3, ScriptKeeps DEF DefinitionInvariant, Typed
<1> QED
  BY <1>0, <1>3, <1>4, ScriptKeeps DEF DefinitionInvariant

LEMMA ShutdownStep ==
  ASSUME DefinitionInvariant, Shutdown
  PROVE  DefinitionInvariant'
<1>0. /\ load' = "down" /\ s_desc' = 0 /\ descs' = DescDeleted
      /\ UNCHANGED <<loads, scriptVars>>
  BY DEF Shutdown
<1>1. /\ descs \in Seq(ServiceDescriptions \union {Nothing})
      /\ Len(descs) \in Nat /\ DOMAIN descs = 1 .. Len(descs)
      /\ \A n \in DOMAIN descs : descs[n] \in ServiceDescriptions \union {Nothing}
  BY LenProperties, ElementOfSeq DEF DefinitionInvariant, Typed
<1>2. descs' \in Seq(ServiceDescriptions \union {Nothing})
  <2>1. descs' \in [1 .. Len(descs) -> ServiceDescriptions \union {Nothing}]
    BY <1>0, <1>1 DEF DescDeleted
  <2> QED
    BY <1>1, <2>1, SeqDef
<1>3. Len(descs') \in Nat
  BY <1>2, LenProperties
<1>4. BadScriptsAreRefused'
  BY <1>0 DEF DefinitionInvariant, BadScriptsAreRefused, DescDeleted
<1>5. DescriptionIsCurrent' /\ DefinitionsStayValid'
  BY <1>0 DEF DescriptionIsCurrent, DefinitionsStayValid
<1>6. Typed'
  BY <1>0, <1>2, <1>3, ScriptKeeps DEF DefinitionInvariant, Typed
<1> QED
  BY <1>0, <1>4, <1>5, <1>6, ScriptKeeps DEF DefinitionInvariant

-----------------------------------------------------------------------------
LEMMA InitHolds == DefinitionInit => DefinitionInvariant
<1> SUFFICES ASSUME DefinitionInit PROVE DefinitionInvariant
  OBVIOUS
<1> USE DEF DefinitionInit
<1>1. Typed
  BY DefinitionAssumption, EmptySeq DEF Typed
<1>2. OneEntryPoint /\ LastWordCounts /\ FirstWordOrders
  BY DEF OneEntryPoint, LastWordCounts, FirstWordOrders
<1>3. KeysWereSaid
  BY DEF KeysWereSaid, Places, Said
<1>4. DescriptionIsCurrent /\ BadScriptsAreRefused /\ DefinitionsStayValid
  BY DEF DescriptionIsCurrent, BadScriptsAreRefused, DefinitionsStayValid
<1> QED
  BY <1>1, <1>2, <1>3, <1>4 DEF DefinitionInvariant

LEMMA StepHolds ==
  DefinitionInvariant /\ [DefinitionNext]_definitionVars => DefinitionInvariant'
<1> SUFFICES ASSUME DefinitionInvariant, [DefinitionNext]_definitionVars
             PROVE  DefinitionInvariant'
  OBVIOUS
<1>1. CASE DefinitionNext
  BY <1>1, InitializeStep, EndOfLoadStep, ShutdownStep, BpDocStep, BpVersionStep
  DEF DefinitionNext
<1>2. CASE UNCHANGED definitionVars
  <2>1. UNCHANGED <<load, loads, s_desc, descs, scriptVars>>
    BY <1>2 DEF definitionVars, serviceVars
  <2>2. Typed'
    BY <2>1, ScriptKeeps DEF DefinitionInvariant, Typed
  <2>3. DescriptionIsCurrent' /\ BadScriptsAreRefused' /\ DefinitionsStayValid'
    BY <2>1, ScriptKeeps
    DEF DefinitionInvariant, DescriptionIsCurrent, BadScriptsAreRefused, DefinitionsStayValid,
        desc, scriptVars
  <2> QED
    BY <2>1, <2>2, <2>3, ScriptKeeps DEF DefinitionInvariant
<1> QED
  BY <1>1, <1>2

(* Documentation, log and descriptions agree, however scripts are loaded.  *)
THEOREM DefinitionHolds == DefinitionSpec => []DefinitionInvariant
<1> QED
  BY InitHolds, StepHolds, PTL DEF DefinitionSpec

(* The variables have their types.                                         *)
THEOREM DefinitionTypeCorrect == DefinitionSpec => []DefinitionTypeOK
<1>1. DefinitionInvariant => DefinitionTypeOK
  <2> SUFFICES ASSUME DefinitionInvariant PROVE DefinitionTypeOK
    OBVIOUS
  <2>1. \A s \in Spoken : \A k \in DOMAIN Entry(s).arguments :
          Entry(s).arguments[k].required \in BOOLEAN
    <3> TAKE s \in Spoken
    <3>1. Entry(s).arguments = ParseArguments(s.text)
      BY EntryFields
    <3>2. \A k \in DOMAIN ParseArguments(s.text) :
            ParseArguments(s.text)[k].required \in BOOLEAN
      BY DEF ParseArguments
    <3> QED
      BY <3>1, <3>2
  <2>2. \A c \in Classes : \A i \in DOMAIN doc[c] :
          /\ doc[c][i].method \in Methods \union {ClassDoc}
          /\ \A k \in DOMAIN doc[c][i].arguments : doc[c][i].arguments[k].required \in BOOLEAN
    BY <2>1, DocSequences DEF DefinitionInvariant, Entries
  <2> QED
    BY <2>2 DEF DefinitionTypeOK, DefinitionInvariant, Typed
<1> QED
  BY <1>1, DefinitionHolds, PTL

(* However many scripts were loaded and whatever they rescued, one class   *)
(* is documented: "you may only have a single entry point class"           *)
(* (ruby/browserplus.rb:28).                                               *)
THEOREM OneClassIsDocumented == DefinitionSpec => []OneEntryPoint
<1>1. DefinitionInvariant => OneEntryPoint
  BY DEF DefinitionInvariant
<1> QED
  BY <1>1, DefinitionHolds, PTL

(* No definition without a name, a proper version or known types of        *)
(* arguments is returned to the host.                                      *)
THEOREM HostIsSpared == DefinitionSpec => []BadScriptsAreRefused
<1>1. DefinitionInvariant => BadScriptsAreRefused
  BY DEF DefinitionInvariant
<1> QED
  BY <1>1, DefinitionHolds, PTL

(* A definition that was returned can be read until BPPShutdown, however   *)
(* many scripts are loaded in between.                                     *)
THEOREM DefinitionsLive == DefinitionSpec => []DefinitionsStayValid
<1>1. DefinitionInvariant => DefinitionsStayValid
  BY DEF DefinitionInvariant
<1> QED
  BY <1>1, DefinitionHolds, PTL

-----------------------------------------------------------------------------
(* What the host is told is what the script said.                          *)

LEMMA MaxIs ==
  ASSUME NEW S, NEW n \in S, S \subseteq Int, \A k \in S : k <= n
  PROVE  Max(S) = n
<1>1. Max(S) \in S /\ \A k \in S : Max(S) >= k
  <2>1. \A k \in S : n >= k
    OBVIOUS
  <2> QED
    BY <2>1 DEF Max
<1>2. Max(S) \in Int /\ n \in Int /\ Max(S) >= n /\ Max(S) <= n
  BY <1>1
<1> QED
  BY <1>2

LEMMA MinIs ==
  ASSUME NEW S, NEW n \in S, S \subseteq Int, \A k \in S : n <= k
  PROVE  Min(S) = n
<1>1. Min(S) \in S /\ \A k \in S : Min(S) <= k
  BY DEF Min
<1>2. Min(S) \in Int /\ n \in Int /\ Min(S) >= n /\ Min(S) <= n
  BY <1>1
<1> QED
  BY <1>2

(* A description is made of the entries of the class that were said last.  *)
LEMMA DescriptionIsSaid ==
  ASSUME DefinitionInvariant, load = "loaded"
  PROVE  LET c == desc.name
             docs == doc[c]
             F == desc.functions
         IN  /\ c \in Classes
             /\ \E at \in DOMAIN docs :
                  /\ docs[at].method = ClassDoc
                  /\ desc.documentation = docs[at].documentation
                  /\ \A i \in DOMAIN docs : i # at => docs[i].method \in Methods
                  /\ DOMAIN F = 1 .. Len(docs) - 1
                  /\ \A i \in DOMAIN F : F[i] = Told(docs[IF i < at THEN i ELSE i + 1])
<1> DEFINE docs == doc[entry]
           own == Places(docs, ClassDoc)
           at == CHOOSE i \in own : TRUE
           told == IF own = {} THEN docs ELSE RemoveAt(docs, at)
<1>1. /\ Typed /\ FirstWordOrders /\ entry \in Named /\ desc = ToServiceDescription
      /\ desc.documentation # Nothing
  BY DEF DefinitionInvariant, DescriptionIsCurrent
<1>2. entry \in Classes
  BY <1>1, DefinitionAssumption
<1>3. /\ docs \in Seq(Entries)
      /\ Len(docs) \in Nat /\ DOMAIN docs = 1 .. Len(docs)
      /\ \A i \in DOMAIN docs :
           docs[i] \in Entries /\ docs[i].method \in Methods \union {ClassDoc}
  BY <1>1, <1>2, DocSequences
<1>4. /\ desc.name = IF entry \in Named THEN entry ELSE Nothing
      /\ desc.documentation = IF own = {} THEN Nothing ELSE docs[at].documentation
      /\ desc.functions = [i \in DOMAIN told |-> Told(told[i])]
  BY <1>1 DEF ToServiceDescription
<1>5. own # {} /\ at \in own
  BY <1>1, <1>4
<1>6. at \in DOMAIN docs /\ docs[at].method = ClassDoc
  BY <1>5 DEF Places
(* Nothing is first said of a method before it is first said of it.        *)
<1>7. \A i, j \in DOMAIN docs : i < j => docs[i].method # docs[j].method
  <2> SUFFICES ASSUME NEW i \in DOMAIN docs, NEW j \in DOMAIN docs,
                      i < j, docs[i].method = docs[j].method
               PROVE  FALSE
    OBVIOUS
  <2>1. \E n \in Said(entry, docs[i].method) : \A k \in Said(entry, docs[j].method) : n < k
    BY <1>1, <1>2 DEF FirstWordOrders
  <2> PICK n \in Said(entry, docs[i].method) : n < n
    BY <2>1
  <2>2. n \in Int
    BY <1>1, LenProperties DEF Said, Typed
  <2> QED
    BY <2>2
<1>8. \A i \in DOMAIN docs : i # at => docs[i].method \in Methods
  <2> SUFFICES ASSUME NEW i \in DOMAIN docs, i # at PROVE docs[i].method # ClassDoc
    BY <1>3
  <2>1. i < at \/ at < i
    BY <1>3, <1>6
  <2> HIDE DEF docs, at
  <2> QED
    BY <1>6, <1>7, <2>1
<1>9. /\ DOMAIN RemoveAt(docs, at) = 1 .. Len(docs) - 1
      /\ \A i \in 1 .. Len(docs) - 1 : RemoveAt(docs, at)[i] = docs[IF i < at THEN i ELSE i + 1]
  <2>1. /\ RemoveAt(docs, at) \in Seq(Entries)
        /\ Len(RemoveAt(docs, at)) = Len(docs) - 1
        /\ \A i \in 1 .. Len(docs) - 1 :
             RemoveAt(docs, at)[i] = docs[IF i < at THEN i ELSE i + 1]
    BY <1>3, <1>6, RemoveAtEffect
  <2> QED
    BY <2>1, LenProperties
<1> HIDE DEF at, own
<1>10. /\ desc.name = entry /\ desc.documentation = docs[at].documentation
       /\ desc.functions = [i \in DOMAIN RemoveAt(docs, at) |-> Told(RemoveAt(docs, at)[i])]
  BY <1>1, <1>4, <1>5
<1> QED
  BY <1>2, <1>6, <1>8, <1>9, <1>10

(* The first and the last word on an entry.                                *)
LEMMA FirstAndLast ==
  ASSUME DefinitionInvariant, NEW c \in Classes, NEW i \in DOMAIN doc[c]
  PROVE  LET S == Said(c, doc[c][i].method)
         IN  /\ S # {} /\ Min(S) \in S /\ Max(S) \in S /\ S \subseteq Int
             /\ log[Max(S)] \in Spoken
             /\ doc[c][i] = Entry(log[Max(S)])
             /\ \A j \in DOMAIN doc[c] : i < j =>
                  \A k \in Said(c, doc[c][j].method) : Min(S) < k
<1> DEFINE S == Said(c, doc[c][i].method)
<1>1. S \subseteq Int /\ \A n \in S : log[n] \in Spoken
  <2>1. log \in Seq(Spoken)
    BY DEF DefinitionInvariant, Typed
  <2>2. Len(log) \in Nat /\ DOMAIN log = 1 .. Len(log) /\ \A n \in 1 .. Len(log) : log[n] \in Spoken
    BY <2>1, LenProperties, ElementOfSeq
  <2> QED
    BY <2>2 DEF Said
<1>2. \E n \in S : (\A k \in S : k <= n) /\ doc[c][i] = Entry(log[n])
  BY DEF DefinitionInvariant, LastWordCounts
<1>3. \E n \in S :
        /\ \A k \in S : n <= k
        /\ \A j \in DOMAIN doc[c] : i < j => \A k \in Said(c, doc[c][j].method) : n < k
  BY DEF DefinitionInvariant, FirstWordOrders
<1> HIDE DEF S
<1>4. Max(S) \in S /\ doc[c][i] = Entry(log[Max(S)])
  <2> PICK n \in S : (\A k \in S : k <= n) /\ doc[c][i] = Entry(log[n])
    BY <1>2
  <2>1. Max(S) = n
    BY <1>1, MaxIs
  <2> QED
    BY <2>1
<1>5. /\ Min(S) \in S
      /\ \A j \in DOMAIN doc[c] : i < j =>
           \A k \in Said(c, doc[c][j].method) : Min(S) < k
  <2> PICK n \in S :
        /\ \A k \in S : n <= k
        /\ \A j \in DOMAIN doc[c] : i < j => \A k \in Said(c, doc[c][j].method) : n < k
    BY <1>3
  <2>1. Min(S) = n
    BY <1>1, MinIs
  <2> QED
    BY <2>1
<1> QED
  BY <1>1, <1>4, <1>5 DEF S

(* The keys of the functions, and the texts these come from.               *)
LEMMA FunctionsAreOfKeys ==
  ASSUME DefinitionInvariant, load = "loaded"
  PROVE  /\ \E key \in KeyLists : \A i \in DOMAIN key :
              \E s \in Spoken : /\ desc.functions[i] = Told(Entry(s))
                               /\ s.method = key[i]
                               /\ LastSaid(key[i]) = s.text
         /\ desc.documentation = LastSaid(ClassDoc).intro
<1> DEFINE c == desc.name
           docs == doc[c]
           F == desc.functions
           g(i, at) == IF i < at THEN i ELSE i + 1
<1>1. /\ c \in Classes
      /\ \E at \in DOMAIN docs :
           /\ docs[at].method = ClassDoc
           /\ desc.documentation = docs[at].documentation
           /\ \A i \in DOMAIN docs : i # at => docs[i].method \in Methods
           /\ DOMAIN F = 1 .. Len(docs) - 1
           /\ \A i \in DOMAIN F : F[i] = Told(docs[g(i, at)])
  BY DescriptionIsSaid
<1> HIDE DEF c, F
<1> PICK at \in DOMAIN docs :
      /\ docs[at].method = ClassDoc
      /\ desc.documentation = docs[at].documentation
      /\ \A i \in DOMAIN docs : i # at => docs[i].method \in Methods
      /\ DOMAIN F = 1 .. Len(docs) - 1
      /\ \A i \in DOMAIN F : F[i] = Told(docs[g(i, at)])
  BY <1>1
<1>2. /\ Len(docs) \in Nat /\ DOMAIN docs = 1 .. Len(docs)
      /\ \A i \in DOMAIN docs : docs[i].method \in Methods \union {ClassDoc}
  BY <1>1, DocSequences DEF DefinitionInvariant
<1>3. \A i \in DOMAIN F : g(i, at) \in DOMAIN docs /\ g(i, at) # at
  BY <1>2
<1>4. \A i, j \in DOMAIN F : i < j => g(i, at) < g(j, at)
  BY <1>2
<1>5. \A i \in DOMAIN docs :
        /\ Said(c, docs[i].method) # {}
        /\ \E s \in Spoken : docs[i] = Entry(s) /\ LastSaid(docs[i].method) = s.text
        /\ \A j \in DOMAIN docs : i < j => FirstSaid(docs[i].method) < FirstSaid(docs[j].method)
  <2> TAKE i \in DOMAIN docs
  <2> DEFINE S == Said(c, docs[i].method)
  <2>1. /\ S # {} /\ log[Max(S)] \in Spoken /\ docs[i] = Entry(log[Max(S)])
        /\ \A j \in DOMAIN docs : i < j => \A k \in Said(c, docs[j].method) : Min(S) < k
    BY <1>1, FirstAndLast
  <2>2. \A j \in DOMAIN docs : Min(Said(c, docs[j].method)) \in Said(c, docs[j].method)
    BY <1>1, FirstAndLast
  <2>3. LastSaid(docs[i].method) = log[Max(S)].text /\ FirstSaid(docs[i].method) = Min(S)
    BY DEF LastSaid, FirstSaid, c
  <2>4. \A j \in DOMAIN docs : FirstSaid(docs[j].method) = Min(Said(c, docs[j].method))
    BY DEF FirstSaid, c
  <2> QED
    BY <2>1, <2>2, <2>3, <2>4
<1> DEFINE key == [i \in DOMAIN F |-> docs[g(i, at)].method]
<1>6. key \in [DOMAIN F -> Methods]
  BY <1>3
<1>7. \A i, j \in DOMAIN key : i < j => FirstSaid(key[i]) < FirstSaid(key[j])
  BY <1>3, <1>4, <1>5
<1>8. {key[i] : i \in DOMAIN key} = KeysSaid
  <2>1. ASSUME NEW i \in DOMAIN F
        PROVE  key[i] \in Methods /\ Said(c, key[i]) # {}
    BY <1>3, <1>5
  <2>2. ASSUME NEW m \in Methods, Said(c, m) # {}
        PROVE  \E i \in DOMAIN F : key[i] = m
    <3>1. \E k \in DOMAIN docs : docs[k].method = m
      BY <1>1, <2>2 DEF DefinitionInvariant, KeysWereSaid, Places
    <3> PICK k \in DOMAIN docs : docs[k].method = m
      BY <3>1
    <3>2. k # at
      BY <2>2, DefinitionAssumption
    <3> DEFINE i == IF k < at THEN k ELSE k - 1
    <3>3. i \in DOMAIN F /\ g(i, at) = k
      BY <1>2, <3>2
    <3> QED
      BY <3>3
  <2>3. KeysSaid = {m \in Methods : Said(c, m) # {}} /\ DOMAIN key = DOMAIN F
    BY DEF KeysSaid, c
  <2> HIDE DEF key
  <2> QED
    BY <2>1, <2>2, <2>3
<1>9. key \in KeyLists
  BY <1>6, <1>7, <1>8 DEF KeyLists, F
<1>10. ASSUME NEW i \in DOMAIN key
       PROVE  \E s \in Spoken : F[i] = Told(Entry(s)) /\ s.method = key[i] /\ LastSaid(key[i]) = s.text
  <2>1. g(i, at) \in DOMAIN docs /\ F[i] = Told(docs[g(i, at)]) /\ key[i] = docs[g(i, at)].method
    BY <1>3
  <2>2. PICK s \in Spoken : /\ docs[g(i, at)] = Entry(s)
                            /\ LastSaid(docs[g(i, at)].method) = s.text
    BY <1>5, <2>1
  <2> QED
    BY <2>1, <2>2, EntryFields
<1>11. desc.documentation = LastSaid(ClassDoc).intro
  <2>1. PICK s \in Spoken : docs[at] = Entry(s) /\ LastSaid(docs[at].method) = s.text
    BY <1>5
  <2> QED
    BY <2>1, EntryFields
<1> HIDE DEF key
<1> QED
  BY <1>9, <1>10, <1>11 DEF F

LEMMA ToldFields ==
  ASSUME NEW s \in Spoken
  PROVE  /\ Told(Entry(s)).name = ToS(s.method)
         /\ Told(Entry(s)).documentation = s.text.intro
         /\ Told(Entry(s)).arguments = ParseArguments(s.text)
BY EntryFields DEF Told

LEMMA DescriptionMatches ==
  ASSUME DefinitionInvariant
  PROVE  DescriptionMatchesDocs
<1> SUFFICES ASSUME load = "loaded"
             PROVE  /\ \E key \in KeyLists : \A i \in DOMAIN key :
                         /\ desc.functions[i].name = ToS(key[i])
                         /\ desc.functions[i].documentation = LastSaid(key[i]).intro
                    /\ desc.documentation = LastSaid(ClassDoc).intro
  BY DEF DescriptionMatchesDocs
<1>1. PICK key \in KeyLists : \A i \in DOMAIN key :
        \E s \in Spoken : /\ desc.functions[i] = Told(Entry(s))
                         /\ s.method = key[i]
                         /\ LastSaid(key[i]) = s.text
  BY FunctionsAreOfKeys
<1>2. \A i \in DOMAIN key : /\ desc.functions[i].name = ToS(key[i])
                            /\ desc.functions[i].documentation = LastSaid(key[i]).intro
  BY <1>1, ToldFields
<1> QED
  BY <1>2, FunctionsAreOfKeys

(* The host is told of one function for each key that the script documented *)
(* (a symbol or a string), with its name and what was said of it last, in  *)
(* the order in which they were first documented, for any script           *)
(* (browserplus.rb, service.cpp:160).                                      *)
THEOREM HostIsToldWhatWasSaid == DefinitionSpec => []DescriptionMatchesDocs
<1>1. DefinitionInvariant => DescriptionMatchesDocs
  BY DescriptionMatches
<1> QED
  BY <1>1, DefinitionHolds, PTL

-----------------------------------------------------------------------------
(* The arguments of a text, each of which something is said about.         *)

LEMMA AllAreListed ==
  ASSUME NEW text, Len(text.args) \in Nat, DOMAIN text.args = 1 .. Len(text.args),
         \A i \in DOMAIN text.args : ~text.args[i].blank
  PROVE  Listed(text) = DOMAIN text.args
<1> DEFINE args == text.args
           body(f, i) == /\ i = 1 \/ ~(f[i - 1] /\ args[i - 1].blank)
                         /\ i = Len(args) /\ args[i].blank => text.trailing
           fixed(f) == f = [i \in DOMAIN args |-> body(f, i)]
           listed == CHOOSE f : fixed(f)
<1>1. fixed(listed)
  <2> DEFINE all == [i \in DOMAIN args |-> TRUE]
  <2>0. ASSUME NEW i \in DOMAIN args
        PROVE  body(all, i) = TRUE
    <3>1. ~args[i].blank /\ (i = 1 \/ ~args[i - 1].blank)
      OBVIOUS
    <3>2. body(all, i)
      BY <3>1
    <3> QED
      BY <3>2
  <2> HIDE DEF body, args
  <2>1. fixed(all)
    BY <2>0
  <2> QED
    BY <2>1
<1>2. \A i \in DOMAIN args : listed[i]
  <2> TAKE i \in DOMAIN args
  <2> HIDE DEF listed
  <2>0. ~args[i].blank /\ (i = 1 \/ ~args[i - 1].blank)
    OBVIOUS
  <2>1. body(listed, i)
    BY <2>0
  <2> HIDE DEF body, args
  <2> QED
    BY <1>1, <2>1
<1>3. Listed(text) = {i \in DOMAIN args : listed[i]}
  BY DEF Listed
<1> QED
  BY <1>2, <1>3

LEMMA NthOfInterval ==
  ASSUME NEW n \in Nat, NEW k \in 1 .. n
  PROVE  Nth(1 .. n, k) = k
<1>1. \A i \in 1 .. n : Cardinality({j \in 1 .. n : j <= i}) = i
  <2> TAKE i \in 1 .. n
  <2>1. {j \in 1 .. n : j <= i} = 1 .. i
    OBVIOUS
  <2>2. Cardinality(1 .. i) = i
    BY FS_Interval
  <2> QED
    BY <2>1, <2>2
<1> QED
  BY <1>1 DEF Nth

LEMMA ArgumentsAreTheText ==
  ASSUME NEW text, Len(text.args) \in Nat, DOMAIN text.args = 1 .. Len(text.args),
         \A i \in DOMAIN text.args : ~text.args[i].blank
  PROVE  LET a == ParseArguments(text)
             t == text.args
         IN  /\ Len(a) = Len(t)
             /\ \A k \in DOMAIN t :
                  /\ a[k].name = t[k].name /\ a[k].type = t[k].type
                  /\ a[k].required = (t[k].bracket = "<")
<1> DEFINE t == text.args
           n == Len(t)
           argument(x) == [name |-> x.name, type |-> x.type, required |-> x.bracket = "<"]
           a == ParseArguments(text)
<1>1. Listed(text) = 1 .. n /\ Cardinality(1 .. n) = n
  <2>1. Listed(text) = 1 .. n
    BY AllAreListed
  <2> HIDE DEF n
  <2>2. n \in Nat
    BY DEF n
  <2>3. Cardinality(1 .. n) = IF 1 > n THEN 0 ELSE n - 1 + 1
    BY <2>2, FS_Interval
  <2> QED
    BY <2>1, <2>2, <2>3
<1>2. a = [k \in 1 .. n |-> argument(t[Nth(1 .. n, k)])]
  BY <1>1 DEF ParseArguments
<1>3. \A k \in 1 .. n : a[k] = argument(t[k])
  BY <1>2, NthOfInterval
<1>4. Len(a) = n
  <2> HIDE DEF argument, a
  <2>1. a \in [1 .. n -> {argument(t[k]) : k \in 1 .. n}]
    BY <1>2, <1>3
  <2>2. a \in Seq({argument(t[k]) : k \in 1 .. n})
    BY <2>1, SeqDef
  <2> HIDE DEF n
  <2>3. Len(a) \in Nat /\ 1 .. Len(a) = 1 .. n /\ n \in Nat
    BY <2>1, <2>2, LenProperties DEF n
  <2> QED
    BY <2>3
<1> HIDE DEF a
<1>5. \A k \in 1 .. n : /\ a[k].name = t[k].name /\ a[k].type = t[k].type
                        /\ a[k].required = (t[k].bracket = "<")
  <2> TAKE k \in 1 .. n
  <2> DEFINE x == t[k]
  <2>1. a[k] = argument(x)
    BY <1>3
  <2> HIDE DEF x
  <2>2. argument(x).name = x.name /\ argument(x).type = x.type
    OBVIOUS
  <2>3. argument(x).required = (x.bracket = "<")
    OBVIOUS
  <2> HIDE DEF argument
  <2>4. a[k].name = x.name /\ a[k].type = x.type /\ a[k].required = (x.bracket = "<")
    BY <2>1, <2>2, <2>3
  <2> QED
    BY <2>4 DEF x
<1> QED
  BY <1>4, <1>5 DEF a

LEMMA ArgumentsMatch ==
  ASSUME DefinitionInvariant
  PROVE  ArgumentsAreListed
<1> DEFINE Matches(a, t) == (\A k \in DOMAIN t : ~t[k].blank) =>
                              /\ Len(a) = Len(t)
                              /\ \A k \in DOMAIN t :
                                   /\ a[k].name = t[k].name /\ a[k].type = t[k].type
                                   /\ a[k].required = (t[k].bracket = "<")
<1> SUFFICES ASSUME load = "loaded"
             PROVE  \E key \in KeyLists : \A i \in DOMAIN key :
                      Matches(desc.functions[i].arguments, LastSaid(key[i]).args)
  BY DEF ArgumentsAreListed
<1>1. PICK key \in KeyLists : \A i \in DOMAIN key :
        \E s \in Spoken : /\ desc.functions[i] = Told(Entry(s))
                         /\ s.method = key[i]
                         /\ LastSaid(key[i]) = s.text
  BY FunctionsAreOfKeys
<1>2. ASSUME NEW s \in Spoken
      PROVE  Matches(ParseArguments(s.text), s.text.args)
  <2>1. Len(s.text.args) \in Nat /\ DOMAIN s.text.args = 1 .. Len(s.text.args)
    BY DefinitionAssumption DEF Spoken, Parses
  <2> DEFINE text == s.text
  <2> HIDE DEF text
  <2> QED
    BY <2>1, ArgumentsAreTheText DEF text
<1> HIDE DEF Matches
<1>3. \A i \in DOMAIN key : Matches(desc.functions[i].arguments, LastSaid(key[i]).args)
  BY <1>1, <1>2, ToldFields
<1> QED
  BY <1>3

(* When something is said about every argument of a text, the description  *)
(* lists them all, in order, and asks for those in angle brackets, for any *)
(* text (parse_bp_doc of browserplus.rb).                                  *)
THEOREM HostIsToldTheArguments == DefinitionSpec => []ArgumentsAreListed
<1>1. DefinitionInvariant => ArgumentsAreListed
  BY ArgumentsMatch
<1> QED
  BY <1>1, DefinitionHolds, PTL
=============================================================================
