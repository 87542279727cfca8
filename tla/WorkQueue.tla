------------------------------ MODULE WorkQueue ------------------------------
(***************************************************************************)
(* What the interpreter promises the host, without threads and locks:      *)
(* calls send their work into one queue; the work is served one item at a  *)
(* time, in the order sent, each item once; a synchronous call returns     *)
(* only when its own work has been served, an asynchronous one as soon as  *)
(* its work has been sent.                                                 *)
(***************************************************************************)
EXTENDS Naturals, Sequences

CONSTANTS
  Clients,      \* who calls
  SyncWorks,    \* the work of synchronous calls
  AsyncWorks,   \* the work of asynchronous calls
  NoWork        \* a client that is in no call

VARIABLES
  call,         \* the work of the call each client is in, or NoWork
  sent,         \* the work sent, in order
  served        \* the work served, in order

vars == <<call, sent, served>>

Elements(s) == {s[i] : i \in DOMAIN s}

Init ==
  /\ call = [c \in Clients |-> NoWork]
  /\ sent = <<>>
  /\ served = <<>>

Call(c, w) ==
  /\ call[c] = NoWork
  /\ w \notin Elements(sent)
  /\ \A d \in Clients : call[d] # w
  /\ call' = [call EXCEPT ![c] = w]
  /\ UNCHANGED <<sent, served>>

Send(c) ==
  /\ call[c] # NoWork
  /\ call[c] \notin Elements(sent)
  /\ sent' = Append(sent, call[c])
  /\ UNCHANGED <<call, served>>

Serve ==
  /\ Len(served) < Len(sent)
  /\ served' = Append(served, sent[Len(served) + 1])
  /\ UNCHANGED <<call, sent>>

Return(c) ==
  /\ call[c] \in Elements(IF call[c] \in SyncWorks THEN served ELSE sent)
  /\ call' = [call EXCEPT ![c] = NoWork]
  /\ UNCHANGED <<sent, served>>

Next ==
  \/ \E c \in Clients, w \in SyncWorks \union AsyncWorks : Call(c, w)
  \/ \E c \in Clients : Send(c) \/ Return(c)
  \/ Serve

Spec == Init /\ [][Next]_vars
=============================================================================
