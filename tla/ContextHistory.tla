--------------------------- MODULE ContextHistory ---------------------------
(***************************************************************************)
(* What the Context store promises its callers, whatever crashes: one      *)
(* growing history of Facts, of which everything a receipt has confirmed   *)
(* is in every document that is handed out later, and one writer at a time *)
(* to extend it.  ContextStore implements it.                              *)
(***************************************************************************)
EXTENDS SequencesExt

CONSTANT Procs            \* the processes that may open the Context

VARIABLES
  confirmed,   \* the Facts of the last confirmed generation, <<>> if none
  writers,     \* the processes that have a writer: at most one
  held         \* held[w]: the Facts of the document writer w extends

vars == <<confirmed, writers, held>>

Init ==
  /\ confirmed = <<>>
  /\ writers = {}
  /\ held = [w \in Procs |-> <<>>]

\* A writer is handed a document that has every confirmed Fact, and perhaps
\* Facts of a publication whose outcome nobody was told.
Open(w) ==
  /\ writers = {} /\ writers' = {w}
  /\ IsPrefix(confirmed, held'[w])
  /\ held' = [held EXCEPT ![w] = held'[w]]
  /\ UNCHANGED confirmed

\* A receipt: the document of the writer and one publication more.
Confirm(w) ==
  /\ w \in writers /\ UNCHANGED writers
  /\ IsPrefix(held[w], held'[w]) /\ Len(held'[w]) = Len(held[w]) + 1
  /\ held' = [held EXCEPT ![w] = held'[w]]
  /\ confirmed' = held'[w]

\* The writer closes or its process ends, alone or with the machine.
Leave ==
  /\ writers # {} /\ writers' = {}
  /\ held' = [w \in Procs |-> <<>>]
  /\ UNCHANGED confirmed

Delete == confirmed' = <<>> /\ writers = {} /\ UNCHANGED <<writers, held>>

Next == (\E w \in Procs : Open(w) \/ Confirm(w)) \/ Leave \/ Delete

Spec == Init /\ [][Next]_vars
=============================================================================
