----------------------------- MODULE ServedIndex -----------------------------
(***************************************************************************)
(* What the index tables promise to whoever searches: per document, at     *)
(* most one version is served; a withdrawn document serves none, and when  *)
(* it is restored it serves again only what is published afterwards; a     *)
(* version is decided once.  There are no transactions, locks or jobs here *)
(* -- IndexJobs is shown to implement this.                                *)
(***************************************************************************)
EXTENDS Naturals

CONSTANTS Docs, Versions   \* versions are positive; 0 is no version

VARIABLES
  served,   \* [Docs -> {0} \cup Versions]: what a search finds
  gone,     \* [Docs -> BOOLEAN]: withdrawn at its source
  blank,    \* versions without text: published, they serve nothing
  spent     \* the versions that have been published or given up

Init ==
  /\ served = [d \in Docs |-> 0]
  /\ gone = [d \in Docs |-> FALSE]
  /\ blank = {} /\ spent = {}

\* Versions come in; what one has to serve is settled before it is decided.
Take ==
  /\ blank \subseteq blank'
  /\ (blank' \ blank) \cap spent = {}

Store == Take /\ UNCHANGED <<served, gone, spent>>

Publish(d, v) ==
  /\ ~gone[d]
  /\ v \notin spent
  /\ served' = [served EXCEPT ![d] = IF v \in blank THEN 0 ELSE v]
  /\ spent' = spent \cup {v}
  /\ UNCHANGED <<gone, blank>>

\* A version that fails, or completes when its document is withdrawn.
GiveUp(v) ==
  /\ v \notin spent
  /\ spent' = spent \cup {v}
  /\ UNCHANGED <<served, gone, blank>>

\* The versions that were waiting to be published go with the document.
Withdraw(d) ==
  /\ gone' = [gone EXCEPT ![d] = TRUE]
  /\ served' = [served EXCEPT ![d] = 0]
  /\ spent \subseteq spent'
  /\ spent' \subseteq Versions
  /\ UNCHANGED blank

Restore(d) ==
  /\ gone[d]
  /\ gone' = [gone EXCEPT ![d] = FALSE]
  /\ Take
  /\ UNCHANGED <<served, spent>>

Next ==
  \/ \E d \in Docs : Withdraw(d) \/ Restore(d) \/ \E v \in Versions : Publish(d, v)
  \/ \E v \in Versions : GiveUp(v)
  \/ Store

Spec == Init /\ [][Next]_<<served, gone, blank, spent>>
=============================================================================
