------------------------------ MODULE Replica ------------------------------
(***************************************************************************)
(* What the synchronisation promises, without programs or messages: a      *)
(* master whose files get new versions, and a copy of each file.  A copy   *)
(* is emptied, then filled with one version, never an older one than it    *)
(* held before and never one the master did not have.  A whole copy is     *)
(* left alone until it is emptied.                                         *)
(***************************************************************************)
EXTENDS Naturals

CONSTANT Files

VARIABLES
    master,         \* the version of each file of the master
    copy            \* the version each copy holds or held last, and its state

vars == <<master, copy>>

States == {"empty", "partial", "whole"}

Init ==
    /\ master \in [Files -> Nat]
    /\ copy = [f \in Files |-> [ver |-> 0, state |-> "empty"]]

Publish(f) ==
    /\ master' = [master EXCEPT ![f] = @ + 1]
    /\ UNCHANGED copy

Empty(f) ==
    /\ copy' = [copy EXCEPT ![f].state = "empty"]
    /\ UNCHANGED master

\* The first piece of version v arrives, perhaps the only one.
Begin(f) ==
    /\ copy[f].state = "empty"
    /\ \E v \in copy[f].ver..master[f], s \in {"partial", "whole"} :
          copy' = [copy EXCEPT ![f] = [ver |-> v, state |-> s]]
    /\ UNCHANGED master

\* The last piece of that version arrives.
Complete(f) ==
    /\ copy[f].state = "partial"
    /\ copy' = [copy EXCEPT ![f].state = "whole"]
    /\ UNCHANGED master

Next == \E f \in Files : Publish(f) \/ Empty(f) \/ Begin(f) \/ Complete(f)

Spec == Init /\ [][Next]_vars

TypeOK ==
    /\ master \in [Files -> Nat]
    /\ copy \in [Files -> [ver : Nat, state : States]]
=============================================================================
