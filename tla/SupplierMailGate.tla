-------------------------- MODULE SupplierMailGate --------------------------
(***************************************************************************)
(* What the human-in-the-loop gate promises, and nothing else: every order *)
(* has a gate, the gate of an order opens once and stays open, and a mail  *)
(* to the supplier leaves only through an open gate.                       *)
(***************************************************************************)
EXTENDS Naturals

CONSTANTS Orders, Limit     \* Limit bounds the mails counted

VARIABLES gate, sent

gateVars == <<gate, sent>>

Init ==
    /\ gate = [p \in Orders |-> "closed"]
    /\ sent = [p \in Orders |-> 0]

Open(p) ==
    /\ gate' = [gate EXCEPT ![p] = "open"]
    /\ UNCHANGED sent

Send(p) ==
    /\ gate[p] = "open"
    /\ sent[p] < Limit
    /\ sent' = [sent EXCEPT ![p] = @ + 1]
    /\ UNCHANGED gate

Next == \E p \in Orders : Open(p) \/ Send(p)

Spec == Init /\ [][Next]_gateVars
=============================================================================
