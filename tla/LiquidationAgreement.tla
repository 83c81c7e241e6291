------------------------ MODULE LiquidationAgreement ------------------------
(***************************************************************************)
(* What the liquidation of a case promises, without requests, tables or    *)
(* locks: each party confirms for itself, nothing a party confirmed is     *)
(* taken back, and the agreement becomes final only once every party has   *)
(* confirmed.                                                              *)
(***************************************************************************)
CONSTANTS Cases, Parties

VARIABLES confirmed, final

Init ==
  /\ confirmed = [k \in Cases |-> {}]
  /\ final = [k \in Cases |-> FALSE]

Confirm(k, p) ==
  /\ confirmed' = [confirmed EXCEPT ![k] = @ \cup {p}]
  /\ UNCHANGED final

Finalize(k) ==
  /\ confirmed[k] = Parties
  /\ final' = [final EXCEPT ![k] = TRUE]
  /\ UNCHANGED confirmed

Next == \E k \in Cases : Finalize(k) \/ \E p \in Parties : Confirm(k, p)

Spec == Init /\ [][Next]_<<confirmed, final>>
=============================================================================
