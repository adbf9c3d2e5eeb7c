---------------------------- MODULE MCSignOnCrypto ----------------------------
(***************************************************************************)
(* Two of three nodes over the integers modulo a small prime, with hashes  *)
(* that tell their arguments apart where the field has room.               *)
(***************************************************************************)
EXTENDS SignOnCrypto

MCHashToGroup(password) == IF password = Registered THEN 3 ELSE 2

MCBindingHash(input) ==
  LET weights == [k \in DOMAIN input[3] |->
        (k + 1) * (input[3][k].nodeId + 2 * input[3][k].D + 3 * input[3][k].E)]
  IN 1 + ((SumOf(weights) + input[1] + (IF input[2] = Signed THEN 0 ELSE 1)) % (Order - 1))

MCChallengeHash(input) == Mod(2 * input[1] + 3 * input[2] + (IF input[3] = Signed THEN 1 ELSE 2))

MCNonces ==
  {[i \in NodeId |-> <<1, 2>>], [i \in NodeId |-> <<i, 4>>],
   [i \in NodeId |-> IF i = 2 THEN <<3, 1>> ELSE <<2, 2>>]}
===============================================================================
