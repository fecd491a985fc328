------------------------------ MODULE MCLambdaAsk ------------------------------
(* Containers share no state and addresses no bucket, so one container and  *)
(* one address, with cold starts and a midnight, show what each promises;   *)
(* two containers for the cap all of them are meant to share.               *)
EXTENDS LambdaAsk

CONSTANTS c1, c2, ip1

OneContainer == {c1}
TwoContainers == {c1, c2}
OneIp == {ip1}
=============================================================================
