---------------------------- MODULE MCZapLedger ----------------------------
(***************************************************************************)
(* Instances of ZapLedger with Int4Max = 7, so that few small amounts      *)
(* saturate a balance and an amount of 10 wraps to -6.  Key n1 owns all    *)
(* zaps and the requests of d1 and d2, so that credits race with credits   *)
(* and with charges; key n2 has a request and never an account.            *)
(***************************************************************************)
EXTENDS ZapLedger, TLC

CONSTANTS n1, n2, z1, z2, z3, d1, d2, d3

mcOwner == z1 :> n1 @@ z2 :> n1 @@ z3 :> n1 @@ d1 :> n1 @@ d2 :> n1
mcOwnerTwoKeys == z1 :> n1 @@ z2 :> n1 @@ d1 :> n1 @@ d2 :> n1 @@ d3 :> n2

\* z1 wraps; z2 and z3 together saturate; d1 and d2 deliver one request.
mcMsatWraps == z1 :> 10 @@ z2 :> 7 @@ z3 :> 3 @@ d1 :> 4 @@ d2 :> 4

\* Every amount fits; z1 and z2 together saturate; d1 and d2 deliver requests
\* of their own.
mcMsatFits == z1 :> 5 @@ z2 :> 5 @@ d1 :> 4 @@ d2 :> 3 @@ d3 :> 1

=============================================================================
