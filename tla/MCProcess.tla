----------------------------- MODULE MCProcess -----------------------------
(***************************************************************************)
(* Instances of Process: two connections and two workers, so that handlers *)
(* that hold one connection each can exhaust them while they wait for a    *)
(* second, and one thread for wasm, which a run that timed out can keep.   *)
(***************************************************************************)
EXTENDS Process

CONSTANTS h1, h2, h3, k1, k2

mcKinds == [h \in Handler |->
    CASE h = h1 -> {"task"}
      [] h = h2 -> {"event"}
      [] h = h3 -> {"event", "plain", "bill", "zap", "http"}]

=============================================================================
