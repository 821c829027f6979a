----------------------------- MODULE MCCopyJobs -----------------------------
(***************************************************************************)
(* Copy jobs for TLC: one job and one draft made without it, two requests, *)
(* a store that may move, and a model whose title keeps to the facts, whose*)
(* introduction repeats the price that is not confirmed and whose topic    *)
(* makes one up.                                                           *)
(***************************************************************************)
EXTENDS CopyJobs, TLC

CONSTANTS honest, leaky, invented

MCOutputs == {[title |-> honest, intro |-> leaky, topics |-> {leaky, invented}]}

MCMentions ==
    [t \in {FirstText, TypedText, Blank, honest, leaky, invented} |->
        CASE t = honest   -> {"here"}
          [] t = leaky    -> {"old price"}
          [] t = invented -> {"no price"}
          [] OTHER        -> {}]

MCFacts == {[price |-> "old price", address |-> "here", sure |-> {"address"}]}
=============================================================================
