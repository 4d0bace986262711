------------------------------ MODULE MCVulkan ------------------------------
(* An instance of Vulkan for TLC: the batches that displayd, compd and        *)
(* waylandd submit, in payloads of a few words.                               *)
EXTENDS Vulkan

Batch(payload, words, zeroize) ==
    [payload |-> payload, words |-> words, packet |-> FALSE, allows_gpu |-> TRUE,
     zeroize |-> zeroize]

Scene == Batch(1, 1, FALSE)            \* the placements of a scene
Secret == Batch(2, 2, TRUE)            \* metadata to be cleared
Audit == Batch(1, None, TRUE)          \* the handoff audit, no metadata

MCBatches == {Scene, Secret, Audit}
=============================================================================
