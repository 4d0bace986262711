----------------------------- MODULE MCRegistry -----------------------------
(* Two clients and the registry of examples/minimal-scene: a terminal, a   *)
(* panel that is not mapped and still owns the clipboard.                  *)
EXTENDS Registry

CONSTANTS c1, c2, w1, w2, terminal, panel

MCSurfaceOf == [c \in SurfaceClients |-> IF c = c1 THEN w1 ELSE w2]

MCLoaded ==
    [generation |-> 2,
     rows |-> [s \in {terminal, panel} |->
                  IF s = terminal THEN [role |-> "Toplevel", active |-> TRUE, buffer |-> 0]
                  ELSE [role |-> "Layer", active |-> FALSE, buffer |-> 0]],
     selection |-> [k \in {"clipboard", "primary"} |->
                       [owner |-> IF k = "clipboard" THEN panel ELSE terminal,
                        payload |-> TRUE, serial |-> TRUE]]]

MCLastScene ==
    [surfaces |-> [s \in {terminal, panel, w1} |->
                      [z |-> IF s = w1 THEN 10 ELSE 5, visible |-> TRUE, buffer |-> 0,
                       pixels |-> s = w1]],
     focus |-> panel,
     selection |-> [k \in {"clipboard", "primary"} |->
                       [owner |-> NoSurface, payload |-> FALSE, serial |-> FALSE]]]
=============================================================================
