----------------------------- MODULE MCPropagation -----------------------------
(* Propagation on three projections, declared over the lake and each other. *)
EXTENDS Propagation

CONSTANTS builder

Declares(sources, reconciliation, modes) ==
  [sources |-> sources, readModes |-> {"operational-latest"}, outputs |-> {"json"},
   reconciliation |-> reconciliation, deterministicIn |-> modes]

MCProjectionSpec ==
  {Declares({Lake}, "none", {}),
   Declares({Projected(1, 1), Projected(1, 2)}, "lake-first", {}),
   Declares({Projected(2, 1), Projected(1, 1)}, "lake-first", {}),
   Declares({Projected(3, 1)}, "none", {}),
   Declares({Lake, SourceNative}, "lake-first", {"academic-pinned"})}
=============================================================================
