----------------------------- MODULE MCRunLoop -----------------------------
(* Small instances of RunLoop: a handful of guest blocks of each kind.     *)
EXTENDS RunLoop

SafetyBlocks == {"vector", "spin", "poll", "fill", "count"}
SafetyKind == [b \in SafetyBlocks |->
  CASE b = "vector" -> "plain" [] b = "spin" -> "idle"
    [] b = "poll" -> "poll" [] b = "fill" -> "zerofill" [] b = "count" -> "countdown"]

CountdownBlocks == {"vector", "count"}
CountdownKind == [b \in CountdownBlocks |-> IF b = "vector" THEN "plain" ELSE "countdown"]

LiveBlocks == {"vector", "poll"}
LiveKind == [b \in LiveBlocks |-> IF b = "vector" THEN "plain" ELSE "poll"]
=============================================================================
