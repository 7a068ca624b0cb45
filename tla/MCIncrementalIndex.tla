------------------------- MODULE MCIncrementalIndex -------------------------
(***************************************************************************)
(* Instances of IncrementalIndex for TLC: a content that declares f, one    *)
(* that declares g and calls f, so that re-indexing a file drops the edges  *)
(* of another, and one the parser rejects.                                  *)
(***************************************************************************)
EXTENDS IncrementalIndex

MCDefines ==
    [c \in Contents |-> CASE c = "callee" -> {"f"}
                          [] c = "caller" -> {"g"}
                          [] OTHER -> {}]

MCCalls == [c \in Contents |-> IF c = "caller" THEN {<<"g", "f">>} ELSE {}]
=============================================================================
