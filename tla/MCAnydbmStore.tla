---------------------------- MODULE MCAnydbmStore ----------------------------
(* Small instances of AnydbmStore: two or three ids, two key values. *)
EXTENDS AnydbmStore, TLC

MCNames == {"a", "b"}
WebAndOperator == {"web", "operator"}
Operator == {"operator"}
OneOff == {"oneoff"}
Multicall == {"multicall"}
Interactive == {"interactive"}
=============================================================================
