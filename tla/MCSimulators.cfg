SPECIFICATION Spec
CONSTANT Simulators = {"cache", "bpred"}
INVARIANTS DataKept TrafficExplained Predicted FiguresAddUp
CHECK_DEADLOCK FALSE
