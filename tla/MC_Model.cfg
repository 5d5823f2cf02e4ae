CONSTANTS MaxVersion <- MC_MaxVersion
SPECIFICATION Spec
PROPERTY DefaultNeverLowerWhileStarting
INVARIANTS TypeOK DefaultAvailableDuringReconcile DefaultIsHighestWhenIdle
