CONSTANTS MaxVersion <- MC_MaxVersion
SPECIFICATION Spec
INVARIANT DefaultIsAvailable
