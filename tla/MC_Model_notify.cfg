CONSTANTS MaxVersion <- MC_MaxVersion
SPECIFICATION Spec
PROPERTY NotifiedOncePerApply
