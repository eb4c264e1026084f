SPECIFICATION Spec
CONSTANT ProjectCount = 2
INVARIANT
  SkippingTolerated
