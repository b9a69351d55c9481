\* compute_size against the regions Encoder::add hands out.
CONSTANT Roots <- MCRoots
INIT Init
NEXT Next
\* serialize of one value runs to completion and stops.
CHECK_DEADLOCK FALSE
INVARIANT TypeOK
INVARIANT SizeExact
INVARIANT InlineWithinRegion
