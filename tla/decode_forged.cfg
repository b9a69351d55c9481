\* Messages the encoder laid out, received as sent or with one alteration.
CONSTANT Roots <- MCRoots
INIT Init
NEXT Next
\* deserialize returns Ok, Err or panics, and nothing runs after it.
CHECK_DEADLOCK FALSE
INVARIANT TypeOK
INVARIANT HonestAccepted
 
