\* Decoding every command's output: results with every legal field value
\* and output with one field missing, null or mistyped.
SPECIFICATION Spec
\* The check ends once the output is decoded.
CHECK_DEADLOCK FALSE
INVARIANT DecodeMatchesSpec
