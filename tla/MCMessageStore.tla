--------------------------- MODULE MCMessageStore ---------------------------
\* MessageStore for TLC: the configuration gives every constant a small set.
EXTENDS MessageStore
=============================================================================
