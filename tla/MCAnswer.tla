------------------------------- MODULE MCAnswer -------------------------------
EXTENDS PIAnswer, MCLifecycle
=============================================================================
