-------------------------- MODULE MCOutboxDispatch --------------------------
\* OutboxDispatch with model values.  Liveness is checked: no symmetry.
EXTENDS OutboxDispatch
=============================================================================
