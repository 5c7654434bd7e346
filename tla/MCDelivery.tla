----------------------------- MODULE MCDelivery -----------------------------
\* One issue, with a reviewer who may stand in the way.
EXTENDS Delivery
=============================================================================
