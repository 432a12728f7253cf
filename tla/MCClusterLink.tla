--------------------------- MODULE MCClusterLink ---------------------------
EXTENDS ClusterLink

CONSTANTS r1, alice, bob

\* Alice signs two different roots of epoch 1 and one of epoch 2; Bob signs a
\* root of epoch 2 for the same space id.
MCRoots ==
  {[epoch |-> 1, signer |-> alice, hash |-> 1], [epoch |-> 1, signer |-> alice, hash |-> 2],
   [epoch |-> 2, signer |-> alice, hash |-> 1], [epoch |-> 2, signer |-> bob, hash |-> 1]}
=============================================================================
