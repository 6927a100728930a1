----------------------- MODULE MCSubscriptionManager ------------------------
\* Instances of SubscriptionManager for TLC; the values are in the .cfg files.
EXTENDS SubscriptionManager
=============================================================================
