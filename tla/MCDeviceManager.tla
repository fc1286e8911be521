--------------------------- MODULE MCDeviceManager ---------------------------
EXTENDS DeviceManager, TLC

Symmetric == Permutations(Ids) \cup Permutations(Requests) \cup Permutations(Brokers)
=============================================================================
