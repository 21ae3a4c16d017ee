---------------------------- MODULE MCOutboxRelay ----------------------------
EXTENDS OutboxRelay, TLC
CONSTANTS a, b, p, q, bus, broker
MCReplicas == {a, b}
OneReplica == {a}
OneKey == {p}
MCKeys == {p, q}
MCSinks == {bus, broker}
Interchangeable == Permutations(MCReplicas) \union Permutations(MCKeys) \union Permutations(MCSinks)
=============================================================================
