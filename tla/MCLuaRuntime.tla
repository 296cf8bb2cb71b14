---------------------------- MODULE MCLuaRuntime ----------------------------
EXTENDS LuaRuntime

CONSTANTS p1, p2, p3, s1, t1, t2, k1, c1

\* Threads of the pool are interchangeable.
PoolSymmetry == Permutations(PoolCo)
=============================================================================
