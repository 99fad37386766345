-------------------------- MODULE MC_MemoryEngine --------------------------
(* Model values and small bounds for checking MemoryEngine with TLC.      *)
EXTENDS MemoryEngine, TLC

MC_Pids == {"p1", "p2"}
MC_Addrs == {"a1"}

MC_OnePid == {"p1"}
MC_TwoAddrs == {"a1", "a2"}
MC_ThreeAddrs == {"a1", "a2", "a3"}

\* Sizes strictly below the byte budget: every single request can be served.
MC_Sizes == {1, 2}

\* Sizes including one equal to the byte budget (MAX_BYTES_PER_DISPATCH).
MC_SizesAtBudget == {1, 4}

\* The caller threads are interchangeable (used by safety-only runs).
ThreadSymmetry == Permutations(Threads)

=============================================================================
