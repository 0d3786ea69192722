---------------------------- MODULE MC_NsThreads ----------------------------
(* Small instances of NsThreads.                                           *)
EXTENDS NsThreads, TLC

\* Goroutines are alike, and so are all threads but the initial one. For the
\* safety runs only.
Alike == Permutations(Goroutines)
            \union Permutations(OSThreads \ {InitialThread})
=============================================================================
