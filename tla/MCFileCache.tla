---------------------------- MODULE MCFileCache ----------------------------
(* One path, a source or an output, and two threads.  Threads and contents   *)
(* are interchangeable.                                                      *)
EXTENDS FileCache, TLC
CONSTANTS t1, t2, a, b

OnePath == {"path"}
Numbers == [path |-> 0]
TwoThreads == {t1, t2}
TwoContents == {a, b}
Sym == Permutations(TwoThreads) \cup Permutations(TwoContents)
=============================================================================
