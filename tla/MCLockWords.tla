---------------------------- MODULE MCLockWords ----------------------------
(* Small instances of LockWords: two words of a kind share a wait queue,   *)
(* or there is one word of the kind.                                       *)
EXTENDS LockWords, TLC

CONSTANTS t1, t2, t3, m1, m2, c1, c2

SharedMutexQueue == (m1 :> 1) @@ (m2 :> 1)
SharedCondQueue == (c1 :> 1) @@ (c2 :> 1)
OneMutexQueue == (m1 :> 1)
OneCondQueue == (c1 :> 1)
=============================================================================
