----------------------- MODULE MCReadWriteMutexObject -----------------------
(* Instance of ReadWriteMutexObject for TLC: three threads that read and    *)
(* write for ever.                                                          *)
EXTENDS ReadWriteMutexObject
=============================================================================
