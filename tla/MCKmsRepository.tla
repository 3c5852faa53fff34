-------------------------- MODULE MCKmsRepository --------------------------
(* TLC instances of KmsRepository.                                         *)
EXTENDS KmsRepository
=============================================================================
