---------------------------- MODULE MCProviders ----------------------------
(* TLC instance of Providers: two RSA pairs, one pair for signatures, two  *)
(* curves, and a key of each cloud service and usage that behaves apart.   *)
EXTENDS Providers, TLC

CONSTANTS rsa1, rsa2, ed, p256, p521, e256, e521,
          awsData, awsSign, azure, gcpPss, gcpPkcs1, gcpEc,
          plain, marked, plainBytes, markedBytes

MCKindOf ==
  (rsa1 :> "RSA") @@ (rsa2 :> "RSA") @@ (ed :> "Ed25519") @@
  (p256 :> "P-256") @@ (p521 :> "P-521") @@ (e256 :> "P-256") @@ (e521 :> "P-521")

MCUtf8 == (plain :> plainBytes) @@ (marked :> markedBytes)

MCShown == (plainBytes :> plain) @@ (markedBytes :> plain)

MCProviderOf ==
  (awsData :> "aws-kms") @@ (awsSign :> "aws-kms") @@ (azure :> "azure-key-vault") @@
  (gcpPss :> "gcp-kms") @@ (gcpPkcs1 :> "gcp-kms") @@ (gcpEc :> "gcp-kms")

MCUsageOf ==
  (awsData :> "symmetric") @@ (awsSign :> "RSA") @@ (azure :> "RSA") @@
  (gcpPss :> "PSS") @@ (gcpPkcs1 :> "PKCS1") @@ (gcpEc :> "EC")
=============================================================================
