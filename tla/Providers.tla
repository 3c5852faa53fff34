----------------------------- MODULE Providers -----------------------------
(***************************************************************************)
(* The providers of the encrypt package: encrypt/local, on Web Crypto, and *)
(* the encrypt, decrypt, sign and verify of the three cloud adapters.      *)
(*                                                                         *)
(* A call keeps no state of its own: its answer is a function of its       *)
(* arguments and of random bits, an operator here.  All arguments are      *)
(* strings, so any string at hand may be given to any call; the state is   *)
(* what calls have made so far.                                            *)
(***************************************************************************)
EXTENDS Crypto

CONSTANTS CloudKey,    \* keys that a cloud service holds
          ProviderOf,  \* the service of each
          UsageOf,     \* what each was created for
          Additional,  \* the additional data that callers give
          Verified,    \* verify resolves, with TRUE where it says so
          Refuted,     \* verify resolves with FALSE
          MaxKeys,     \* bound on the calls that generate a key
          MaxMade      \* bound on the other calls

ASSUME CloudAssumption ==
  /\ Additional \subseteq Text \cup {Undefined}
  /\ CloudKey \cap Pair = {}
  /\ ProviderOf \in [CloudKey -> {"aws-kms", "azure-key-vault", "gcp-kms"}]
  /\ UsageOf \in [CloudKey -> {"symmetric", "RSA", "PSS", "PKCS1", "EC"}]
  /\ \A k \in CloudKey : UsageOf[k] = "RSA" <=> ProviderOf[k] # "gcp-kms" /\ UsageOf[k] \notin {"symmetric", "EC"}
ASSUME BoundAssumption == MaxKeys \in Nat /\ MaxMade \in Nat
ASSUME OutcomeAssumption == Failed # Verified /\ Failed # Refuted /\ Verified # Refuted

VARIABLES keys,  \* the calls that generated a key
          made   \* the other calls whose answer is a string to keep, with the answer

vars == <<keys, made>>

Init ==
  /\ keys = {}
  /\ made = {}

\* The strings at hand.
Held ==
  LET pairs == {c.pair : c \in {k \in keys : k.op = "pair"}}
  IN  {PublicKey(pair) : pair \in pairs} \cup {PrivateKey(pair) : pair \in pairs}
        \cup {SecretKey(c.secret) : c \in {k \in keys : k.op = "secret"}}
        \cup {m.value : m \in made}

-----------------------------------------------------------------------------
(* encrypt/local: encryption.                                              *)

EncryptAES(key, text, additional, nonce) ==
  IF IsAESKey(key)
  THEN [form |-> "blob", nonce |-> nonce,
        cipher |-> Sealed(key, nonce, AdditionalData(additional), Utf8[text])]
  ELSE Failed

\* Mutant: additional data that is not given is not checked.
DecryptAESLenient(key, value, additional) ==
  IF IsAESKey(key) /\ value.form = "blob"
  THEN TextOf(Opened(key, value.nonce,
                     IF additional = Undefined THEN value.cipher.additional
                     ELSE AdditionalData(additional), value.cipher))
  ELSE Failed

DecryptAES(key, value, additional) ==
  IF IsAESKey(key) /\ value.form = "blob"
  THEN TextOf(Opened(key, value.nonce, AdditionalData(additional), value.cipher))
  ELSE Failed

RsaOaepEncode(key, text) ==
  IF Imports("spki", key, "RSA") /\ Utf8[text] \in Short
  THEN [form |-> "oaep", pair |-> key.pair, bytes |-> Utf8[text]] ELSE Failed

RsaOaepDecode(key, cipherText) ==
  IF Imports("pkcs8", key, "RSA") /\ cipherText.form = "oaep" /\ cipherText.pair = key.pair
  THEN TextOf(cipherText.bytes) ELSE Failed

\* The curve, of those tried in turn, on which the key imports.
ImportECDHPublicKeyAuto(key) ==
  IF \E curve \in Curve : Imports("spki", key, curve) THEN KindOf[key.pair] ELSE Failed

EcdhEncode(key, text, ephemeral, nonce) ==
  LET curve  == ImportECDHPublicKeyAuto(key)
      aesKey == DeriveECCAESKey(ephemeral, key.pair, curve)
  IN  IF curve = KindOf[ephemeral] /\ aesKey # Failed
      THEN ECCCipherPayload(curve, PublicKey(ephemeral), nonce,
                            Sealed(aesKey, nonce, NoBytes, Utf8[text]))
      ELSE Failed

EcdhDecode(key, payload) ==
  IF /\ payload.form = "envelope"
     /\ Imports("pkcs8", key, payload.curve)
     /\ Imports("spki", payload.ephemeralPublicKey, payload.curve)
  THEN TextOf(Opened(DeriveECCAESKey(key.pair, payload.ephemeralPublicKey.pair, payload.curve),
                     payload.nonce, NoBytes, payload.cipherText))
  ELSE Failed

-----------------------------------------------------------------------------
(* encrypt/local: hashes and signatures.                                   *)

Hmac(secretKey, message) == [form |-> "mac", key |-> Utf8[secretKey], bytes |-> Utf8[message]]

Sha256Hex(message) == Sha256(Utf8[message])

Blake3(message) == [form |-> "blake3", bytes |-> Utf8[message]]

SignerKind == [Ed25519 |-> "Ed25519", PSS |-> "RSA", PKCS1 |-> "RSA"]

\* signEd25519, signRSAPSS and signRSAPKCS1v15SHA256.
SignLocal(scheme, key, text) ==
  IF Imports("pkcs8", key, SignerKind[scheme])
  THEN Signature(scheme, key.pair, Sha256(Utf8[text])) ELSE Failed

\* Mutant: the answer of crypto.subtle.verify is not looked at.
VerifyLocalUnchecked(scheme, key, text, signature) ==
  IF Imports("spki", key, SignerKind[scheme]) THEN Verified ELSE Failed

\* verifyEd25519, verifyRSAPSS and verifyRSAPKCS1v15SHA256: a false answer is thrown.
VerifyLocal(scheme, key, text, signature) ==
  IF /\ Imports("spki", key, SignerKind[scheme])
     /\ signature = Signature(scheme, key.pair, Sha256(Utf8[text]))
  THEN Verified ELSE Failed

-----------------------------------------------------------------------------
(* The cloud adapters.                                                     *)

Algorithm == {"PSS", "PKCS1", "EC"}

ASSUME UndefinedAssumption == Undefined \notin Algorithm

\* The signing algorithm each provider takes when a request names none.
Effective(algorithm) == IF algorithm = Undefined THEN "PSS" ELSE algorithm

\* Azure Key Vault encrypts with RSA-OAEP, the others with a symmetric key.
Encrypts(k) == UsageOf[k] = IF ProviderOf[k] = "azure-key-vault" THEN "RSA" ELSE "symmetric"

EncryptCloud(k, text) ==
  IF Encrypts(k) /\ (UsageOf[k] = "RSA" => Utf8[text] \in Short)
  THEN [form |-> "kms", key |-> k, bytes |-> Utf8[text]] ELSE Failed

\* Only AWS KMS finds the key of a ciphertext by itself.
DecryptCloud(provider, cipherText, k) ==
  IF /\ cipherText.form = "kms" /\ ProviderOf[cipherText.key] = provider
     /\ k = cipherText.key \/ (k = Undefined /\ provider = "aws-kms")
  THEN TextOf(cipherText.bytes) ELSE Failed

\* The scheme in which a service signs: GCP's keys have one, whatever is asked for.
SchemeOf(k, algorithm) ==
  IF ProviderOf[k] = "gcp-kms" THEN UsageOf[k]
  ELSE IF \/ UsageOf[k] = "RSA" /\ algorithm \in {"PSS", "PKCS1"}
          \/ UsageOf[k] = "EC" /\ algorithm = "EC"
  THEN algorithm ELSE "symmetric"

SignCloud(k, text, algorithm) ==
  LET scheme == SchemeOf(k, Effective(algorithm))
  IN  IF scheme = "symmetric" THEN Failed ELSE Signature(scheme, k, Sha256(Utf8[text]))

\* Mutant: a signing algorithm that is not PSS by name is taken for PKCS1.
SchemeOfVerifyByName(k, algorithm) ==
  IF ProviderOf[k] = "gcp-kms" THEN IF algorithm = "EC" THEN "PSS" ELSE "PKCS1"
  ELSE SchemeOf(k, algorithm)

\* verifyWithPublicKey of the GCP adapter goes by the name, the others ask the service.
SchemeOfVerify(k, algorithm) ==
  IF ProviderOf[k] = "gcp-kms" THEN IF algorithm = "PKCS1" THEN "PKCS1" ELSE "PSS"
  ELSE SchemeOf(k, algorithm)

\* A key that is not an RSA key does not import; AWS KMS rejects where others say FALSE.
VerifyCloud(k, text, signature, algorithm) ==
  LET scheme == SchemeOfVerify(k, Effective(algorithm))
  IN  IF scheme = "symmetric" \/ (ProviderOf[k] = "gcp-kms" /\ UsageOf[k] \notin {"PSS", "PKCS1"})
      THEN Failed
      ELSE IF signature = Signature(scheme, k, Sha256(Utf8[text])) THEN Verified
      ELSE IF ProviderOf[k] = "aws-kms" THEN Failed ELSE Refuted

-----------------------------------------------------------------------------
(* The calls.  One whose signal is aborted, before or meanwhile, rejects   *)
(* and makes nothing (runWithSignal), and so does one that fails.          *)

Generate(key) ==
  /\ Cardinality(keys) < MaxKeys
  /\ keys' = keys \cup {key}
  /\ UNCHANGED made

Make(call, value) ==
  /\ Cardinality(made) < MaxMade /\ value # Failed
  /\ made' = made \cup {[call |-> call, value |-> value]}
  /\ UNCHANGED keys

GenerateSymmetricKeys == \E secret \in Secret : Generate([op |-> "secret", secret |-> secret])

\* generateRSAKeys, generateEd25519Keys and generateECDHCurveKeys.
GeneratePair == \E pair \in Pair \ Ephemeral : Generate([op |-> "pair", pair |-> pair])

Encrypt ==
  \E key \in Held, text \in Text :
    \/ \E additional \in Additional, nonce \in Nonce :
         Make([op |-> "encryptAES", key |-> key, text |-> text, additional |-> additional],
              EncryptAES(key, text, additional, nonce))
    \/ Make([op |-> "rsaOaepEncode", key |-> key, text |-> text], RsaOaepEncode(key, text))
    \/ \E ephemeral \in Ephemeral, nonce \in Nonce :
         Make([op |-> "ecdhEncode", key |-> key, text |-> text],
              EcdhEncode(key, text, ephemeral, nonce))

Digest ==
  \E message \in Text :
    \/ \E key \in Text : Make([op |-> "hmac"], Hmac(key, message))
    \/ Make([op |-> "sha256Hex"], Sha256Hex(message))
    \/ Make([op |-> "blake3"], Blake3(message))

Sign ==
  \E scheme \in DOMAIN SignerKind, key \in Held, text \in Text :
    Make([op |-> "sign", scheme |-> scheme, key |-> key, text |-> text],
         SignLocal(scheme, key, text))

CallCloud ==
  \E k \in CloudKey, text \in Text :
    \/ Make([op |-> "encrypt", key |-> k, text |-> text], EncryptCloud(k, text))
    \/ \E algorithm \in Algorithm \cup {Undefined} :
         Make([op |-> "signCloud", key |-> k, text |-> text, algorithm |-> Effective(algorithm)],
              SignCloud(k, text, algorithm))

Next == GenerateSymmetricKeys \/ GeneratePair \/ Encrypt \/ Digest \/ Sign \/ CallCloud

Spec == Init /\ [][Next]_vars

-----------------------------------------------------------------------------
(* Properties.  Each speaks of every call with the strings at hand.        *)

\* The text that the answer value gives back must be that of one of these calls.
GivesBack(value, encodings) ==
  IF encodings = {} THEN value = Failed
  ELSE \E m \in encodings : value = Shown[Utf8[m.call.text]]

\* The calls of op that answered with value, made with what belongs to a decoding.
Encodings(op, value, Belongs(_)) == {m \in made : m.call.op = op /\ m.value = value /\ Belongs(m.call)}

AESInverts(key, value, additional) ==
  LET Belongs(call) ==
        key = call.key /\ AdditionalData(additional) = AdditionalData(call.additional)
  IN  GivesBack(DecryptAES(key, value, additional), Encodings("encryptAES", value, Belongs))

RsaInverts(key, value) ==
  LET Belongs(call) == key = PrivateKey(call.key.pair)
  IN  GivesBack(RsaOaepDecode(key, value), Encodings("rsaOaepEncode", value, Belongs))

EcdhInverts(key, value) ==
  LET Belongs(call) == key = PrivateKey(call.key.pair)
  IN  GivesBack(EcdhDecode(key, value), Encodings("ecdhEncode", value, Belongs))

CloudInverts(k, provider, value) ==
  LET Belongs(call) ==
        /\ ProviderOf[call.key] = provider
        /\ k = call.key \/ (k = Undefined /\ provider = "aws-kms")
  IN  GivesBack(DecryptCloud(provider, value, k), Encodings("encrypt", value, Belongs))

(***************************************************************************)
(* Decryption gives back what was encrypted, but for a byte order mark,    *)
(* with the key and the additional data that belong to the ciphertext, and *)
(* fails with everything else: another key, another kind of string.        *)
(***************************************************************************)
RoundTrips ==
  \A value \in Held :
    /\ \A key \in Held :
         /\ \A additional \in Additional : AESInverts(key, value, additional)
         /\ RsaInverts(key, value)
         /\ EcdhInverts(key, value)
    /\ \A k \in CloudKey \cup {Undefined}, provider \in {ProviderOf[c] : c \in CloudKey} :
         CloudInverts(k, provider, value)

VerifiesLocally(scheme, key, text, signature) ==
  VerifyLocal(scheme, key, text, signature) = Verified <=>
    \E m \in made :
      /\ m.call.op = "sign" /\ m.value = signature /\ m.call.scheme = scheme
      /\ key = PublicKey(m.call.key.pair) /\ Utf8[m.call.text] = Utf8[text]

VerifiesInCloud(k, text, signature, algorithm) ==
  VerifyCloud(k, text, signature, algorithm) = Verified <=>
    \E m \in made :
      /\ m.call.op = "signCloud" /\ m.value = signature
      /\ m.call.key = k /\ Utf8[m.call.text] = Utf8[text]
      /\ IF ProviderOf[k] = "gcp-kms"
         THEN UsageOf[k] = IF algorithm = "PKCS1" THEN "PKCS1" ELSE "PSS"
         ELSE m.call.algorithm = Effective(algorithm)

(***************************************************************************)
(* A signature verifies if and only if the same key made it of the same    *)
(* text: locally in the same scheme, in the cloud with the same algorithm. *)
(* Sign and verify of the GCP adapter do not agree on one: it takes a call *)
(* that names PKCS1 for a PKCS1 key, any other for PSS, and none for EC.   *)
(***************************************************************************)
VerifiesWhatWasSigned ==
  \A signature \in Held, text \in Text :
    /\ \A scheme \in DOMAIN SignerKind, key \in Held :
         VerifiesLocally(scheme, key, text, signature)
    /\ \A k \in CloudKey, algorithm \in Algorithm \cup {Undefined} :
         VerifiesInCloud(k, text, signature, algorithm)

(***************************************************************************)
(* A key of this package does what it was generated for, on each curve and *)
(* with each scheme; only RSA-OAEP has texts that it refuses.              *)
(***************************************************************************)
GeneratedKeysServe ==
  \A text \in Text, nonce \in Nonce :
    /\ \A k \in {c \in keys : c.op = "secret"}, additional \in Additional :
         EncryptAES(SecretKey(k.secret), text, additional, nonce) # Failed
    /\ \A k \in {c \in keys : c.op = "pair"} :
         /\ \A e \in Ephemeral : KindOf[e] = KindOf[k.pair] =>
              EcdhEncode(PublicKey(k.pair), text, e, nonce) # Failed
         /\ KindOf[k.pair] = "RSA" =>
              (RsaOaepEncode(PublicKey(k.pair), text) = Failed <=> Utf8[text] \notin Short)
         /\ \A scheme \in {c \in DOMAIN SignerKind : SignerKind[c] = KindOf[k.pair]} :
              SignLocal(scheme, PrivateKey(k.pair), text) # Failed
=============================================================================
