------------------------------- MODULE Crypto -------------------------------
(***************************************************************************)
(* The strings that the encrypt package hands to its callers, as terms,    *)
(* and what Web Crypto and the helpers of encrypt/utilities make of them.  *)
(*                                                                         *)
(* Web Crypto is taken at its word: a ciphertext opens with what sealed    *)
(* it, a signature verifies under the pair that made it, a key imports in  *)
(* its own format and for its own kind, and everything else fails.         *)
(***************************************************************************)
EXTENDS Naturals, FiniteSets

CONSTANTS Pair,      \* key pairs
          Ephemeral, \* those that an ecdhEncode generates
          KindOf,    \* the kind of each pair
          Secret,    \* random symmetric keys
          Nonce,     \* nonces of AES-GCM
          Text,      \* what callers encrypt, sign and hash
          Utf8,      \* the bytes of a text
          Shown,     \* the text of bytes: a byte order mark is lost
          Short,     \* the bytes that RSA-OAEP has room for
          Undefined, \* an argument that is not given
          NoBytes,   \* the empty string
          Failed     \* a rejection

Curve == {"P-256", "P-384", "P-521"}

Kind == Curve \cup {"RSA", "Ed25519"}

ASSUME KindAssumption ==
  /\ Ephemeral \subseteq Pair
  /\ KindOf \in [Pair -> Kind]
  /\ \A e \in Ephemeral : KindOf[e] \in Curve
ASSUME TextAssumption ==
  /\ \A text \in Text : Utf8[text] \in DOMAIN Shown
  /\ \A bytes \in DOMAIN Shown : Shown[bytes] \in Text

-----------------------------------------------------------------------------
(* Keys.                                                                   *)

PublicKey(pair) == [form |-> "spki", pair |-> pair]

PrivateKey(pair) == [form |-> "pkcs8", pair |-> pair]

SecretKey(secret) == [form |-> "raw", secret |-> secret]

\* importKey for a pair of this kind; the three RSA algorithms read the same encoding.
Imports(format, key, kind) == key.form = format /\ KindOf[key.pair] = kind

\* importKey for AES-GCM takes any bytes of the right number: a MAC or a digest of blake3, too.
IsAESKey(key) == key.form \in {"raw", "mac", "blake3"}

-----------------------------------------------------------------------------
(* Ciphertexts and signatures.                                             *)

\* additionalData left out is the same to AES-GCM as an empty one.
AdditionalData(additional) == IF additional = Undefined THEN NoBytes ELSE Utf8[additional]

Sealed(key, nonce, additional, bytes) ==
  [form |-> "sealed", key |-> key, nonce |-> nonce, additional |-> additional, bytes |-> bytes]

Opened(key, nonce, additional, cipher) ==
  IF cipher = Sealed(key, nonce, additional, cipher.bytes) THEN cipher.bytes ELSE Failed

TextOf(bytes) == IF bytes = Failed THEN Failed ELSE Shown[bytes]

Sha256(bytes) == [form |-> "sha256", bytes |-> bytes]

Signature(scheme, signer, digest) ==
  [form |-> "signature", scheme |-> scheme, signer |-> signer, digest |-> digest]

-----------------------------------------------------------------------------
(* ECDH envelopes.                                                         *)

\* Mutant: the names of the curves taken for their sizes.
BitLengthsNamed == [curve \in Curve |->
  CASE curve = "P-256" -> 256 [] curve = "P-384" -> 384 [] OTHER -> 521]

\* bitLengths of deriveECCAESKey.
BitLengths == [curve \in Curve |->
  CASE curve = "P-256" -> 256 [] curve = "P-384" -> 384 [] OTHER -> 528]

\* deriveBits gives whole bytes of a secret as long as a coordinate of the curve.
DeriveBits(private, public, bits) ==
  IF KindOf[private] = KindOf[public] /\ bits % 8 = 0
  THEN [pairs |-> {private, public}, bits |-> bits] ELSE Failed

\* The key that HKDF derives with the name of the curve as its context.
DeriveECCAESKey(private, public, curve) ==
  LET shared == DeriveBits(private, public, BitLengths[curve])
  IN  IF shared = Failed THEN Failed ELSE [form |-> "hkdf", shared |-> shared, info |-> curve]

ECCCipherPayload(curve, ephemeral, nonce, cipher) ==
  [form |-> "envelope", curve |-> curve, ephemeralPublicKey |-> ephemeral,
   nonce |-> nonce, cipherText |-> cipher]

-----------------------------------------------------------------------------
(* What the terms are: a rejection is none of them.                        *)

Bytes == {Utf8[text] : text \in Text}

\* Whatever AES-GCM takes for a key at the hands of a caller.
AESKey ==
  [form : {"raw"}, secret : Secret] \cup
  [form : {"mac"}, key : Bytes, bytes : Bytes] \cup [form : {"blake3"}, bytes : Bytes]

SharedSecret == [pairs : SUBSET Pair, bits : Nat]

DerivedKey == [form : {"hkdf"}, shared : SharedSecret, info : Curve]

CipherText(Key) ==
  [form : {"sealed"}, key : Key, nonce : Nonce, additional : Bytes \cup {NoBytes}, bytes : Bytes]

Blob == [form : {"blob"}, nonce : Nonce, cipher : CipherText(AESKey)]

Oaep == [form : {"oaep"}, pair : Pair, bytes : Bytes]

Envelope ==
  [form : {"envelope"}, curve : Curve, ephemeralPublicKey : {PublicKey(e) : e \in Ephemeral},
   nonce : Nonce, cipherText : CipherText(DerivedKey)]

Signatures(Signer) ==
  [form : {"signature"}, scheme : {"Ed25519", "PSS", "PKCS1", "EC"}, signer : Signer,
   digest : {Sha256(bytes) : bytes \in Bytes}]

ASSUME FailedAssumption ==
  /\ Failed \notin Text /\ Failed \notin DOMAIN Shown /\ Failed \notin Kind
  /\ Failed \notin SharedSecret /\ Failed \notin DerivedKey
  /\ Failed \notin Blob /\ Failed \notin Oaep /\ Failed \notin Envelope
  /\ Failed \notin Signatures(Pair)
=============================================================================
